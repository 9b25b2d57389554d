-------------------------- MODULE PipelineRefinement --------------------------
(***************************************************************************)
(* The pipeline controller as an implementation of FinalizerProtocol.      *)
(***************************************************************************)
EXTENDS PipelineInvariant

\* Where Reconcile has passed the finalizer and provisions.
Provisioning == {"merge", "scale", "generate", "apply", "status", "persist"}

\* The object and the worker of the finalizer protocol.
FinalizerObject ==
    [uid   |-> IF pipe = None THEN 0 ELSE pipe.uid,
     state |-> IF pipe = None THEN "absent"
               ELSE IF pipe.deleting THEN "ending"
               ELSE IF pipe.finalizer THEN "guarded" ELSE "fresh"]

WorksFor == IF pc \in Provisioning THEN loc.pipe.uid ELSE 0

Protocol == INSTANCE FinalizerProtocol WITH
    object <- FinalizerObject, born <- uids, work <- WorksFor

(***************************************************************************)
(* The pipeline controller implements the finalizer protocol: children and *)
(* status are written only for a pipeline that exists and is guarded, and  *)
(* a deleted pipeline goes only by Reconcile's hand, when no work for it   *)
(* is under way, whatever is deleted, created anew, lost or restarted.     *)
(***************************************************************************)
FinalizerHonoured == Protocol!Spec
=============================================================================

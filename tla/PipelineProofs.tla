---------------------------- MODULE PipelineProofs ----------------------------
(***************************************************************************)
(* The pipeline controller implements the finalizer protocol, the status   *)
(* it writes is the one of the generation it names, and it never goes      *)
(* quiet before the cluster is what the pipeline calls for.                *)
(***************************************************************************)
EXTENDS PipelineTyping, PipelineRefinement

(***************************************************************************)
(* The steps of the controller as steps of the finalizer protocol.         *)
(***************************************************************************)

\* Objects are numbered from 1, so 0 stands for no work.
Numbered == pipe # None => pipe.uid # 0

\* Only CreatePipeline counts objects.
LEMMA UidsCount ==
    ASSUME [Next]_vars
    PROVE  CreatePipeline \/ UNCHANGED uids
<1> USE DEF apiVars
<1>1. CASE Worker
  BY <1>1 DEF Worker, Begin, AddFinalizer, RemoveFinalizer, FinalizerConflict, Merge,
              CalculateScaling, GenerateConfigs, GenerateFails, SkipChild, WriteChild,
              RefusedChild, ComputeStatus, PersistStatus, PersistFails, StorePipe, StoreChild
<1>2. CASE Watch \/ TimerFires \/ Resync
  BY <1>2 DEF Watch, TimerFires, Resync, DeliverPipe, DeliverChild, DeliverSecret,
              DeliverDefaults
<1>3. CASE CallFails \/ AnswerLost \/ Restart
  BY <1>3 DEF CallFails, AnswerLost, Restart, StorePipe, StoreChild
<1>4. CASE Users \/ Collector
  <2>1. ASSUME NEW k, NEW c, ReplaceChild(k, c) PROVE UNCHANGED uids
    BY <2>1 DEF ReplaceChild
  <2> QED
    BY <1>4, <2>1 DEF Users, Collector, EditPipeline, TouchPipeline, DeletePipeline,
              ChangeSecret, ChangeDefaults, ChangeTopic, AutoscalerActs,
              DeploymentProgresses, Drift, Collect
<1>5. CASE UNCHANGED vars
  BY <1>5 DEF vars
<1> QED
  BY <1>1, <1>2, <1>3, <1>4, <1>5 DEF Next

Simulates == Protocol!Next \/ UNCHANGED <<FinalizerObject, uids, WorksFor>>

\* The steps of the protocol, said of the pipeline and the worker.
LEMMA SameObject ==
    ASSUME UNCHANGED pipe
    PROVE  UNCHANGED FinalizerObject
  BY DEF FinalizerObject

LEMMA KeptObject ==
    ASSUME pipe # None, pipe' # None, pipe'.uid = pipe.uid,
           pipe'.deleting = pipe.deleting, pipe'.finalizer = pipe.finalizer
    PROVE  UNCHANGED FinalizerObject
  BY DEF FinalizerObject

\* A reconcile ends and the object stays as it is.
LEMMA Ends ==
    ASSUME Numbered, FinalizerHolds, pc' = "idle", UNCHANGED uids, UNCHANGED FinalizerObject
    PROVE  Simulates
<1>1. WorksFor' = 0
  BY DEF WorksFor, Provisioning
<1>2. CASE pc \in Provisioning
  <2>1. WorksFor # 0
    BY <1>2 DEF WorksFor, Provisioning, Numbered, FinalizerHolds, WorksForExistingPipeline
  <2> QED
    BY <1>1, <2>1 DEF Simulates, Protocol!Next, Protocol!Stop
<1>3. CASE pc \notin Provisioning
  BY <1>1, <1>3 DEF WorksFor, Simulates
<1> QED
  BY <1>2, <1>3

\* The worker is untouched.
LEMMA SameWork ==
    ASSUME UNCHANGED <<pc, loc>>
    PROVE  UNCHANGED WorksFor
  BY DEF WorksFor
-----------------------------------------------------------------------------
LEMMA UserSimulates ==
    ASSUME Typed, UserPipe, [Next]_vars
    PROVE  Simulates
<1>1. UNCHANGED WorksFor
  BY SameWork, UserPipeEffect DEF UserPipe
<1>2. CASE CreatePipeline
  <2>1. PICK spec \in Specs :
          pipe' = [uid |-> uids', generation |-> 1, spec |-> spec,
                   deleting |-> FALSE, finalizer |-> FALSE, status |-> NoStatus]
    BY <1>2 DEF CreatePipeline
  <2>2. pipe' \in Pipelines
    <3>1. uids' \in Nat
      BY TypedStep DEF Typed, TypeOK, ObjectTypes
    <3> QED
      BY <2>1, <3>1, NoStatusTyped DEF Pipelines
  <2> QED
    BY <1>1, <1>2, <2>1, <2>2, NoneIsNothing
    DEF CreatePipeline, FinalizerObject, Simulates, Protocol!Next, Protocol!Create,
        Protocol!Absent
<1>3. CASE ~ CreatePipeline
  <2>1. UNCHANGED uids
    BY <1>3, UidsCount
  <2>2. CASE TouchPipeline
    BY <1>1, <2>1, <2>2, SameObject DEF TouchPipeline, apiVars, Simulates
  <2>3. ASSUME EditPipeline \/ DeletePipeline PROVE pipe \in Pipelines /\ pipe # None
                                                     /\ ~ pipe.deleting
    BY <2>3 DEF EditPipeline, DeletePipeline, Live, Typed, TypeOK, ObjectTypes
  <2>4. CASE EditPipeline
    <3>1. PICK spec \in Specs :
            pipe' = [pipe EXCEPT !.spec = spec, !.generation = @ + 1]
      BY <2>4 DEF EditPipeline
    <3>2. /\ pipe' # None /\ pipe'.uid = pipe.uid /\ pipe'.deleting = pipe.deleting
          /\ pipe'.finalizer = pipe.finalizer
      BY <2>3, <2>4, <3>1, EditedTyped, NoneIsNothing DEF Pipelines
    <3> QED
      BY <1>1, <2>1, <2>3, <2>4, <3>2, KeptObject DEF Simulates
  <2>5. CASE DeletePipeline /\ pipe.finalizer
    <3>1. pipe' = [pipe EXCEPT !.deleting = TRUE]
      BY <2>5 DEF DeletePipeline
    <3>2. pipe' \in Pipelines /\ pipe' # None /\ pipe'.uid = pipe.uid /\ pipe'.deleting
      BY <2>3, <2>5, <3>1, NoneIsNothing DEF Pipelines
    <3>3. /\ FinalizerObject.state = "guarded"
          /\ FinalizerObject' = [FinalizerObject EXCEPT !.state = "ending"]
      BY <2>3, <2>5, <3>2 DEF FinalizerObject
    <3> QED
      BY <1>1, <2>1, <3>3 DEF Simulates, Protocol!Next, Protocol!MarkDeleted
  <2>6. CASE DeletePipeline /\ ~ pipe.finalizer
    <3>1. pipe' = None
      BY <2>6 DEF DeletePipeline
    <3>2. FinalizerObject.state = "fresh" /\ FinalizerObject' = Protocol!Absent
      BY <2>3, <2>6, <3>1 DEF FinalizerObject, Protocol!Absent
    <3> QED
      BY <1>1, <2>1, <3>2 DEF Simulates, Protocol!Next, Protocol!MarkDeleted
  <2> QED
    BY <1>3, <2>2, <2>4, <2>5, <2>6 DEF UserPipe
<1> QED
  BY <1>2, <1>3

\* The finalizer is added, with the provisioning after it or without.
LEMMA AddSimulates ==
    ASSUME Typed, Numbered, AddFinalizer \/ AddedUnnoticed, UNCHANGED uids
    PROVE  Simulates
<1>1. pipe = loc.pipe /\ pipe # None /\ pipe \in Pipelines /\ pc = "finalize"
  BY DEF AddFinalizer, AddedUnnoticed, HoldsLatest, Typed, TypeOK, HoldsPipeline,
         CachesCurrent, ObjectTypes
<1>2. pipe' = [pipe EXCEPT !.finalizer = TRUE]
  BY DEF AddFinalizer, AddedUnnoticed, StorePipe
<1>3. /\ pipe' # None /\ pipe'.uid = pipe.uid /\ pipe'.deleting = pipe.deleting
      /\ pipe'.finalizer
  BY <1>1, <1>2, NoneIsNothing DEF Pipelines
<1>4. WorksFor = 0 /\ WorksFor' \in {0, pipe.uid}
  <2>1. CASE AddFinalizer
    BY <1>1, <1>3, <2>1
    DEF AddFinalizer, WorksFor, Provisioning, Typed, TypeOK, WorkerTypes, Locals
  <2>2. CASE AddedUnnoticed
    BY <1>1, <2>2 DEF AddedUnnoticed, WorksFor, Provisioning
  <2> QED
    BY <2>1, <2>2
<1>5. CASE ~ pipe.deleting /\ ~ pipe.finalizer
  <2>1. /\ FinalizerObject.state = "fresh" /\ FinalizerObject.uid = pipe.uid
        /\ FinalizerObject' = [FinalizerObject EXCEPT !.state = "guarded"]
    BY <1>1, <1>3, <1>5 DEF FinalizerObject
  <2> QED
    BY <1>4, <2>1 DEF Simulates, Protocol!Next, Protocol!Guard
<1>6. CASE pipe.deleting \/ pipe.finalizer
  <2>1. /\ UNCHANGED FinalizerObject /\ FinalizerObject.uid = pipe.uid
        /\ FinalizerObject.state \in {"guarded", "ending"}
    BY <1>1, <1>3, <1>6 DEF FinalizerObject
  <2> QED
    BY <1>4, <2>1 DEF Simulates, Protocol!Next, Protocol!Start
<1> QED
  BY <1>5, <1>6
-----------------------------------------------------------------------------
\* Each kind of move of the controller is a step of the protocol.
LEMMA StepSimulates ==
    ASSUME Typed, Numbered, FinalizerHolds, [Next]_vars
    PROVE  Simulates
<1>1. CASE UserPipe
  BY <1>1, UserSimulates
<1>2. CASE ~ UserPipe
  <2>1. UNCHANGED uids
    BY <1>2, UidsCount DEF UserPipe
  <2>2. CASE Onwards
    <3>1. UNCHANGED FinalizerObject
      BY <2>2, SameObject DEF Onwards
    <3>2. CASE pc' = "idle"
      BY <2>1, <3>1, <3>2, Ends
    <3>3. CASE pc' # "idle"
      <4>1. UNCHANGED WorksFor
        BY <2>2, <3>3 DEF Onwards, Past, WorksFor, Provisioning
      <4> QED
        BY <2>1, <3>1, <4>1 DEF Simulates
    <3> QED
      BY <3>2, <3>3
  <2>3. CASE Aside \/ DeliverPipe
    <3>1. UNCHANGED <<pipe, pc, loc>>
      BY <2>3 DEF Aside, DeliverPipe, apiVars, workVars
    <3> QED
      BY <2>1, <3>1, SameObject, SameWork DEF Simulates
  <2>4. CASE Begin
    <3>1. UNCHANGED pipe /\ WorksFor = 0
      BY <2>4, BeginEffect DEF apiVars, Begin, WorksFor, Provisioning
    <3>2. CASE pc' = "merge"
      <4>1. /\ pipe # None /\ pipe.uid = cpipe.uid /\ pipe.finalizer
            /\ loc'.pipe = cpipe
        BY <2>4, <3>2, BeginEffect DEF FinalizerHolds
      <4>2. /\ WorksFor' = FinalizerObject.uid
            /\ FinalizerObject.state \in {"guarded", "ending"}
        BY <3>2, <4>1 DEF WorksFor, Provisioning, FinalizerObject
      <4> QED
        BY <2>1, <3>1, <4>2, SameObject DEF Simulates, Protocol!Next, Protocol!Start
    <3>3. CASE pc' # "merge"
      <4>1. WorksFor' = 0
        BY <2>4, <3>3, BeginEffect DEF WorksFor, Provisioning
      <4> QED
        BY <2>1, <3>1, <4>1, SameObject DEF Simulates
    <3> QED
      BY <3>2, <3>3
  <2>5. CASE Removed
    <3>1. pipe = loc.pipe /\ pipe # None /\ pipe.deleting
      BY <2>5 DEF Removed, HoldsLatest, Typed, HoldsPipeline, CachesCurrent, FinalizerHolds
    <3>2. FinalizerObject.state = "ending" /\ FinalizerObject' = Protocol!Absent
      BY <2>5, <3>1 DEF Removed, FinalizerObject, Protocol!Absent
    <3>3. WorksFor = 0 /\ WorksFor' = 0
      BY <2>5 DEF Removed, WorksFor, Provisioning
    <3> QED
      BY <2>1, <3>2, <3>3 DEF Simulates, Protocol!Next, Protocol!Release
  <2>6. CASE AddFinalizer \/ AddedUnnoticed
    BY <2>1, <2>6, AddSimulates
  <2>7. CASE Persisted
    <3>1. pipe \in Pipelines /\ pipe # None /\ loc.status \in Statuses
      BY <2>7, NoneIsNothing DEF Persisted, SeesLatest, Typed, TypeOK, CachesCurrent,
         ObjectTypes, WorkerTypes, Locals
    <3>2. /\ pipe' # None /\ pipe'.uid = pipe.uid /\ pipe'.deleting = pipe.deleting
          /\ pipe'.finalizer = pipe.finalizer
      BY <2>7, <3>1, NoneIsNothing DEF Persisted, Pipelines
    <3> QED
      BY <2>1, <2>7, <3>1, <3>2, KeptObject, Ends DEF Persisted
  <2>8. CASE GivesUp \/ Restart
    <3>1. UNCHANGED pipe /\ pc' = "idle"
      BY <2>8 DEF GivesUp, Restart, apiVars
    <3> QED
      BY <2>1, <3>1, SameObject, Ends
  <2> QED
    BY <1>2, <2>2, <2>3, <2>4, <2>5, <2>6, <2>7, <2>8, Moves
<1> QED
  BY <1>1, <1>2

LEMMA NumberedStep ==
    ASSUME Typed, Numbered, Simulates
    PROVE  Numbered'
<1> DEFINE Counted(o) == o.state = "absent" \/ o.uid # 0
<1>1. Numbered <=> Counted(FinalizerObject)
  BY DEF Numbered, FinalizerObject
<1>2. Numbered' <=> Counted(FinalizerObject')
  BY DEF Numbered, FinalizerObject
<1>3. uids \in Nat
  BY DEF Typed, TypeOK, ObjectTypes
<1>4. FinalizerObject \in [uid : {FinalizerObject.uid},
                           state : {"absent", "fresh", "guarded", "ending"}]
  BY DEF FinalizerObject
<1> HIDE DEF Counted
<1>5. CASE Protocol!Create
  BY <1>2, <1>3, <1>5 DEF Protocol!Create, Counted
<1>6. CASE Protocol!Guard \/ Protocol!MarkDeleted \/ Protocol!Release
  BY <1>1, <1>2, <1>4, <1>6
  DEF Protocol!Guard, Protocol!MarkDeleted, Protocol!Release, Protocol!Absent, Counted
<1>7. CASE UNCHANGED FinalizerObject
  BY <1>1, <1>2, <1>7 DEF Counted
<1>8. CASE Protocol!Start \/ Protocol!Stop
  BY <1>7, <1>8 DEF Protocol!Start, Protocol!Stop
<1> QED
  BY <1>5, <1>6, <1>7, <1>8 DEF Simulates, Protocol!Next

(***************************************************************************)
(* The pipeline controller implements the finalizer protocol: Reconcile    *)
(* writes children and status only for a pipeline that exists and was      *)
(* guarded, and a guarded pipeline goes only when Reconcile, at rest       *)
(* otherwise, removes the finalizer of the deleted object.  Edits, stale   *)
(* copies, lost answers and restarts are steps or stutters of the protocol.*)
(***************************************************************************)
THEOREM ImplementsFinalizerProtocol == Spec => FinalizerHonoured
<1>1. Init => FinalizerHolds /\ Numbered
  BY DEF Init, FinalizerHolds, WorksForExistingPipeline, Numbered
<1>2. Typed /\ FinalizerHolds /\ Numbered /\ [Next]_vars =>
        FinalizerHolds' /\ Numbered' /\ Simulates
  BY FinalizerStep, StepSimulates, NumberedStep
<1>3. Init => Protocol!Init
  BY DEF Init, Protocol!Init, Protocol!Absent, FinalizerObject, WorksFor, Provisioning
<1>4. Simulates => [Protocol!Next]_<<FinalizerObject, uids, WorksFor>>
  BY DEF Simulates
<1> QED
  BY <1>1, <1>2, <1>3, <1>4, TypedInvariant, PTL DEF Spec, FinalizerHonoured, Protocol!Spec

-----------------------------------------------------------------------------
(***************************************************************************)
(* The status and the generations of the pipeline.                         *)
(***************************************************************************)

\* Object p becomes p2: the same version but for its finalizer or deletion
\* mark, a new generation, or another object.
SameVersion(p, p2) ==
    /\ p2.uid = p.uid /\ p2.generation = p.generation /\ p2.spec = p.spec
    /\ p2.status = p.status

NextVersion(p, p2) ==
    p2.uid = p.uid /\ p2.generation = p.generation + 1 /\ p2.status = p.status

LEMMA EarlierKept ==
    ASSUME NEW p \in Pipelines, NEW p2 \in Pipelines, NEW q \in Pipelines,
           Earlier(q, p), SameVersion(p, p2) \/ NextVersion(p, p2)
    PROVE  Earlier(q, p2)
  BY DEF Earlier, SameVersion, NextVersion, Pipelines

LEMMA EarlierItself ==
    ASSUME NEW p \in Pipelines, NEW p2 \in Pipelines, Earlier(p, p),
           SameVersion(p, p2) \/ NextVersion(p, p2)
    PROVE  Earlier(p2, p2)
<1>1. p.generation \in Nat /\ p2.generation \in Nat /\ p.status.observed \in Nat
  BY DEF Pipelines, Statuses
<1>2. p2.status.observed = p.status.observed /\ p2.generation >= p.generation
  BY <1>1 DEF SameVersion, NextVersion
<1> QED
  BY <1>1, <1>2 DEF Earlier

LEMMA ErrorExactly ==
    ASSUME NEW failed \in BOOLEAN, NEW count
    PROVE  (PhaseOf(failed, count) = "Error") = failed
<1>1. CASE failed
  BY <1>1, Zenon DEF PhaseOf
<1>2. CASE ~ failed
  <2>1. CASE count.replicas = 0 \/ count.ready = 0
    <3>1. PhaseOf(failed, count) = "Pending"
      BY <1>2, <2>1, Zenon DEF PhaseOf
    <3> QED
      BY <1>2, <3>1
  <2>2. CASE count.replicas # 0 /\ count.ready # 0
    <3>1. PhaseOf(failed, count) =
            IF count.ready < count.replicas THEN "Degraded" ELSE "Running"
      BY <1>2, <2>2, Zenon DEF PhaseOf
    <3> QED
      BY <1>2, <3>1
  <2> QED
    BY <2>1, <2>2
<1> QED
  BY <1>1, <1>2

\* A pipeline object in hand, in the cache or on the server is a version of
\* the stored one after any step that leaves the stored one's generations alone.
LEMMA VersionsMove ==
    ASSUME Typed, Typed', VersionOf(pipe), UNCHANGED uids,
           pipe # None, pipe' # None, SameVersion(pipe, pipe') \/ NextVersion(pipe, pipe')
    PROVE  /\ VersionOf(pipe)'
           /\ \A q \in Pipelines : VersionOf(q) => q.uid <= uids' /\ Earlier(q, pipe')
<1>1. pipe \in Pipelines /\ pipe' \in Pipelines
  BY DEF Typed, TypeOK, ObjectTypes
<1>2. Earlier(pipe, pipe) /\ pipe.uid <= uids
  BY DEF VersionOf
<1>3. Earlier(pipe', pipe')
  BY <1>1, <1>2, EarlierItself
<1>4. pipe'.uid <= uids'
  BY <1>2 DEF SameVersion, NextVersion
<1>5. ASSUME NEW q \in Pipelines, VersionOf(q)
      PROVE  q.uid <= uids' /\ Earlier(q, pipe')
  <2>1. q # None
    BY NoneIsNothing
  <2>2. q.uid <= uids /\ Earlier(q, pipe)
    BY <1>5, <2>1 DEF VersionOf
  <2> QED
    BY <1>1, <2>2, EarlierKept
<1> QED
  BY <1>3, <1>4, <1>5 DEF VersionOf

\* What users do to a pipeline object, as far as its versions go.
LEMMA UserVersions ==
    ASSUME Typed, UserPipe, [Next]_vars
    PROVE  \/ pipe' = None /\ UNCHANGED uids
           \/ pipe' = pipe /\ UNCHANGED uids
           \/ /\ pipe = None /\ pipe' # None /\ pipe'.uid = uids + 1 /\ uids' = uids + 1
              /\ pipe'.generation = 1 /\ pipe'.status.observed = 0
           \/ /\ pipe # None /\ pipe' # None /\ UNCHANGED uids
              /\ \/ SameVersion(pipe, pipe')
                 \/ NextVersion(pipe, pipe')
<1>1. pipe' \in Pipelines \cup {None}
  BY TypedStep DEF Typed, TypeOK, ObjectTypes
<1>2. CASE CreatePipeline
  <2>1. PICK spec \in Specs :
          pipe' = [uid |-> uids', generation |-> 1, spec |-> spec,
                   deleting |-> FALSE, finalizer |-> FALSE, status |-> NoStatus]
    BY <1>2 DEF CreatePipeline
  <2>2. uids' \in Nat
    BY TypedStep DEF Typed, TypeOK, ObjectTypes
  <2>3. pipe' \in Pipelines
    BY <2>1, <2>2, NoStatusTyped DEF Pipelines
  <2>4. pipe' # None
    BY <2>3, NoneIsNothing
  <2>5. pipe'.uid = uids' /\ pipe'.generation = 1 /\ pipe'.status.observed = 0
    BY <2>1 DEF NoStatus
  <2> QED
    BY <1>2, <2>4, <2>5 DEF CreatePipeline
<1>3. CASE ~ CreatePipeline
  <2>1. UNCHANGED uids
    BY <1>3, UidsCount
  <2>2. CASE TouchPipeline
    BY <2>1, <2>2 DEF TouchPipeline, apiVars
  <2>3. CASE EditPipeline
    <3>1. pipe \in Pipelines /\ pipe # None
      BY <2>3 DEF EditPipeline, Live, Typed, TypeOK, ObjectTypes
    <3>2. PICK spec \in Specs :
            pipe' = [pipe EXCEPT !.spec = spec, !.generation = @ + 1]
      BY <2>3 DEF EditPipeline
    <3>3. pipe' \in Pipelines
      BY <3>1, <3>2, EditedTyped
    <3>4. NextVersion(pipe, pipe') /\ pipe' # None
      BY <3>1, <3>2, <3>3, NoneIsNothing DEF Pipelines, NextVersion
    <3> QED
      BY <2>1, <3>1, <3>4
  <2>4. CASE DeletePipeline
    <3>1. pipe \in Pipelines /\ pipe # None
      BY <2>4 DEF DeletePipeline, Live, Typed, TypeOK, ObjectTypes
    <3>2. CASE pipe' # None
      <4>1. pipe' = [pipe EXCEPT !.deleting = TRUE]
        BY <2>4, <3>2 DEF DeletePipeline
      <4>2. SameVersion(pipe, pipe')
        BY <3>1, <4>1 DEF Pipelines, SameVersion
      <4> QED
        BY <2>1, <3>1, <3>2, <4>2
    <3> QED
      BY <2>1, <3>2
  <2> QED
    BY <1>3, <2>2, <2>3, <2>4 DEF UserPipe
<1> QED
  BY <1>2, <1>3

\* The versions in the cache and in Reconcile's hands.
Versions == VersionOf(pipe) /\ VersionOf(cpipe) /\ (pc # "idle" => VersionOf(loc.pipe))

\* Status writes: a generation is reported when its spec was worked on.
LEMMA PersistedVersion ==
    ASSUME Typed, Typed', FinalizerHolds, StatusHistory, Persisted, UNCHANGED uids
    PROVE  Versions' /\ VerdictMatchesGeneration' /\ pipe # None
           /\ pipe'.status.observed >= pipe.status.observed
<1>1. /\ pipe \in Pipelines /\ pipe # None /\ cpipe = pipe /\ loc.status \in Statuses
      /\ loc.pipe \in Pipelines /\ loc.pipe # None
  BY HeldSpec, NoneIsNothing
  DEF Persisted, SeesLatest, Typed, TypeOK, CachesCurrent, ObjectTypes, WorkerTypes,
      HoldsPipeline
<1>2. /\ pipe' \in Pipelines /\ pipe' # None /\ pipe'.uid = pipe.uid /\ cpipe' = pipe
      /\ pipe'.generation = pipe.generation /\ pipe'.spec = pipe.spec
      /\ pipe'.status = loc.status
  BY <1>1, NoneIsNothing DEF Persisted, Pipelines
<1>3. loc.pipe.uid = pipe.uid
  BY DEF Persisted, FinalizerHolds, WorksForExistingPipeline
<1>4. /\ loc.pipe.generation <= pipe.generation
      /\ loc.pipe.generation = pipe.generation => loc.pipe.spec = pipe.spec
      /\ pipe.status.observed <= loc.pipe.generation
      /\ pipe.uid <= uids
  BY <1>1, <1>3 DEF StatusHistory, VersionOf, Earlier, Persisted
<1>5. /\ loc.status.observed = loc.pipe.generation
      /\ GraphVerdict(loc.pipe.spec, loc.status.configValid)
      /\ ErrorVerdict(loc.pipe.spec, loc.status.phase)
  BY DEF StatusHistory, Persisted
<1>6. /\ pipe.generation \in Nat /\ loc.pipe.generation \in Nat
      /\ pipe.status.observed \in Nat
  BY <1>1 DEF Pipelines, Statuses
<1>7. Versions'
  BY <1>2, <1>4, <1>5, <1>6 DEF Versions, VersionOf, Earlier, Persisted
<1>8. VerdictMatchesGeneration'
  BY <1>2, <1>4, <1>5
  DEF VerdictMatchesGeneration, GraphVerdict, ErrorVerdict
<1> QED
  BY <1>1, <1>2, <1>4, <1>5, <1>6, <1>7, <1>8

\* An object's versions stay in order whatever happens to it.
LEMMA VersionsStep ==
    ASSUME Typed, FinalizerHolds, StatusHistory, [Next]_vars
    PROVE  Versions' /\ VerdictMatchesGeneration'
<1>0. Typed'
  BY TypedStep
<1>1. /\ pipe \in Pipelines \cup {None} /\ cpipe \in Pipelines \cup {None}
      /\ pc # "idle" => loc.pipe \in Pipelines /\ loc.pipe # None
      /\ uids \in Nat
  BY HeldSpec DEF Typed, TypeOK, ObjectTypes, WorkerTypes, HoldsPipeline
<1> USE DEF StatusHistory, Versions
<1>2. ASSUME UNCHANGED <<pipe, uids>>,
             \/ UNCHANGED cpipe
             \/ cpipe' = pipe,
             \/ pc' = "idle"
             \/ pc # "idle" /\ loc'.pipe = loc.pipe
             \/ loc'.pipe = cpipe
      PROVE  Versions' /\ VerdictMatchesGeneration'
  BY <1>2 DEF VersionOf, VerdictMatchesGeneration
<1>3. ASSUME UNCHANGED <<cpipe, uids>>, pipe # None, pipe' # None,
             SameVersion(pipe, pipe') \/ NextVersion(pipe, pipe'),
             pc' = "idle" \/ (pc # "idle" /\ loc'.pipe = loc.pipe) \/ loc'.pipe = pipe'
      PROVE  Versions' /\ VerdictMatchesGeneration'
  <2>1. /\ VersionOf(pipe)'
        /\ \A q \in Pipelines : VersionOf(q) => q.uid <= uids' /\ Earlier(q, pipe')
    BY <1>0, <1>3, VersionsMove
  <2>2. Versions'
    BY <1>1, <1>3, <2>1 DEF VersionOf
  <2>3. VerdictMatchesGeneration'
    <3>1. /\ pipe.generation \in Nat /\ pipe.status.observed \in Nat
          /\ pipe.status.observed <= pipe.generation
      BY <1>1, <1>3 DEF VersionOf, Earlier, Pipelines, Statuses
    <3> QED
      BY <1>3, <3>1, SMTT(30) DEF VerdictMatchesGeneration, SameVersion, NextVersion
  <2> QED
    BY <2>2, <2>3
<1>4. ASSUME pipe' = None, UNCHANGED <<cpipe, uids>>,
             pc' = "idle" \/ (pc # "idle" /\ loc'.pipe = loc.pipe)
      PROVE  Versions' /\ VerdictMatchesGeneration'
  BY <1>4 DEF VersionOf, VerdictMatchesGeneration
<1>5. CASE UserPipe
  <2>1. UNCHANGED <<cpipe, pc, loc>>
    BY <1>5, UserPipeEffect DEF UserPipe
  <2>2. CASE /\ pipe = None /\ pipe' # None /\ pipe'.uid = uids + 1 /\ uids' = uids + 1
             /\ pipe'.generation = 1 /\ pipe'.status.observed = 0
    <3>1. ASSUME NEW q \in Pipelines, VersionOf(q)
          PROVE  q.uid <= uids' /\ Earlier(q, pipe')
      <4>1. q.uid \in Nat /\ q.uid <= uids
        BY <3>1, NoneIsNothing DEF VersionOf, Pipelines
      <4> QED
        BY <1>1, <2>2, <4>1, SMTT(30) DEF Earlier
    <3>2. VersionOf(pipe)'
      BY <1>1, <2>2 DEF VersionOf, Earlier
    <3> QED
      BY <1>1, <2>1, <2>2, <3>1, <3>2, SMTT(30) DEF VersionOf, VerdictMatchesGeneration
  <2>3. CASE pipe' = None /\ UNCHANGED uids
    BY <1>4, <2>1, <2>3
  <2>4. CASE pipe' = pipe /\ UNCHANGED uids
    BY <1>2, <2>1, <2>4
  <2>5. CASE /\ pipe # None /\ pipe' # None /\ UNCHANGED uids
             /\ SameVersion(pipe, pipe') \/ NextVersion(pipe, pipe')
    BY <1>3, <2>1, <2>5
  <2> QED
    BY <1>5, <2>2, <2>3, <2>4, <2>5, UserVersions
<1>6. CASE ~ UserPipe
  <2>1. UNCHANGED uids
    BY <1>6, UidsCount DEF UserPipe
  <2>2. CASE Onwards
    BY <1>2, <2>1, <2>2 DEF Onwards, Past
  <2>3. CASE Aside
    BY <1>2, <2>1, <2>3 DEF Aside
  <2>4. CASE Begin
    BY <1>2, <2>1, <2>4, BeginEffect DEF apiVars, cacheVars
  <2>5. CASE Removed
    BY <1>4, <2>1, <2>5 DEF Removed
  <2>6. CASE AddFinalizer \/ AddedUnnoticed
    <3>1. /\ pipe # None /\ pipe \in Pipelines
          /\ pipe' = [pipe EXCEPT !.finalizer = TRUE] /\ cpipe' = cpipe
      BY <2>6 DEF AddFinalizer, AddedUnnoticed, HoldsLatest, Typed, TypeOK, HoldsPipeline,
                  CachesCurrent, ObjectTypes, StorePipe, cacheVars
    <3>2. pipe' # None /\ SameVersion(pipe, pipe')
      BY <3>1, NoneIsNothing DEF Pipelines, SameVersion
    <3>3. pc' = "idle" \/ loc'.pipe = pipe'
      BY <2>6 DEF AddFinalizer, AddedUnnoticed, Typed, TypeOK, WorkerTypes, Locals
    <3> QED
      BY <1>3, <2>1, <3>1, <3>2, <3>3
  <2>7. CASE Persisted
    BY <1>0, <2>1, <2>7, PersistedVersion
  <2>8. CASE GivesUp \/ Restart
    BY <1>2, <2>1, <2>8 DEF GivesUp, Restart, apiVars
  <2>9. CASE DeliverPipe
    BY <1>2, <2>1, <2>9 DEF DeliverPipe, apiVars, workVars
  <2> QED
    BY <1>6, <2>2, <2>3, <2>4, <2>5, <2>6, <2>7, <2>8, <2>9, Moves
<1> QED
  BY <1>5, <1>6

\* The verdict Reconcile carries from the validation to the status.
Verdict ==
    /\ pc \in {"scale", "generate", "apply", "status", "persist"} =>
          GraphVerdict(loc.pipe.spec, loc.status.configValid)
    /\ pc = "persist" =>
          /\ loc.status.observed = loc.pipe.generation
          /\ ErrorVerdict(loc.pipe.spec, loc.status.phase)

LEMMA VerdictStep ==
    ASSUME Typed, ControlState, Verdict, [Next]_vars
    PROVE  Verdict'
<1> USE DEF Verdict
<1>1. CASE Onwards
  <2>1. CASE pc' = "idle"
    BY <2>1
  <2>2. CASE pc' # "idle"
    <3>1. loc'.pipe = loc.pipe /\ pc \in Past /\ pc' \in Past /\ Passes
      BY <1>1, <2>2 DEF Onwards
    <3>2. CASE pc = "status"
      <4>1. loc.failed = ~ loc.pipe.spec.graphOK /\ loc.failed \in BOOLEAN
        BY <3>2 DEF ControlState, Typed, TypeOK, WorkerTypes, Locals
      <4>2. /\ pc' = "persist" /\ loc'.status.observed = loc.pipe.generation
            /\ loc'.status.phase = PhaseOf(loc.failed, SeenPods)
            /\ loc'.status.configValid = loc.status.configValid
        BY <3>1, <3>2 DEF Passes
      <4>3. (loc'.status.phase = "Error") = loc.failed
        BY <4>1, <4>2, ErrorExactly
      <4>4. ErrorVerdict(loc'.pipe.spec, loc'.status.phase)
        BY <3>1, <4>1, <4>3, Zenon DEF ErrorVerdict
      <4> QED
        BY <3>1, <3>2, <4>2, <4>4
    <3>3. CASE pc # "status"
      BY <3>1, <3>3 DEF Passes, Past
    <3> QED
      BY <3>2, <3>3
  <2> QED
    BY <2>1, <2>2
<1>2. CASE Aside
  BY <1>2 DEF Aside
<1>3. CASE UserPipe
  BY <1>3, UserPipeEffect DEF UserPipe
<1>4. CASE Begin
  BY <1>4, BeginEffect
<1>5. CASE Removed \/ AddFinalizer \/ AddedUnnoticed \/ Persisted \/ GivesUp \/ Restart
  BY <1>5 DEF Removed, AddFinalizer, AddedUnnoticed, Persisted, GivesUp, Restart
<1>6. CASE DeliverPipe
  BY <1>6 DEF DeliverPipe, workVars
<1> QED
  BY <1>1, <1>2, <1>3, <1>4, <1>5, <1>6, Moves

\* StatusHistory is inductive with the invariants it needs.
LEMMA HistoryInvariant ==
    Spec => [](Typed /\ FinalizerHolds /\ StatusHistory)
<1> DEFINE Inv == FinalizerHolds /\ WorksOnCachedRevision /\ ControlState /\ StatusHistory
<1>1. Init => Inv
  BY DEF Init, FinalizerHolds, WorksForExistingPipeline, WorksOnCachedRevision,
         ControlState, StatusHistory, VersionOf, VerdictMatchesGeneration
<1>2. Typed /\ Inv /\ [Next]_vars => Inv'
  <2> SUFFICES ASSUME Typed, Inv, [Next]_vars PROVE Inv'
    OBVIOUS
  <2>1. FinalizerHolds' /\ WorksOnCachedRevision' /\ ControlState'
    BY FinalizerStep, RevisionStep
  <2>2. Versions' /\ VerdictMatchesGeneration'
    BY VersionsStep
  <2>3. Verdict'
    BY VerdictStep DEF StatusHistory, Verdict
  <2> QED
    BY <2>1, <2>2, <2>3 DEF StatusHistory, Versions, Verdict
<1> QED
  BY <1>1, <1>2, TypedInvariant, PTL DEF Spec

(***************************************************************************)
(* A status that names the current generation carries the verdict on the   *)
(* current spec: although updateStatus writes a status computed from one   *)
(* cached copy of the pipeline into another, later one, ConfigValid and    *)
(* the phase are those ValidateGraph gives the spec of that generation.    *)
(***************************************************************************)
THEOREM VerdictOfGeneration == Spec => []VerdictMatchesGeneration
<1>1. StatusHistory => VerdictMatchesGeneration
  BY DEF StatusHistory
<1> QED
  BY <1>1, HistoryInvariant, PTL

(***************************************************************************)
(* observedGeneration never moves back while the pipeline object lives:    *)
(* what updateStatus writes is the generation of a copy at least as new as *)
(* the one the last status was computed from, after restarts and lost      *)
(* answers too.                                                            *)
(***************************************************************************)
THEOREM ObservedMonotone == Spec => ObservedNeverRegresses
<1> DEFINE Kept == pipe # None /\ pipe' # None /\ pipe'.uid = pipe.uid =>
                     pipe'.status.observed >= pipe.status.observed
<1>1. Typed /\ FinalizerHolds /\ StatusHistory /\ [Next]_vars => [Kept]_vars
  <2> SUFFICES ASSUME Typed, FinalizerHolds, StatusHistory, [Next]_vars,
                      pipe # None, pipe' # None, pipe'.uid = pipe.uid
               PROVE  pipe'.status.observed >= pipe.status.observed
    OBVIOUS
  <2>1. pipe \in Pipelines /\ pipe.status.observed \in Nat
    BY DEF Typed, TypeOK, ObjectTypes, Pipelines, Statuses
  <2>2. CASE UNCHANGED pipe
    BY <2>1, <2>2
  <2>3. CASE UserPipe
    BY <2>1, <2>3, UserVersions DEF SameVersion, NextVersion
  <2>4. CASE ~ UserPipe /\ Persisted
    BY <2>4, UidsCount, TypedStep, PersistedVersion DEF UserPipe
  <2>5. CASE AddFinalizer \/ AddedUnnoticed
    <3>1. pipe' = [pipe EXCEPT !.finalizer = TRUE]
      BY <2>5 DEF AddFinalizer, AddedUnnoticed, StorePipe
    <3> QED
      BY <2>1, <3>1 DEF Pipelines
  <2> QED
    BY <2>2, <2>3, <2>4, <2>5, Moves, BeginEffect
    DEF Onwards, Aside, Removed, GivesUp, DeliverPipe, Restart, apiVars
<1> QED
  BY <1>1, HistoryInvariant, PTL DEF Spec, ObservedNeverRegresses

-----------------------------------------------------------------------------
(***************************************************************************)
(* No wake-up is lost.                                                     *)
(***************************************************************************)

\* The watch on Secrets indexes the references of the pipeline's own spec; so
\* this is about installations whose DataPrepperDefaults add no references.
NoDefaultCredentials ==
    \A d \in DefaultsSpecs : d.kafkaRef = None /\ d.sinkRef = None

LEMMA OwnReferences ==
    ASSUME NoDefaultCredentials, NEW d \in DefaultsSpecs \cup {None}, NEW spec \in Specs
    PROVE  referencedSecrets(MergeSpec(d, spec)) = referencedSecrets(spec)
<1>1. CASE d = None
  BY <1>1 DEF MergeSpec
<1>2. CASE d # None
  <2>1. d.kafkaRef = None /\ d.sinkRef = None
    BY <1>2 DEF NoDefaultCredentials
  <2>2. /\ MergeSpec(d, spec).kafkaRef = spec.kafkaRef
        /\ MergeSpec(d, spec).sinkRef = spec.sinkRef
    BY <1>2, <2>1, SpecsTyped DEF MergeSpec, OrDefault
  <2> QED
    BY <2>2, MergeKeeps DEF referencedSecrets
<1> QED
  BY <1>1, <1>2

\* A pipeline always calls for a Deployment.
LEMMA DeploymentWanted ==
    ASSUME NEW in \in AllInputs, NEW u \in Nat
    PROVE  Object(u, Desired("deployment", in)) # None
<1>1. Desired("deployment", in) = GenerateDeployment(in)
  BY Zenon DEF Desired
<1>2. GenerateDeployment(in) \in DeploymentContents
  BY DEF DeploymentContents
<1>3. GenerateDeployment(in) # None
  BY <1>2, NoneIsNothing
<1>4. [owner |-> u, data |-> GenerateDeployment(in)] \in
          [owner : Nat, data : DeploymentContents]
  BY <1>2
<1> QED
  BY <1>1, <1>3, <1>4, NoneIsNothing DEF Object

-----------------------------------------------------------------------------
(***************************************************************************)
(* What has been achieved stays achieved, or an event is on its way.       *)
(***************************************************************************)
ChildrenKept ==
    \A k \in RetriedKinds : k \in stale' \/ (k \notin stale /\ kids'[k] = kids[k])

PodsKept ==
    "deployment" \in stale' \/ ("deployment" \notin stale /\ pods' = pods)

LEMMA RetriedKindAt ==
    ASSUME NEW i \in Steps, KindAt[i] # "monitor"
    PROVE  KindAt[i] \in RetriedKinds
  BY KindNames DEF RetriedKinds

LEMMA WrittenKept ==
    ASSUME NEW n \in 1 .. 9, NEW p, Written(n, p), read' = read, ChildrenKept
    PROVE  Written(n, p)'
<1> SUFFICES ASSUME NEW i \in 1 .. n - 1, KindAt[i] # "monitor"
             PROVE  \/ KindAt[i] \in stale'
                    \/ kids'[KindAt[i]] =
                         Object(p.uid, Desired(KindAt[i], Inputs(p.spec)'))
  BY DEF Written
<1>1. i \in Steps
  BY DEF Steps
<1>2. KindAt[i] \in RetriedKinds
  BY <1>1, RetriedKindAt
<1>3. Inputs(p.spec)' = Inputs(p.spec)
  BY DEF Inputs
<1> QED
  BY <1>2, <1>3 DEF Written, ChildrenKept

LEMMA AppliedKept ==
    ASSUME NEW n \in 1 .. 9, NEW p, Applied(n, p), read' = read, ChildrenKept,
           \A s \in referencedSecrets(p.spec) : csecrets'[s] = csecrets[s]
    PROVE  Applied(n, p)'
<1>1. read'.secrets = Referenced(referencedSecrets(p.spec), csecrets')
  BY DEF Applied, Referenced
<1>2. Written(n, p)'
  BY WrittenKept DEF Applied
<1> QED
  BY <1>1, <1>2 DEF Applied

LEMMA ReportedKept ==
    ASSUME NEW p, NEW st, Reported(p, st), PodsKept
    PROVE  Reported(p, st)'
  BY DEF Reported, ReportsPods, PodsKept

\* Steps of others.
LEMMA ProgressKept ==
    ASSUME Typed, WorksOnCachedRevision, Progress,
           UNCHANGED <<cpipe, pc, step, loc, read>>, dirty => dirty',
           "pipe" \in stale => "pipe" \in stale', ChildrenKept, PodsKept,
           \/ dirty' \/ cpipe = None
           \/ \A s \in referencedSecrets(cpipe.spec) : csecrets'[s] = csecrets[s]
    PROVE  Progress'
<1> SUFFICES ASSUME ~ dirty' PROVE Progress'
  BY DEF Progress
<1>1. ~ dirty
  OBVIOUS
<1>2. step \in 1 .. 9
  BY DEF Typed, TypeOK, WorkerTypes
<1>3. pc # "idle" => loc.pipe.spec = cpipe.spec /\ cpipe # None
  BY <1>1 DEF WorksOnCachedRevision, SameRevision
<1>4. cpipe # None => \A s \in referencedSecrets(cpipe.spec) : csecrets'[s] = csecrets[s]
  OBVIOUS
<1>5. pc' = "apply" => Applied(step, loc.pipe)'
  <2> SUFFICES ASSUME pc = "apply" PROVE Applied(step, loc.pipe)'
    OBVIOUS
  <2>1. Applied(step, loc.pipe)
    BY <1>1 DEF Progress
  <2> QED
    BY <1>2, <1>3, <1>4, <2>1, AppliedKept
<1>6. pc' \in {"status", "persist"} /\ loc'.pipe.spec.graphOK => Applied(9, loc.pipe)'
  <2> SUFFICES ASSUME pc \in {"status", "persist"}, loc.pipe.spec.graphOK
               PROVE  Applied(9, loc.pipe)'
    OBVIOUS
  <2>1. Applied(9, loc.pipe)
    BY <1>1 DEF Progress
  <2> QED
    BY <1>3, <1>4, <2>1, AppliedKept
<1>7. pc' = "persist" => Reported(loc.pipe, loc.status)'
  BY <1>1, ReportedKept DEF Progress
<1>8. ASSUME pc' = "idle", Live(cpipe'), "pipe" \notin stale'
      PROVE  /\ cpipe'.finalizer /\ Reported(cpipe, cpipe.status)'
             /\ cpipe'.spec.graphOK => Applied(9, cpipe)'
  <2>1. cpipe # None /\ Live(cpipe) /\ pc = "idle" /\ "pipe" \notin stale
    BY <1>8 DEF Live
  <2>2. /\ cpipe.finalizer /\ Reported(cpipe, cpipe.status)
        /\ cpipe.spec.graphOK => Applied(9, cpipe)
    BY <1>1, <2>1 DEF Progress
  <2>3. Reported(cpipe, cpipe.status)'
    BY <2>2, ReportedKept
  <2>4. cpipe.spec.graphOK => Applied(9, cpipe)'
    BY <1>4, <2>1, <2>2, AppliedKept
  <2> QED
    BY <2>2, <2>3, <2>4
<1> QED
  BY <1>5, <1>6, <1>7, <1>8 DEF Progress, Live

\* The API server's side of the frame conditions.
LEMMA StoreChildKeeps ==
    ASSUME Typed, NEW k \in Kinds, NEW c, StoreChild(k, c)
    PROVE  /\ ChildrenKept /\ PodsKept /\ kids'[k] = c
           /\ UNCHANGED <<pipe, cpipe, csecrets>>
           /\ "pipe" \in stale => "pipe" \in stale'
<1>1. /\ kids' = [kids EXCEPT ![k] = c] /\ stale \subseteq stale'
      /\ c # kids[k] => k \in stale'
      /\ UNCHANGED <<pipe, pods, cpipe, csecrets>>
  BY DEF StoreChild, cacheVars
<1>2. DOMAIN kids = Kinds
  BY DEF Typed, TypeOK, ObjectTypes, Children
<1> QED
  BY <1>1, <1>2 DEF ChildrenKept, PodsKept, RetriedKinds

LEMMA ReplaceChildKeeps ==
    ASSUME Typed, NEW k \in Kinds, NEW c, ReplaceChild(k, c)
    PROVE  ChildrenKept /\ PodsKept
<1>1. /\ kids' = [kids EXCEPT ![k] = c] /\ stale' = stale \cup {k}
      /\ k # "deployment" => pods' = pods
  BY DEF ReplaceChild
<1>2. DOMAIN kids = Kinds
  BY DEF Typed, TypeOK, ObjectTypes, Children
<1> QED
  BY <1>1, <1>2 DEF ChildrenKept, PodsKept, RetriedKinds

LEMMA NothingMoves ==
    ASSUME UNCHANGED <<kids, pods>>, stale \subseteq stale'
    PROVE  ChildrenKept /\ PodsKept
  BY DEF ChildrenKept, PodsKept

\* Users, the garbage collector and the events of others queue the name or
\* leave what was achieved.
Harmless ==
    /\ UNCHANGED cpipe /\ ("pipe" \in stale => "pipe" \in stale')
    /\ ChildrenKept /\ PodsKept
    /\ \/ cpipe = None
       \/ \A s \in referencedSecrets(cpipe.spec) : csecrets'[s] = csecrets[s]

LEMMA OthersHarmless ==
    ASSUME Typed,
           Watch \/ TimerFires \/ Resync \/ Collector \/ Users \/ UNCHANGED vars
    PROVE  /\ UNCHANGED <<pc, step, loc, read>> /\ (dirty => dirty')
           /\ dirty' \/ Harmless
<1> DEFINE Goal == /\ UNCHANGED <<pc, step, loc, read>> /\ (dirty => dirty')
                   /\ dirty' \/ Harmless
<1>1. CASE DeliverPipe \/ TimerFires \/ Resync
  BY <1>1 DEF DeliverPipe, TimerFires, Resync, workVars
<1>2. CASE DeliverDefaults
  <2>1. /\ UNCHANGED <<kids, pods, csecrets>> /\ stale' = stale \ {"defaults"}
    BY <1>2 DEF DeliverDefaults, apiVars
  <2>2. ChildrenKept /\ PodsKept /\ ("pipe" \in stale => "pipe" \in stale')
    BY <2>1, KindNames DEF ChildrenKept, PodsKept, RetriedKinds
  <2>3. Aside
    BY <1>2, StepAside
  <2> QED
    BY <2>1, <2>2, <2>3 DEF Aside, Harmless
<1>3. ASSUME NEW k \in Kinds, DeliverChild(k) PROVE Goal
  <2>1. CASE k \in OwnedKinds
    BY <1>3, <2>1 DEF DeliverChild, workVars
  <2>2. CASE k \notin OwnedKinds
    <3>1. k = "monitor"
      BY <2>2, KindNames DEF OwnedKinds
    <3>2. UNCHANGED <<kids, pods, csecrets>> /\ stale' = stale \ {k}
      BY <1>3 DEF DeliverChild, apiVars
    <3>3. ChildrenKept /\ PodsKept /\ ("pipe" \in stale => "pipe" \in stale')
      BY <3>1, <3>2 DEF ChildrenKept, PodsKept, RetriedKinds
    <3>4. Aside
      BY <1>3, StepAside
    <3> QED
      BY <3>2, <3>3, <3>4 DEF Aside, Harmless
  <2> QED
    BY <2>1, <2>2
<1>4. ASSUME NEW s \in Secrets, DeliverSecret(s) PROVE Goal
  <2>1. /\ csecrets' = [csecrets EXCEPT ![s] = secrets[s]] /\ stale' = stale \ {s}
        /\ UNCHANGED <<kids, pods, cpipe>>
    BY <1>4 DEF DeliverSecret, apiVars
  <2>2. ChildrenKept /\ PodsKept /\ ("pipe" \in stale => "pipe" \in stale')
    BY <2>1, KindNames, ObjectNames DEF ChildrenKept, PodsKept, RetriedKinds
  <2>3. Aside
    BY <1>4, StepAside
  <2>4. \/ dirty' \/ cpipe = None
        \/ \A t \in referencedSecrets(cpipe.spec) : csecrets'[t] = csecrets[t]
    <3>1. CASE findPipelinesForSecret(s)
      BY <1>4, <3>1 DEF DeliverSecret
    <3>2. CASE ~ findPipelinesForSecret(s) /\ cpipe # None
      <4>1. s \notin referencedSecrets(cpipe.spec)
        BY <3>2 DEF findPipelinesForSecret
      <4>2. referencedSecrets(cpipe.spec) \subseteq Secrets
        BY <3>2, SecretRefs DEF Typed, TypeOK, ObjectTypes, Pipelines
      <4>3. DOMAIN csecrets = Secrets
        BY DEF Typed, TypeOK, ObjectTypes
      <4> QED
        BY <2>1, <4>1, <4>2, <4>3
    <3> QED
      BY <3>1, <3>2
  <2> QED
    BY <2>2, <2>3, <2>4 DEF Aside, Harmless
<1>5. ASSUME NEW k \in Kinds, NEW c, ReplaceChild(k, c), Aside PROVE Goal
  <2>1. csecrets' = csecrets /\ ("pipe" \in stale => "pipe" \in stale')
    BY <1>5 DEF ReplaceChild, cacheVars
  <2>2. ChildrenKept /\ PodsKept
    BY <1>5, ReplaceChildKeeps
  <2> QED
    BY <1>5, <2>1, <2>2 DEF Aside, Harmless
<1>6. ASSUME NEW k \in Kinds, Drift(k) \/ Collect(k) PROVE Goal
  <2>1. Aside
    BY <1>6, StepAside
  <2> QED
    BY <1>5, <1>6, <2>1 DEF Drift, Collect
<1>7. CASE AutoscalerActs
  <2>1. Aside
    BY <1>7, StepAside
  <2> QED
    BY <1>5, <1>7, <2>1, KindNames DEF AutoscalerActs
<1>8. CASE DeploymentProgresses
  <2>1. UNCHANGED <<kids, csecrets>> /\ stale' = stale \cup {"deployment"}
    BY <1>8 DEF DeploymentProgresses, cacheVars
  <2>2. ChildrenKept /\ PodsKept
    BY <2>1 DEF ChildrenKept, PodsKept
  <2>3. Aside
    BY <1>8, StepAside
  <2> QED
    BY <2>1, <2>2, <2>3 DEF Aside, Harmless
<1>9. CASE ChangeDefaults \/ ChangeTopic \/ (\E s \in Secrets : ChangeSecret(s))
             \/ UNCHANGED vars
  <2>1. UNCHANGED <<kids, pods, csecrets>> /\ stale \subseteq stale'
    BY <1>9 DEF ChangeDefaults, ChangeTopic, ChangeSecret, vars, cacheVars, apiVars
  <2>2. Aside
    BY <1>9, StepAside
  <2> QED
    BY <2>1, <2>2, NothingMoves DEF Aside, Harmless
<1>10. CASE UserPipe
  <2>1. UNCHANGED <<kids, pods, csecrets>> /\ stale \subseteq stale'
    BY <1>10 DEF UserPipe, CreatePipeline, EditPipeline, TouchPipeline, DeletePipeline,
                 cacheVars, apiVars
  <2>2. UNCHANGED <<cpipe, pc, step, loc, read, dirty>>
    BY <1>10, UserPipeEffect DEF UserPipe
  <2> QED
    BY <2>1, <2>2, NothingMoves DEF Harmless
<1> QED
  BY <1>1, <1>2, <1>3, <1>4, <1>6, <1>7, <1>8, <1>9, <1>10
  DEF Watch, Collector, Users, UserPipe

LEMMA OthersProgress ==
    ASSUME Typed, WorksOnCachedRevision, Progress,
           Watch \/ TimerFires \/ Resync \/ Collector \/ Users \/ UNCHANGED vars
    PROVE  Progress'
<1>1. /\ UNCHANGED <<pc, step, loc, read>> /\ (dirty => dirty')
      /\ dirty' \/ Harmless
  BY OthersHarmless
<1>2. CASE dirty'
  BY <1>2 DEF Progress
<1>3. CASE Harmless
  BY <1>1, <1>3, ProgressKept DEF Harmless
<1> QED
  BY <1>1, <1>2, <1>3

-----------------------------------------------------------------------------
(***************************************************************************)
(* Reconcile's own steps.                                                  *)
(***************************************************************************)

\* A child is as it should be, or an event will tell; on to the next one.
LEMMA AdvanceWritten ==
    ASSUME Typed, pc = "apply", Advance, ChildrenKept, Written(step, loc.pipe),
           Kind = "monitor" \/ Kind \in stale' \/ kids'[Kind] = Want(Kind)
    PROVE  Written(step, loc.pipe)'
<1>1. step \in Steps /\ step' = step + 1 /\ loc' = loc /\ read' = read
  BY DEF Advance, Typed, TypeOK, WorkerTypes
<1>2. ASSUME NEW i \in 1 .. step, KindAt[i] # "monitor"
      PROVE  \/ KindAt[i] \in stale'
             \/ kids'[KindAt[i]] =
                  Object(loc'.pipe.uid, Desired(KindAt[i], Inputs(loc.pipe.spec)'))
  <2>1. Inputs(loc.pipe.spec)' = Inputs(loc.pipe.spec)
    BY <1>1 DEF Inputs
  <2>2. CASE i = step
    BY <1>1, <1>2, <2>1, <2>2 DEF Kind, Want
  <2>3. CASE i # step
    <3>1. i \in 1 .. step - 1 /\ i \in Steps
      BY <1>1, <2>3 DEF Steps
    <3>2. KindAt[i] \in RetriedKinds
      BY <1>2, <3>1, RetriedKindAt
    <3> QED
      BY <1>1, <1>2, <2>1, <3>1, <3>2 DEF Written, ChildrenKept
  <2> QED
    BY <2>2, <2>3
<1>3. step' - 1 = step
  BY <1>1 DEF Steps
<1> QED
  BY <1>2, <1>3 DEF Written

LEMMA AdvanceProgress ==
    ASSUME Typed, Progress, pc = "apply", Advance, ChildrenKept, csecrets' = csecrets,
           Kind = "monitor" \/ Kind \in stale' \/ kids'[Kind] = Want(Kind)
    PROVE  Progress'
<1> SUFFICES ASSUME ~ dirty' PROVE Progress'
  BY DEF Progress
<1>1. /\ step \in Steps /\ step' = step + 1 /\ loc' = loc /\ read' = read /\ ~ dirty
      /\ pc' = IF step = 8 THEN "status" ELSE "apply"
  BY DEF Advance, Typed, TypeOK, WorkerTypes, queueVars
<1>2. Applied(step, loc.pipe)
  BY <1>1 DEF Progress
<1>3. Written(step, loc.pipe)'
  BY <1>2, AdvanceWritten DEF Applied
<1>4. Applied(step, loc.pipe)'
  BY <1>1, <1>2, <1>3 DEF Applied
<1>5. CASE step = 8
  <2>1. step' = 9
    BY <1>1, <1>5
  <2>2. Applied(9, loc.pipe)'
    BY <1>4, <2>1
  <2> QED
    BY <1>1, <1>5, <2>2 DEF Progress
<1>6. CASE step # 8
  BY <1>1, <1>4, <1>6 DEF Progress
<1> QED
  BY <1>5, <1>6

LEMMA FailProgress ==
    ASSUME Fail
    PROVE  Progress'
  BY DEF Fail, Progress

\* A step at a child fails the reconcile, or goes on with the child in place.
ChildDone ==
    /\ Advance /\ ChildrenKept /\ csecrets' = csecrets
    /\ Kind = "monitor" \/ Kind \in stale' \/ kids'[Kind] = Want(Kind)

LEMMA ApplyEffect ==
    ASSUME Typed, pc = "apply",
           SkipChild \/ WriteChild \/ RefusedChild \/ CallFails \/ AnswerLost
    PROVE  Fail \/ ChildDone
<1>1. Kind \in Kinds
  BY KindNames DEF Kind, Typed, TypeOK, WorkerTypes
<1>2. CASE SkipChild
  <2>1. UNCHANGED <<kids, pods, csecrets, stale>>
    BY <1>2 DEF SkipChild, apiVars, cacheVars
  <2>2. Kind = "monitor" \/ ckids[Kind] = Want(Kind)
    BY <1>2 DEF SkipChild, NothingToDo
  <2>3. Kind \notin stale => kids[Kind] = ckids[Kind]
    BY <1>1 DEF Typed, CachesCurrent
  <2> QED
    BY <1>2, <2>1, <2>2, <2>3, NothingMoves DEF SkipChild, ChildDone
<1>3. CASE WriteChild
  <2>1. StoreChild(Kind, Want(Kind)) /\ Advance
    BY <1>3 DEF WriteChild
  <2> QED
    BY <1>1, <2>1, StoreChildKeeps DEF ChildDone
<1>4. CASE RefusedChild \/ CallFails
  <2>1. UNCHANGED <<kids, pods, csecrets, stale>> /\ ChildError
    BY <1>4 DEF RefusedChild, CallFails, apiVars, cacheVars
  <2> QED
    BY <2>1, NothingMoves DEF ChildError, ChildDone
<1>5. CASE AnswerLost
  <2>1. StoreChild(Kind, Want(Kind)) /\ ChildError
    BY <1>5 DEF AnswerLost
  <2> QED
    BY <1>1, <2>1, StoreChildKeeps DEF ChildError, ChildDone
<1> QED
  BY <1>2, <1>3, <1>4, <1>5

LEMMA ApplyProgress ==
    ASSUME Typed, Progress, pc = "apply",
           SkipChild \/ WriteChild \/ RefusedChild \/ CallFails \/ AnswerLost
    PROVE  Progress'
  BY ApplyEffect, FailProgress, AdvanceProgress DEF ChildDone

\* Calls that fail, answers that are lost.
LEMMA FaultProgress ==
    ASSUME Typed, Progress, CallFails \/ AnswerLost \/ Restart
    PROVE  Progress'
<1>1. CASE Fail
  BY <1>1, FailProgress
<1>2. CASE pc = "apply" /\ (CallFails \/ AnswerLost)
  BY <1>2, ApplyProgress
<1>3. CASE Restart
  BY <1>3 DEF Restart, Progress
<1> QED
  BY <1>1, <1>2, <1>3 DEF CallFails, AnswerLost

LEMMA GenerateProgress ==
    ASSUME NoDefaultCredentials, Typed, Progress, GenerateConfigs
    PROVE  Progress'
<1>1. /\ step' = 1 /\ loc' = loc /\ csecrets' = csecrets /\ pc' = "apply"
      /\ loc.pipe.spec \in Specs /\ read.defaults \in DefaultsSpecs \cup {None}
  BY HeldSpec DEF GenerateConfigs, cacheVars, Typed, TypeOK, WorkerTypes, HoldsPipeline,
                  Readings
<1>2. read'.secrets =
        Referenced(referencedSecrets(MergeSpec(read.defaults, loc.pipe.spec)), csecrets)
  BY DEF GenerateConfigs, Typed, TypeOK, WorkerTypes, Readings
<1>3. read'.secrets = Referenced(referencedSecrets(loc'.pipe.spec), csecrets')
  BY <1>1, <1>2, OwnReferences
<1>4. Applied(step, loc.pipe)'
  BY <1>1, <1>3 DEF Applied, Written
<1> QED
  BY <1>1, <1>4 DEF Progress

LEMMA ErrorPhase == \A count : PhaseOf(TRUE, count) = "Error"
  BY Zenon DEF PhaseOf

\* updateStatus reports the Deployment it wrote, or an event will tell.
LEMMA StatusProgress ==
    ASSUME Typed, ControlState, Progress, ComputeStatus
    PROVE  Progress'
<1> SUFFICES ASSUME ~ dirty' PROVE Progress'
  BY DEF Progress
<1>1. /\ pc = "status" /\ pc' = "persist" /\ ~ dirty /\ step' = step /\ read' = read
      /\ UNCHANGED <<kids, pods, stale, csecrets>>
  BY DEF ComputeStatus, queueVars, apiVars, cacheVars
<1>2. /\ loc'.pipe = loc.pipe /\ loc'.status.observed = loc.pipe.generation
      /\ loc'.status.replicas = SeenPods.replicas /\ loc'.status.ready = SeenPods.ready
      /\ loc'.status.phase = PhaseOf(loc.failed, SeenPods)
  BY DEF ComputeStatus, Typed, TypeOK, WorkerTypes, Locals, Statuses
<1>3. loc.pipe \in Pipelines /\ loc.pipe.spec \in Specs /\ loc.pipe.uid \in Nat
  BY <1>1, HeldSpec DEF Typed, TypeOK, WorkerTypes, HoldsPipeline, Pipelines
<1>4. loc.failed \in BOOLEAN /\ loc.failed = ~ loc.pipe.spec.graphOK
  BY <1>1 DEF Typed, TypeOK, WorkerTypes, Locals, ControlState
<1>5. loc.pipe.spec.graphOK => Applied(9, loc.pipe)
  BY <1>1 DEF Progress
<1>6. loc.pipe.spec.graphOK => Applied(9, loc.pipe)'
  BY <1>1, <1>2, <1>5, NothingMoves, AppliedKept, SMTT(30)
<1>7. ASSUME loc.pipe.spec.graphOK, "deployment" \notin stale
      PROVE  /\ loc'.status.replicas = pods.replicas /\ loc'.status.ready = pods.ready
             /\ loc'.status.phase = PhaseOf(FALSE, pods)
  <2>1. KindAt[3] = "deployment" /\ 3 \in 1 .. 9 - 1
    BY DEF KindAt
  <2>2. kids["deployment"] = Object(loc.pipe.uid, Desired("deployment", Inputs(loc.pipe.spec)))
    BY <1>5, <1>7, <2>1 DEF Applied, Written
  <2>3. Inputs(loc.pipe.spec) \in AllInputs
    BY <1>3 DEF Inputs, AllInputs, Typed, TypeOK, WorkerTypes, Readings
  <2>4. kids["deployment"] # None
    BY <1>3, <2>2, <2>3, DeploymentWanted
  <2>5. SeenPods = pods
    BY <1>7, <2>4, KindNames DEF SeenPods, Typed, CachesCurrent
  <2>6. loc.failed = FALSE
    BY <1>4, <1>7, Zenon
  <2> QED
    BY <1>2, <2>5, <2>6
<1>8. ASSUME ~ loc.pipe.spec.graphOK
      PROVE  loc'.status.phase = "Error"
  <2>1. loc.failed = TRUE
    BY <1>4, <1>8, Zenon
  <2> QED
    BY <1>2, <2>1, ErrorPhase
<1>9. Reported(loc.pipe, loc.status)'
  BY <1>1, <1>2, <1>7, <1>8 DEF Reported, ReportsPods
<1> QED
  BY <1>1, <1>2, <1>6, <1>9 DEF Progress

\* The status reaches the object it was computed for.
LEMMA PersistProgress ==
    ASSUME Typed, FinalizerHolds, WorksOnCachedRevision, Progress, PersistStatus
    PROVE  Progress'
<1> SUFFICES ASSUME ~ dirty', Live(cpipe'), "pipe" \notin stale'
             PROVE  /\ cpipe'.finalizer /\ Reported(cpipe, cpipe.status)'
                    /\ cpipe'.spec.graphOK => Applied(9, cpipe)'
  BY DEF PersistStatus, Progress
<1>1. /\ pc = "persist" /\ ~ dirty /\ "pipe" \notin stale /\ cpipe # None
      /\ UNCHANGED <<kids, pods, csecrets, cpipe, read>>
      /\ pipe' = [pipe EXCEPT !.status = loc.status]
      /\ pipe' = pipe /\ stale' = stale
  BY DEF PersistStatus, SeesLatest, StorePipe, cacheVars
<1>2. cpipe = pipe /\ pipe \in Pipelines
  BY <1>1 DEF Typed, TypeOK, CachesCurrent, ObjectTypes
<1>3. cpipe.status = loc.status
  BY <1>1, <1>2 DEF Pipelines
<1>4. SameRevision(loc.pipe, cpipe)
  BY <1>1 DEF WorksOnCachedRevision
<1>5. cpipe.finalizer
  BY <1>1, <1>2 DEF FinalizerHolds, WorksForExistingPipeline
<1>6. Reported(cpipe, cpipe.status)
  BY <1>1, <1>3, <1>4 DEF Progress, Reported, SameRevision
<1>7. cpipe.spec.graphOK => Applied(9, cpipe)
  BY <1>1, <1>4 DEF Progress, Applied, Written, SameRevision
<1>8. ChildrenKept /\ PodsKept
  BY <1>1, NothingMoves
<1> QED
  BY <1>1, <1>5, <1>6, <1>7, <1>8, ReportedKept, AppliedKept

LEMMA WorkerProgress ==
    ASSUME NoDefaultCredentials, Typed, FinalizerHolds, WorksOnCachedRevision,
           ControlState, Progress, Worker
    PROVE  Progress'
<1>1. CASE Begin
  <2>1. cpipe' = cpipe
    BY <1>1, BeginEffect DEF cacheVars
  <2>2. pc' \in {"unfinalize", "finalize", "merge"} \/ (pc' = "idle" /\ ~ Live(cpipe'))
    BY <1>1, <2>1, BeginEffect DEF Live
  <2> QED
    BY <2>2 DEF Progress
<1>2. CASE RemoveFinalizer
  <2>1. pipe # None /\ StorePipe(None) /\ pc' = "idle"
    BY <1>2 DEF RemoveFinalizer, HoldsLatest, Typed, HoldsPipeline, CachesCurrent
  <2>2. "pipe" \in stale'
    BY <2>1 DEF StorePipe
  <2> QED
    BY <2>1, <2>2 DEF Progress
<1>3. CASE AddFinalizer \/ CalculateScaling
  BY <1>3 DEF AddFinalizer, CalculateScaling, Progress
<1>4. CASE Merge
  <2>1. loc'.pipe = loc.pipe
    BY <1>4 DEF Merge, Typed, TypeOK, WorkerTypes, Locals
  <2> QED
    BY <1>4, <2>1 DEF Merge, Progress
<1>5. CASE FinalizerConflict \/ GenerateFails \/ PersistFails
  BY <1>5, FailProgress DEF FinalizerConflict, GenerateFails, PersistFails
<1> QED
  BY <1>1, <1>2, <1>3, <1>4, <1>5, GenerateProgress, ApplyProgress, StatusProgress,
     PersistProgress
  DEF Worker, SkipChild, WriteChild, RefusedChild

-----------------------------------------------------------------------------
\* Reconciling is inductive.
LEMMA ReconcilingInvariant ==
    ASSUME NoDefaultCredentials
    PROVE  Spec => [](Typed /\ Reconciling)
<1>1. Init => FinalizerHolds /\ WorksOnCachedRevision /\ ControlState /\ Progress
  BY DEF Init, FinalizerHolds, WorksForExistingPipeline, WorksOnCachedRevision,
         ControlState, Progress, Live
<1>2. /\ Typed /\ FinalizerHolds /\ WorksOnCachedRevision /\ ControlState /\ Progress
      /\ [Next]_vars
      => (FinalizerHolds /\ WorksOnCachedRevision /\ ControlState /\ Progress)'
  <2> SUFFICES ASSUME Typed, FinalizerHolds, WorksOnCachedRevision, ControlState,
                      Progress, [Next]_vars
               PROVE  (FinalizerHolds /\ WorksOnCachedRevision /\ ControlState
                       /\ Progress)'
    OBVIOUS
  <2>1. FinalizerHolds' /\ WorksOnCachedRevision' /\ ControlState'
    BY FinalizerStep, RevisionStep
  <2>2. Progress'
    BY OthersProgress, FaultProgress, WorkerProgress DEF Next
  <2> QED
    BY <2>1, <2>2
<1>3. /\ Typed /\ FinalizerHolds /\ WorksOnCachedRevision /\ ControlState /\ Progress
      => Typed /\ Reconciling
  BY DEF Typed, Reconciling
<1> QED
  BY <1>1, <1>2, <1>3, TypedInvariant, PTL DEF Spec

\* A reconciler that has done its work has converged.
LEMMA QuietConverged ==
    ASSUME NoDefaultCredentials
    PROVE  Typed /\ Reconciling => QuietMeansConverged
<1> SUFFICES ASSUME Typed, Reconciling, Quiet, Live(pipe) PROVE Converged
  BY DEF QuietMeansConverged
<1>1. /\ pc = "idle" /\ ~ dirty /\ "pipe" \notin stale /\ cpipe = pipe
      /\ Live(cpipe) /\ pipe \in Pipelines /\ pipe.spec \in Specs
  BY DEF Quiet, Live, Typed, TypeOK, CachesCurrent, ObjectTypes, Pipelines
<1>2. /\ pipe.finalizer /\ Reported(pipe, pipe.status)
      /\ pipe.spec.graphOK => Applied(9, pipe)
  BY <1>1 DEF Reconciling, Progress
<1>3. \A k \in RetriedKinds : k \notin stale
  BY DEF Quiet, RetriedKinds, OwnedKinds
<1>4. "deployment" \in RetriedKinds
  BY KindNames DEF RetriedKinds
<1>5. CASE ~ pipe.spec.graphOK
  BY <1>2, <1>5 DEF Converged, Reported
<1>6. CASE pipe.spec.graphOK
  <2>1. read.defaults \in DefaultsSpecs \cup {None}
    BY DEF Typed, TypeOK, WorkerTypes, Readings
  <2>2. referencedSecrets(MergeSpec(read.defaults, pipe.spec)) = referencedSecrets(pipe.spec)
    BY <1>1, <2>1, OwnReferences
  <2>3. \A s \in Secrets : s \in referencedSecrets(pipe.spec) => csecrets[s] = secrets[s]
    BY <1>1 DEF Quiet, Live, Typed, CachesCurrent
  <2>4. read.secrets = Referenced(referencedSecrets(pipe.spec), secrets)
    BY <1>2, <1>6, <2>3 DEF Applied, Referenced
  <2>5. CurrentInputs = Inputs(pipe.spec)
    BY <2>2, <2>4 DEF CurrentInputs, Inputs
  <2>6. ASSUME NEW k \in RetriedKinds
        PROVE  Settled(k)
    <3>1. PICK i \in 1 .. 9 - 1 : KindAt[i] = k
      BY DEF RetriedKinds, Kinds, Steps
    <3>2. k # "monitor" /\ k \notin stale
      BY <1>3, <2>6 DEF RetriedKinds
    <3>3. kids[k] = Object(pipe.uid, Desired(k, CurrentInputs))
      BY <1>2, <1>6, <2>5, <3>1, <3>2 DEF Applied, Written
    <3> QED
      BY <3>3 DEF Settled
  <2>7. ReportsPods(pipe.status) /\ pipe.status.observed = pipe.generation
    BY <1>2, <1>3, <1>4, <1>6 DEF Reported
  <2> QED
    BY <1>2, <1>6, <2>6, <2>7 DEF Converged
<1> QED
  BY <1>5, <1>6

(***************************************************************************)
(* No wake-up is lost.  Whatever users, failures, restarts and the order   *)
(* of events do: when no event is on its way and the name is not queued,   *)
(* the children and the status are the ones the pipeline calls for.        *)
(***************************************************************************)
THEOREM NoLostWakeup ==
    ASSUME NoDefaultCredentials
    PROVE  Spec => []QuietMeansConverged
  BY QuietConverged, ReconcilingInvariant, PTL

(***************************************************************************)
(* The inductive invariant itself: at every moment Reconcile works on the  *)
(* revision in the cache and the children it has passed are the desired    *)
(* ones, unless an event has queued the name again.                        *)
(***************************************************************************)
THEOREM ReconcilingAlways ==
    ASSUME NoDefaultCredentials
    PROVE  Spec => []Reconciling
  BY ReconcilingInvariant, PTL

-----------------------------------------------------------------------------
(***************************************************************************)
(* The ConfigMaps before the pods, without any assumption on the Defaults. *)
(***************************************************************************)
ChildrenPassed == ~ dirty /\ pc = "apply" => Written(step, loc.pipe)

LEMMA PassedStep ==
    ASSUME Typed, ChildrenPassed, [Next]_vars
    PROVE  ChildrenPassed'
<1> SUFFICES ASSUME ~ dirty', pc' = "apply" PROVE Written(step, loc.pipe)'
  BY DEF ChildrenPassed
<1>1. CASE pc = "apply" /\ (Watch \/ TimerFires \/ Resync \/ Collector \/ Users
                            \/ UNCHANGED vars)
  <2>1. UNCHANGED <<pc, step, loc, read>> /\ ~ dirty /\ Harmless
    BY <1>1, OthersHarmless
  <2>2. Written(step, loc.pipe) /\ step \in 1 .. 9
    BY <1>1, <2>1 DEF ChildrenPassed, Typed, TypeOK, WorkerTypes
  <2> QED
    BY <2>1, <2>2, WrittenKept DEF Harmless
<1>2. CASE pc = "apply" /\ (SkipChild \/ WriteChild \/ RefusedChild \/ CallFails
                            \/ AnswerLost)
  <2>1. ChildDone
    BY <1>2, ApplyEffect, FailEffect
  <2>2. ~ dirty
    BY <2>1 DEF ChildDone, Advance, queueVars
  <2> QED
    BY <1>2, <2>1, <2>2, AdvanceWritten DEF ChildDone, ChildrenPassed
<1>3. CASE pc = "apply" /\ (Worker \/ Restart)
  BY <1>2, <1>3
  DEF Worker, Restart, Begin, RemoveFinalizer, AddFinalizer, FinalizerConflict, Merge,
      CalculateScaling, GenerateConfigs, GenerateFails, ComputeStatus, PersistStatus,
      PersistFails
<1>4. CASE pc # "apply"
  <2>1. CASE GenerateConfigs
    <3>1. step' = 1
      BY <2>1 DEF GenerateConfigs, Typed, HoldsPipeline
    <3> QED
      BY <3>1 DEF Written
  <2>2. CASE Worker /\ ~ GenerateConfigs
    BY <1>4, <2>2, BeginEffect, FailEffect
    DEF Worker, RemoveFinalizer, AddFinalizer, FinalizerConflict, Merge, CalculateScaling,
        GenerateFails, SkipChild, WriteChild, RefusedChild, ComputeStatus, PersistStatus,
        PersistFails
  <2>3. CASE Watch \/ TimerFires \/ Resync \/ Collector \/ Users \/ UNCHANGED vars
    BY <1>4, <2>3, OthersHarmless
  <2>4. CASE CallFails \/ AnswerLost \/ Restart
    BY <1>4, <2>4, FailEffect DEF CallFails, AnswerLost, Restart
  <2> QED
    BY <2>1, <2>2, <2>3, <2>4 DEF Next
<1> QED
  BY <1>1, <1>2, <1>3, <1>4 DEF Next

\* A pipeline always calls for both ConfigMaps.
LEMMA ConfigWanted ==
    ASSUME NEW in \in AllInputs, NEW u \in Nat, NEW k \in {"pipelines", "config"}
    PROVE  /\ Object(u, Desired(k, in)) # None
           /\ Object(u, Desired(k, in)).data = GenerateDeployment(in).hash[k]
<1> DEFINE content == IF k = "pipelines" THEN GeneratePipelineConfig(in)
                                         ELSE GenerateDPConfig(in)
<1>1. Desired(k, in) = content
  <2>1. Desired("pipelines", in) = GeneratePipelineConfig(in)
    BY Zenon DEF Desired
  <2>2. Desired("config", in) = GenerateDPConfig(in)
    BY Zenon DEF Desired
  <2> QED
    BY <2>1, <2>2
<1>2. content \in ConfigContents
  BY DEF ConfigContents
<1>3. GenerateDeployment(in).hash[k] = content
  BY DEF GenerateDeployment, configHash
<1> HIDE DEF content
<1>4. content # None
  BY <1>2, NoneIsNothing
<1>5. [owner |-> u, data |-> content] \in [owner : Nat, data : ConfigContents]
  BY <1>2
<1> QED
  BY <1>1, <1>3, <1>4, <1>5, NoneIsNothing DEF Object

\* Reconcile changes the Deployment at the third child only.
LEMMA RollsAtDeployment ==
    ASSUME Typed, RollsPods, [Next]_vars
    PROVE  step = 3 /\ StoreChild("deployment", Want("deployment"))
<1>1. pc = "apply" /\ step # step' /\ kids'["deployment"] # kids["deployment"]
  BY DEF RollsPods
<1>2. WriteChild \/ AnswerLost
  <2>1. ~ (Watch \/ TimerFires \/ Resync \/ Collector \/ Users \/ UNCHANGED vars)
    BY <1>1, OthersHarmless
  <2>2. ~ (CallFails \/ Restart)
    BY <1>1 DEF CallFails, Restart, apiVars
  <2>3. Worker => WriteChild
    BY <1>1
    DEF Worker, Begin, RemoveFinalizer, AddFinalizer, FinalizerConflict, Merge,
        CalculateScaling, GenerateConfigs, GenerateFails, SkipChild, RefusedChild,
        ComputeStatus, PersistStatus, PersistFails, apiVars
  <2> QED
    BY <2>1, <2>2, <2>3 DEF Next
<1>3. StoreChild(Kind, Want(Kind))
  BY <1>1, <1>2 DEF WriteChild, AnswerLost
<1>4. step \in Steps /\ Kind \in Kinds /\ DOMAIN kids = Kinds
  BY <1>1, KindNames DEF Kind, Typed, TypeOK, WorkerTypes, ObjectTypes, Children
<1>5. Kind = "deployment"
  BY <1>1, <1>3, <1>4, KindNames DEF StoreChild
<1>6. step = 3
  BY <1>4, <1>5 DEF Kind, KindAt, Steps
<1> QED
  BY <1>3, <1>5, <1>6

(***************************************************************************)
(* Reconcile rolls the pods only when both ConfigMaps hold what the hash   *)
(* annotation names, or an event it has not worked on yet brings it back.  *)
(* This rests on the order in which it writes the children, and holds for  *)
(* every spec, Defaults object, failure and interleaving with other hands. *)
(***************************************************************************)
THEOREM ConfigFirst == Spec => ConfigBeforePods
<1> DEFINE InPlace == RollsPods => \A k \in {"pipelines", "config"} \ DriftKinds :
                        HoldsConfig(kids, k) \/ k \in stale \/ dirty
<1>1. Init => ChildrenPassed
  BY DEF Init, ChildrenPassed
<1>2. Typed /\ ChildrenPassed /\ [Next]_vars => ChildrenPassed'
  BY PassedStep
<1>3. Typed /\ ChildrenPassed /\ [Next]_vars => [InPlace]_vars
  <2> SUFFICES ASSUME Typed, ChildrenPassed, [Next]_vars, RollsPods,
                      NEW k \in {"pipelines", "config"}, k \notin stale, ~ dirty
               PROVE  HoldsConfig(kids, k)
    OBVIOUS
  <2> DEFINE in == Inputs(loc.pipe.spec)
             u  == loc.pipe.uid
  <2>1. pc = "apply" /\ step = 3 /\ StoreChild("deployment", Want("deployment"))
    BY RollsAtDeployment DEF RollsPods
  <2>2. u \in Nat /\ in \in AllInputs
    <3>1. loc \in Locals /\ loc.pipe # None /\ read \in Readings
      BY <2>1 DEF Typed, TypeOK, WorkerTypes, HoldsPipeline
    <3>2. loc.pipe.uid \in Nat /\ loc.pipe.spec \in Specs
      BY <3>1, HeldSpec DEF Pipelines
    <3> QED
      BY <3>1, <3>2 DEF Inputs, AllInputs, Readings
  <2>3. kids[k] = Object(u, Desired(k, in))
    <3>1. Written(3, loc.pipe)
      BY <2>1 DEF ChildrenPassed
    <3>2. PICK i \in 1 .. 3 - 1 : KindAt[i] = k
      <4>1. KindAt[1] = "pipelines" /\ KindAt[2] = "config"
        BY DEF KindAt
      <4> QED
        BY <4>1
    <3> QED
      BY <3>1, <3>2 DEF Written
  <2>4. kids'["deployment"] = Object(u, Desired("deployment", in))
    BY <2>1, KindNames DEF StoreChild, Want, Typed, TypeOK, ObjectTypes, Children
  <2>5. kids'["deployment"].data = GenerateDeployment(in)
    <3>1. Desired("deployment", in) = GenerateDeployment(in)
      BY Zenon DEF Desired
    <3>2. GenerateDeployment(in) \in DeploymentContents
      BY <2>2 DEF DeploymentContents
    <3>3. GenerateDeployment(in) # None
      BY <3>2, NoneIsNothing
    <3> QED
      BY <2>4, <3>1, <3>3, SMTT(30) DEF Object
  <2> QED
    BY <2>2, <2>3, <2>5, ConfigWanted DEF HoldsConfig
<1> QED
  BY <1>1, <1>2, <1>3, TypedInvariant, PTL DEF Spec, ConfigBeforePods
=============================================================================

-------------------------- MODULE PipelineInvariant --------------------------
(***************************************************************************)
(* Why the pipeline controller converges: the inductive invariant behind   *)
(* WorksForExistingPipeline and QuietMeansConverged.                       *)
(***************************************************************************)
EXTENDS PipelineController

\* An object without an undelivered event is in the caches as it is.
CachesCurrent ==
    /\ "pipe" \notin stale => cpipe = pipe
    /\ \A k \in Kinds : k \notin stale => ckids[k] = kids[k]
    /\ "deployment" \notin stale => cpods = pods
    /\ \A s \in Secrets : s \notin stale => csecrets[s] = secrets[s]

\* Between its first read and its return Reconcile has a pipeline in hand, and
\* it starts from the first child.
HoldsPipeline ==
    /\ pc # "idle" => loc.pipe # None
    /\ pc \in {"finalize", "merge", "scale", "generate"} => step = 1

\* A finalizer seen on a live object is still there, and so is the object.
FinalizerHolds ==
    /\ pc = "unfinalize" => loc.pipe.deleting
    /\ cpipe # None /\ cpipe.finalizer /\ ~ cpipe.deleting =>
          pipe # None /\ pipe.uid = cpipe.uid /\ pipe.finalizer
    /\ WorksForExistingPipeline

\* Until an event queues the name again, Reconcile works on the revision of
\* the pipeline that is in the cache.
SameRevision(p, q) ==
    /\ p.uid = q.uid /\ p.generation = q.generation
    /\ p.spec = q.spec /\ p.deleting = q.deleting

WorksOnCachedRevision ==
    pc # "idle" /\ ~ dirty => cpipe # None /\ SameRevision(loc.pipe, cpipe)

\* The pipeline is not being deleted, and what the validation of its graph said.
ControlState ==
    /\ pc \in {"finalize", "merge", "scale", "generate", "apply", "status", "persist"} =>
          ~ loc.pipe.deleting
    /\ pc \in {"scale", "generate", "apply"} => loc.pipe.spec.graphOK /\ ~ loc.failed
    /\ pc \in {"status", "persist"} => loc.failed = ~ loc.pipe.spec.graphOK

\* The children before step n are the ones p calls for, unless an event is on
\* its way.
Written(n, p) ==
    \A i \in 1 .. n - 1 : KindAt[i] # "monitor" =>
        \/ KindAt[i] \in stale
        \/ kids[KindAt[i]] = Object(p.uid, Desired(KindAt[i], Inputs(p.spec)))

\* And the Secrets have not changed since they were hashed.
Applied(n, p) ==
    /\ read.secrets = Referenced(referencedSecrets(p.spec), csecrets)
    /\ Written(n, p)

\* The status is the one of p's generation and of the Deployment's pods.
Reported(p, status) ==
    /\ status.observed = p.generation
    /\ p.spec.graphOK => "deployment" \in stale \/ ReportsPods(status)
    /\ ~ p.spec.graphOK => status.phase = "Error"

\* What has been achieved, as long as nothing has queued the name again.
Progress ==
    ~ dirty =>
        /\ pc = "apply" => Applied(step, loc.pipe)
        /\ pc \in {"status", "persist"} /\ loc.pipe.spec.graphOK => Applied(9, loc.pipe)
        /\ pc = "persist" => Reported(loc.pipe, loc.status)
        /\ pc = "idle" /\ Live(cpipe) /\ "pipe" \notin stale =>
              /\ cpipe.finalizer /\ Reported(cpipe, cpipe.status)
              /\ cpipe.spec.graphOK => Applied(9, cpipe)

\* Pipeline object q is p, or p at an earlier time, and no status of a later
\* generation than q's had been written at p's time; or q is another object.
Earlier(q, p) ==
    q.uid = p.uid =>
        /\ q.generation <= p.generation
        /\ q.generation = p.generation => q.spec = p.spec
        /\ p.status.observed <= q.generation

VersionOf(q) == q # None => q.uid <= uids /\ (pipe # None => Earlier(q, pipe))

\* What a status says of the spec it was computed for.
GraphVerdict(spec, configValid) == configValid = IF spec.graphOK THEN "True" ELSE "False"
ErrorVerdict(spec, phase) == (phase = "Error") = ~ spec.graphOK

\* Why the status is about the generation it names: what Reconcile holds, what
\* the cache shows and what the status was computed for are versions of the
\* pipeline in this order.
StatusHistory ==
    /\ VersionOf(pipe) /\ VersionOf(cpipe) /\ (pc # "idle" => VersionOf(loc.pipe))
    /\ pc \in {"scale", "generate", "apply", "status", "persist"} =>
          GraphVerdict(loc.pipe.spec, loc.status.configValid)
    /\ pc = "persist" =>
          /\ loc.status.observed = loc.pipe.generation
          /\ ErrorVerdict(loc.pipe.spec, loc.status.phase)
    /\ VerdictMatchesGeneration

(***************************************************************************)
(* The inductive invariant of the reconciler: fresh caches, the object the *)
(* finalizer keeps alive, and the work done so far for the cached revision *)
(* as long as no event has queued the name again.                          *)
(***************************************************************************)
Reconciling ==
    /\ CachesCurrent /\ HoldsPipeline /\ FinalizerHolds
    /\ WorksOnCachedRevision /\ ControlState /\ Progress
=============================================================================

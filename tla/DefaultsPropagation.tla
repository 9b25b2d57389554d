-------------------------- MODULE DefaultsPropagation --------------------------
(***************************************************************************)
(* The pipeline controller together with DataPrepperDefaultsReconciler and *)
(* the validating webhook.  The Defaults controller wakes the pipelines of *)
(* its namespace by writing the generation of the Defaults object into an  *)
(* annotation; the webhook checks what anybody, the controllers included,  *)
(* stores as a pipeline, its status excepted.                              *)
(*                                                                         *)
(* Both controllers and the webhook live in one process and read the same  *)
(* caches.  The inputs that Defaults do not touch (the pipeline's spec,    *)
(* Secrets, Kafka, drift of the children) stay as they are here;           *)
(* PipelineController has them change.                                     *)
(***************************************************************************)
EXTENDS PipelineController

CONSTANTS
    EnableWebhook,          \* the flag --enable-webhook
    MaxDefaultsChanges      \* bound: creations, edits and deletions of Defaults

ASSUME DefaultsBounds == EnableWebhook \in BOOLEAN /\ MaxDefaultsChanges \in Nat

VARIABLES
    dgen,       \* generation of the Defaults object, 0 when there is none
    births,     \* how many Defaults objects there have been
    changes,    \* changes of the Defaults so far
    cdgen,      \* the generation in the cache
    rev, crev,  \* the pipeline's defaults-revision, stored and cached; 0 for none
    ddirty,     \* the Defaults object is queued, or will be
    dpc, drev   \* where the Defaults controller stands and the revision it writes

defaultsVars == <<dgen, births, changes, cdgen>>
revVars == <<rev, crev>>
dworkVars == <<ddirty, dpc, drev>>
allVars == <<vars, defaultsVars, revVars, dworkVars>>

PropagationInit ==
    /\ Init
    /\ dgen = (IF defaults = None THEN 0 ELSE 1) /\ births = dgen /\ changes = 0
    /\ cdgen = dgen /\ rev = 0 /\ crev = 0
    /\ ddirty = (dgen # 0) /\ dpc = "idle" /\ drev = 0

-----------------------------------------------------------------------------
(***************************************************************************)
(* The webhook: validatePipeline, as far as specs of Specs can fail it.    *)
(***************************************************************************)
validateImage(spec) ==
    spec.image # None \/ (cdefaults # None /\ cdefaults.image # None)

validatePipeline(spec) ==
    validateImage(spec) /\ spec.graphOK /\ validateScaling(spec.scaling)

Admits(spec) == EnableWebhook => validatePipeline(spec)

\* Steps of PipelineController that submit the pipeline to the webhook create it
\* or change its finalizer.
Submitted ==
    /\ uids' # uids => Admits(pipe'.spec)
    /\ pc \in {"finalize", "unfinalize"} /\ pc' # pc /\ pipe' # pipe => Admits(pipe.spec)

WebhookRefuses ==
    /\ pc \in {"finalize", "unfinalize"} /\ HoldsLatest /\ ~ Admits(loc.pipe.spec)
    /\ Fail
    /\ UNCHANGED <<apiVars, cacheVars, stale, faults, defaultsVars, revVars, dworkVars>>

-----------------------------------------------------------------------------
(***************************************************************************)
(* DataPrepperDefaultsReconciler.                                          *)
(***************************************************************************)

\* Mutant: a pipeline that carries any revision is left alone.
BeginDefaultsOnce ==
    /\ dpc = "idle" /\ ddirty
    /\ ddirty' = FALSE
    /\ drev' = cdgen
    /\ dpc' = IF cdgen # 0 /\ cpipe # None /\ crev = 0 THEN "touch" ELSE "idle"
    /\ UNCHANGED <<vars, defaultsVars, revVars>>

\* Get the Defaults and list the pipelines.  A pipeline that carries the
\* revision already is left alone.
BeginDefaults ==
    /\ dpc = "idle" /\ ddirty
    /\ ddirty' = FALSE
    /\ drev' = cdgen
    /\ dpc' = IF cdgen # 0 /\ cpipe # None /\ crev # cdgen THEN "touch" ELSE "idle"
    /\ UNCHANGED <<vars, defaultsVars, revVars>>

\* Mutant: the revision is one too high.
AnnotateNext ==
    /\ rev' = drev + 1
    /\ stale' = IF rev = drev + 1 THEN stale ELSE stale \cup {"pipe"}

Annotate ==
    /\ rev' = drev
    /\ stale' = IF rev = drev THEN stale ELSE stale \cup {"pipe"}

\* RetryOnConflict: Get, set the annotation, Update.
Touch ==
    /\ dpc = "touch" /\ SeesLatest /\ Admits(pipe.spec)
    /\ Annotate
    /\ dpc' = "idle"
    /\ UNCHANGED <<apiVars, cacheVars, queueVars, workVars, faults, defaultsVars, crev,
                   ddirty, drev>>

\* Conflicts up to the last retry, or the webhook's refusal: the error is returned.
TouchFails ==
    /\ dpc = "touch" /\ ~ (SeesLatest /\ Admits(pipe.spec))
    /\ dpc' = "idle" /\ ddirty' = TRUE
    /\ UNCHANGED <<vars, defaultsVars, revVars, drev>>

\* Mutant: the error is not returned.
TouchErrorDropped ==
    /\ dpc = "touch" /\ faults < MaxFaults /\ faults' = faults + 1
    /\ \/ UNCHANGED <<rev, stale>>
       \/ SeesLatest /\ Admits(pipe.spec) /\ Annotate
    /\ dpc' = "idle"
    /\ UNCHANGED <<apiVars, cacheVars, queueVars, workVars, defaultsVars, crev, ddirty, drev>>

\* The Update fails without effect, or only its answer is lost.
TouchError ==
    /\ dpc = "touch" /\ faults < MaxFaults /\ faults' = faults + 1
    /\ \/ UNCHANGED <<rev, stale>>
       \/ SeesLatest /\ Admits(pipe.spec) /\ Annotate
    /\ dpc' = "idle" /\ ddirty' = TRUE
    /\ UNCHANGED <<apiVars, cacheVars, queueVars, workVars, defaultsVars, crev, drev>>

\* For(DataPrepperDefaults): the cache first, then the queue.
WatchDefaults ==
    /\ DeliverDefaults
    /\ cdgen' = dgen /\ ddirty' = TRUE
    /\ UNCHANGED <<dgen, births, changes, revVars, dpc, drev>>

\* Create, edit or delete the Defaults object.
UserChangesDefaults ==
    /\ changes < MaxDefaultsChanges /\ changes' = changes + 1
    /\ ChangeDefaults
    /\ dgen' = IF defaults' = None THEN 0 ELSE dgen + 1
    /\ births' = IF defaults = None THEN births + 1 ELSE births
    /\ UNCHANGED <<cdgen, revVars, dworkVars>>

-----------------------------------------------------------------------------
\* Steps of the pipeline controller and of its users.  A new pipeline object
\* carries no revision.
PipelineSteps ==
    /\ \/ Worker \/ TimerFires \/ CallFails \/ AnswerLost \/ Collector
       \/ \E k \in Kinds : DeliverChild(k)
       \/ CreatePipeline \/ DeletePipeline
    /\ Submitted
    /\ rev' = IF pipe' = None THEN 0 ELSE rev
    /\ UNCHANGED <<defaultsVars, crev, dworkVars>>

DeliverPipeline ==
    /\ DeliverPipe
    /\ crev' = rev
    /\ UNCHANGED <<defaultsVars, rev, dworkVars>>

RestartAll ==
    /\ Restart
    /\ cdgen' = dgen /\ crev' = rev
    /\ ddirty' = (dgen # 0) /\ dpc' = "idle" /\ drev' = 0
    /\ UNCHANGED <<dgen, births, changes, rev>>

DefaultsWorker == BeginDefaults \/ Touch \/ TouchFails

PropagationNext ==
    PipelineSteps \/ DeliverPipeline \/ WebhookRefuses \/ RestartAll \/ TouchError
        \/ DefaultsWorker \/ WatchDefaults \/ UserChangesDefaults

PropagationSpec == PropagationInit /\ [][PropagationNext]_allVars

\* Both workers, the watches, the timer and the garbage collector go on.
PropagationFairSpec ==
    /\ PropagationSpec
    /\ WF_allVars((Worker /\ PipelineSteps) \/ WebhookRefuses)
    /\ WF_allVars(TimerFires /\ PipelineSteps)
    /\ WF_allVars(DefaultsWorker) /\ WF_allVars(DeliverPipeline) /\ WF_allVars(WatchDefaults)
    /\ \A k \in Kinds : /\ WF_allVars(DeliverChild(k) /\ PipelineSteps)
                        /\ WF_allVars(Collect(k) /\ PipelineSteps)

-----------------------------------------------------------------------------
\* The types of the Defaults controller's state, on top of the pipeline's.
PropagationTypes ==
    /\ TypeOK
    /\ dgen \in 0 .. MaxDefaultsChanges + 1 /\ cdgen \in 0 .. MaxDefaultsChanges + 1
    /\ (dgen = 0) = (defaults = None) /\ (cdgen = 0) = (cdefaults = None)
    /\ births \in 0 .. MaxDefaultsChanges + 1 /\ changes \in 0 .. MaxDefaultsChanges
    /\ rev \in 0 .. MaxDefaultsChanges + 1 /\ crev \in 0 .. MaxDefaultsChanges + 1
    /\ ddirty \in BOOLEAN /\ dpc \in {"idle", "touch"}
    /\ drev \in 0 .. MaxDefaultsChanges + 1

\* Neither controller has anything to do, and nothing is on its way to them.
AllQuiet == Quiet /\ stale = {} /\ dpc = "idle" /\ ~ ddirty

Reconciled == Live(pipe) /\ pipe.spec.graphOK

(***************************************************************************)
(* Changes of the Defaults reach the pipeline: once both controllers rest, *)
(* the last reconcile has merged the Defaults as they are now, whatever    *)
(* order edits, touches, restarts and reconciles came in.  The annotation  *)
(* holds a generation only, so this is said of the first Defaults object.  *)
(***************************************************************************)
QuietMeansPropagated ==
    AllQuiet /\ Reconciled /\ defaults # None /\ births = 1 => read.defaults = defaults

\* There has been no Defaults object yet, or the first one is there.
FirstDefaults == births = 0 \/ (births = 1 /\ dgen # 0)

\* What is not on its way is in the cache; of the first Defaults object, what is
\* in the cache, in the annotation and in hand comes in this order.
Generations ==
    /\ "defaults" \notin stale => cdefaults = defaults /\ cdgen = dgen
    /\ "pipe" \notin stale => crev = rev
    /\ pipe = None => rev = 0
    /\ births = 0 => dgen = 0 /\ "defaults" \notin stale
    /\ FirstDefaults =>
          /\ cdgen <= dgen /\ (cdgen = dgen => cdefaults = defaults)
          /\ rev <= cdgen /\ crev <= cdgen /\ drev <= cdgen
          /\ dpc = "touch" => drev = cdgen \/ ddirty
          /\ dpc = "touch" \/ ddirty => cdgen # 0

\* A reconcile got past the merge, or ended there, and no event came since.
MergedLast ==
    /\ ~ dirty
    /\ \/ pc \in {"scale", "generate", "apply", "status", "persist"}
       \/ pc = "idle" /\ Live(cpipe)

(***************************************************************************)
(* Why they do: the last reconcile merged the Defaults in the cache if the *)
(* annotation in the cache names their generation, and otherwise too,      *)
(* unless the Defaults controller is still to wake the pipeline.  With     *)
(* Generations this is inductive.                                          *)
(***************************************************************************)
WakesPending ==
    FirstDefaults /\ MergedLast =>
        /\ crev = cdgen => read.defaults = cdefaults
        /\ read.defaults = cdefaults \/ ddirty \/ dpc = "touch" \/ "pipe" \in stale

Propagating == Generations /\ WakesPending

(***************************************************************************)
(* A deleted pipeline goes away.                                           *)
(***************************************************************************)
DeletedPipelinesGo == (pipe # None /\ pipe.deleting) ~> (pipe = None)
=============================================================================

---------------------------- MODULE DefaultsProofs ----------------------------
(***************************************************************************)
(* The pipeline controller keeps its promises next to the Defaults         *)
(* controller and the webhook, and changes of the Defaults reach the       *)
(* pipeline.                                                               *)
(***************************************************************************)
EXTENDS DefaultsPropagation, PipelineProofs

-----------------------------------------------------------------------------
(***************************************************************************)
(* To the pipeline controller the composition brings two new steps: a      *)
(* write of the finalizer that the webhook refuses, and a failed call of   *)
(* the Defaults controller, which may have touched the pipeline.           *)
(***************************************************************************)
Refused == Fail /\ UNCHANGED <<apiVars, cacheVars, stale, faults>>

Faulted ==
    /\ faults' \in 0 .. MaxFaults
    /\ stale' = stale \/ stale' = stale \cup {"pipe"}
    /\ UNCHANGED <<apiVars, cacheVars, queueVars, workVars>>

LEMMA KnownSteps ==
    ASSUME Typed, [PropagationNext]_allVars
    PROVE  [Next]_vars \/ Refused \/ Faulted
<1>1. CASE PipelineSteps
  BY <1>1 DEF PipelineSteps, Next, Watch, Users
<1>2. CASE DeliverPipeline \/ RestartAll \/ WatchDefaults \/ UserChangesDefaults
  BY <1>2 DEF DeliverPipeline, RestartAll, WatchDefaults, UserChangesDefaults, Next, Watch,
              Users
<1>3. CASE WebhookRefuses
  BY <1>3 DEF WebhookRefuses, Refused
<1>4. CASE BeginDefaults \/ TouchFails \/ UNCHANGED allVars
  BY <1>4 DEF BeginDefaults, TouchFails, allVars
<1>5. CASE Touch
  <2>1. pipe # None
    BY <1>5 DEF Touch, SeesLatest, Typed, CachesCurrent
  <2>2. UNCHANGED <<apiVars, cacheVars, queueVars, workVars, faults>>
    BY <1>5 DEF Touch
  <2>3. CASE rev = drev
    BY <1>5, <2>2, <2>3 DEF Touch, Annotate, vars
  <2>4. CASE rev # drev
    BY <1>5, <2>1, <2>2, <2>4 DEF Touch, Annotate, TouchPipeline, Next, Users
  <2> QED
    BY <2>3, <2>4
<1>6. CASE TouchError
  BY <1>6, Bounds DEF TouchError, Annotate, Faulted, Typed, TypeOK, WorkerTypes
<1> QED
  BY <1>1, <1>2, <1>3, <1>4, <1>5, <1>6 DEF PropagationNext, DefaultsWorker

LEMMA RefusedEffect ==
    ASSUME Refused
    PROVE  /\ pc' = "idle" /\ dirty' /\ step' = 1
           /\ UNCHANGED <<pipe, cpipe, stale>>
  BY DEF Refused, Fail, apiVars, cacheVars

LEMMA RefusedTyped ==
    ASSUME Typed, Refused
    PROVE  Typed'
<1>1. faults' \in 0 .. MaxFaults /\ Fail /\ UNCHANGED <<apiVars, cacheVars, stale>>
  BY DEF Refused, Typed, TypeOK, WorkerTypes
<1>2. WorkerTypes'
  BY <1>1, FailTyped DEF Typed, TypeOK
<1>3. ObjectTypes' /\ CachesCurrent'
  BY <1>1, ObjectsUntouched DEF Typed, TypeOK
<1>4. HoldsPipeline'
  BY RefusedEffect DEF HoldsPipeline
<1> QED
  BY <1>2, <1>3, <1>4 DEF Typed, TypeOK

LEMMA FaultedEffect ==
    ASSUME Faulted
    PROVE  /\ UNCHANGED <<pipe, uids, kids, pods, secrets, defaults, topic, cpipe, ckids,
                          cpods, csecrets, cdefaults, dirty, requeue, pc, step, loc, read>>
           /\ stale \subseteq stale' /\ stale' \subseteq stale \cup {"pipe"}
  BY DEF Faulted, apiVars, cacheVars, queueVars, workVars

LEMMA FaultedTyped ==
    ASSUME Typed, Faulted
    PROVE  Typed'
<1> USE DEF Typed, TypeOK
<1>1. ObjectTypes'
  BY FaultedEffect DEF ObjectTypes, Children, Child
<1>2. CachesCurrent'
  BY FaultedEffect DEF CachesCurrent
<1>3. WorkerTypes'
  BY FaultedEffect DEF Faulted, WorkerTypes
<1>4. HoldsPipeline'
  BY FaultedEffect DEF HoldsPipeline
<1> QED
  BY <1>1, <1>2, <1>3, <1>4

LEMMA TypedHere == PropagationSpec => []Typed
<1>1. PropagationInit => Typed
  BY InitTyped DEF PropagationInit
<1>2. Typed /\ [PropagationNext]_allVars => Typed'
  BY KnownSteps, TypedStep, RefusedTyped, FaultedTyped
<1> QED
  BY <1>1, <1>2, PTL DEF PropagationSpec

\* What Reconcile knows of the object it works for.
Knows == FinalizerHolds /\ WorksOnCachedRevision /\ ControlState

LEMMA KnowsStep ==
    ASSUME Typed, Knows, [PropagationNext]_allVars
    PROVE  Knows'
<1>1. CASE [Next]_vars
  BY <1>1, FinalizerStep, RevisionStep DEF Knows
<1>2. CASE Refused
  BY <1>2, RefusedEffect DEF Knows, FinalizerHolds, WorksForExistingPipeline,
                             WorksOnCachedRevision, ControlState
<1>3. CASE Faulted
  BY <1>3, FaultedEffect DEF Knows, FinalizerHolds, WorksForExistingPipeline,
                             WorksOnCachedRevision, ControlState
<1> QED
  BY <1>1, <1>2, <1>3, KnownSteps

LEMMA KnowsHere == PropagationSpec => []Knows
<1>1. PropagationInit => Knows
  BY DEF PropagationInit, Init, Knows, FinalizerHolds, WorksForExistingPipeline,
         WorksOnCachedRevision, ControlState
<1>2. Typed /\ Knows /\ [PropagationNext]_allVars => Knows'
  BY KnowsStep
<1> QED
  BY <1>1, <1>2, TypedHere, PTL DEF PropagationSpec

(***************************************************************************)
(* No wake-up of the pipeline controller is lost next to the Defaults      *)
(* controller, its touches and the webhook's refusals: when the pipeline   *)
(* controller rests, children and status are the ones the pipeline calls   *)
(* for.                                                                    *)
(***************************************************************************)
THEOREM NoLostWakeupHere ==
    ASSUME NoDefaultCredentials
    PROVE  PropagationSpec => []QuietMeansConverged
<1>1. PropagationInit => Progress
  BY DEF PropagationInit, Init, Progress, Live
<1>2. Typed /\ Knows /\ Progress /\ [PropagationNext]_allVars => Progress'
  <2> SUFFICES ASSUME Typed, Knows, Progress, [PropagationNext]_allVars PROVE Progress'
    OBVIOUS
  <2>1. CASE [Next]_vars
    BY <2>1, OthersProgress, FaultProgress, WorkerProgress DEF Next, Knows
  <2>2. CASE Refused
    BY <2>2, FailProgress DEF Refused
  <2>3. CASE Faulted
    BY <2>3, FaultedEffect, NothingMoves, ProgressKept DEF Knows
  <2> QED
    BY <2>1, <2>2, <2>3, KnownSteps
<1>3. Typed /\ Knows /\ Progress => QuietMeansConverged
  BY QuietConverged DEF Knows, Typed, Reconciling
<1> QED
  BY <1>1, <1>2, <1>3, TypedHere, KnowsHere, PTL DEF PropagationSpec

-----------------------------------------------------------------------------
(***************************************************************************)
(* Types.  Each change of the Defaults adds one to the generation at most, *)
(* and whatever the caches and the annotation hold was a generation.       *)
(***************************************************************************)
Counted ==
    /\ changes \in 0 .. MaxDefaultsChanges
    /\ dgen \in 0 .. changes + 1 /\ cdgen \in 0 .. changes + 1
    /\ births \in 0 .. changes + 1
    /\ rev \in 0 .. changes + 1 /\ crev \in 0 .. changes + 1 /\ drev \in 0 .. changes + 1
    /\ ddirty \in BOOLEAN /\ dpc \in {"idle", "touch"}
    /\ (dgen = 0) = (defaults = None) /\ (cdgen = 0) = (cdefaults = None)

\* What the pipeline controller and its users do to the caches and the events.
PipelineEffect ==
    /\ UNCHANGED <<defaults, cpipe, cdefaults>>
    /\ "defaults" \in stale' <=> "defaults" \in stale
    /\ "pipe" \in stale => "pipe" \in stale'
    /\ pipe' # pipe => "pipe" \in stale'

LEMMA StoreEffect ==
    ASSUME \/ UNCHANGED <<apiVars, cacheVars, stale>>
           \/ \E p : StorePipe(p)
           \/ \E k \in Kinds : \E c : StoreChild(k, c)
           \/ \E k \in Kinds : \E c : ReplaceChild(k, c)
    PROVE  PipelineEffect
<1> USE DEF PipelineEffect, apiVars, cacheVars
<1>1. CASE UNCHANGED <<apiVars, cacheVars, stale>>
  BY <1>1
<1>2. CASE \E p : StorePipe(p)
  BY <1>2 DEF StorePipe
<1>3. CASE \E k \in Kinds : \E c : StoreChild(k, c)
  BY <1>3, KindNames DEF StoreChild
<1>4. CASE \E k \in Kinds : \E c : ReplaceChild(k, c)
  BY <1>4, KindNames DEF ReplaceChild
<1> QED
  BY <1>1, <1>2, <1>3, <1>4

LEMMA PipelineStepsEffect ==
    ASSUME Typed, PipelineSteps
    PROVE  /\ PipelineEffect
           /\ UNCHANGED <<dgen, births, changes, cdgen, crev, ddirty, dpc, drev>>
           /\ rev' = IF pipe' = None THEN 0 ELSE rev
<1>1. /\ UNCHANGED <<dgen, births, changes, cdgen, crev, ddirty, dpc, drev>>
      /\ rev' = IF pipe' = None THEN 0 ELSE rev
  BY DEF PipelineSteps, defaultsVars, dworkVars
<1>2. pc = "apply" => Kind \in Kinds
  BY KindNames DEF Kind, Typed, TypeOK, WorkerTypes
<1>3. CASE Worker
  <2>1. CASE RemoveFinalizer \/ AddFinalizer \/ PersistStatus
    <3>1. \E p : StorePipe(p)
      BY <2>1 DEF RemoveFinalizer, AddFinalizer, PersistStatus
    <3> QED
      BY <1>1, <3>1, StoreEffect
  <2>2. CASE WriteChild
    <3>1. pc = "apply" /\ StoreChild(Kind, Want(Kind))
      BY <2>2 DEF WriteChild
    <3> QED
      BY <1>1, <1>2, <3>1, StoreEffect
  <2>3. CASE \/ Begin \/ FinalizerConflict \/ Merge \/ CalculateScaling \/ GenerateConfigs
             \/ GenerateFails \/ SkipChild \/ RefusedChild \/ ComputeStatus \/ PersistFails
    <3>1. UNCHANGED <<apiVars, cacheVars, stale>>
      BY <2>3 DEF Begin, FinalizerConflict, Merge, CalculateScaling, GenerateConfigs,
                  GenerateFails, SkipChild, RefusedChild, ComputeStatus, PersistFails
    <3> QED
      BY <1>1, <3>1, StoreEffect
  <2> QED
    BY <1>3, <2>1, <2>2, <2>3 DEF Worker
<1>4. CASE TimerFires \/ CallFails
  <2>1. UNCHANGED <<apiVars, cacheVars, stale>>
    BY <1>4 DEF TimerFires, CallFails
  <2> QED
    BY <1>1, <2>1, StoreEffect
<1>5. CASE AnswerLost
  <2>1. (\E p : StorePipe(p)) \/ (pc = "apply" /\ StoreChild(Kind, Want(Kind)))
    BY <1>5 DEF AnswerLost
  <2> QED
    BY <1>1, <1>2, <2>1, StoreEffect
<1>6. CASE Collector
  <2>1. \E k \in Kinds : ReplaceChild(k, None)
    BY <1>6 DEF Collector, Collect
  <2> QED
    BY <1>1, <2>1, StoreEffect
<1>7. CASE \E k \in Kinds : DeliverChild(k)
  BY <1>1, <1>7, KindNames DEF DeliverChild, PipelineEffect, apiVars
<1>8. CASE CreatePipeline \/ DeletePipeline
  BY <1>1, <1>8 DEF CreatePipeline, DeletePipeline, PipelineEffect, cacheVars
<1> QED
  BY <1>3, <1>4, <1>5, <1>6, <1>7, <1>8 DEF PipelineSteps

\* What becomes of the Defaults, of their copies and of the Defaults worker.
LEMMA CountedStep ==
    ASSUME Typed, Counted, [PropagationNext]_allVars
    PROVE  Counted'
<1> USE DEF Counted
<1>1. CASE PipelineSteps
  BY <1>1, PipelineStepsEffect DEF PipelineEffect
<1>2. CASE DeliverPipeline
  BY <1>2 DEF DeliverPipeline, DeliverPipe, apiVars, defaultsVars, dworkVars
<1>3. CASE WebhookRefuses \/ UNCHANGED allVars
  BY <1>3 DEF WebhookRefuses, allVars, vars, apiVars, cacheVars, defaultsVars, revVars,
              dworkVars
<1>4. CASE RestartAll
  <2>1. ddirty' \in BOOLEAN
    BY <1>4, Zenon DEF RestartAll
  <2> QED
    BY <1>4, <2>1 DEF RestartAll, Restart, apiVars
<1>5. CASE BeginDefaults
  <2>1. ddirty' \in BOOLEAN /\ dpc' \in {"idle", "touch"}
    BY <1>5 DEF BeginDefaults
  <2> QED
    BY <1>5, <2>1 DEF BeginDefaults, vars, apiVars, cacheVars, defaultsVars, revVars
<1>6. CASE Touch \/ TouchFails \/ TouchError
  BY <1>6 DEF Touch, TouchFails, TouchError, Annotate, vars, apiVars, cacheVars, defaultsVars, revVars
<1>7. CASE WatchDefaults
  BY <1>7 DEF WatchDefaults, DeliverDefaults, apiVars, revVars
<1>8. CASE UserChangesDefaults
  <2>1. /\ changes' = changes + 1 /\ changes' \in 0 .. MaxDefaultsChanges
        /\ UNCHANGED <<cdgen, rev, crev, ddirty, dpc, drev, cdefaults>>
        /\ dgen' = IF defaults' = None THEN 0 ELSE dgen + 1
        /\ births' = IF defaults = None THEN births + 1 ELSE births
    BY <1>8, DefaultsBounds
    DEF UserChangesDefaults, ChangeDefaults, cacheVars, revVars, dworkVars
  <2> QED
    BY <2>1, DefaultsBounds
<1> QED
  BY <1>1, <1>2, <1>3, <1>4, <1>5, <1>6, <1>7, <1>8 DEF PropagationNext, DefaultsWorker

LEMMA CountedHere == PropagationSpec => []Counted
<1>1. PropagationInit => Counted
  <2> SUFFICES ASSUME PropagationInit PROVE Counted
    OBVIOUS
  <2>1. ddirty \in BOOLEAN
    BY Zenon DEF PropagationInit
  <2> QED
    BY <2>1, DefaultsBounds DEF PropagationInit, Init, Counted
<1>2. Typed /\ Counted /\ [PropagationNext]_allVars => Counted'
  BY CountedStep
<1> QED
  BY <1>1, <1>2, TypedHere, PTL DEF PropagationSpec

(***************************************************************************)
(* Type correctness of the composition: the generations in the cache, in   *)
(* the annotation and in the Defaults controller's hand are generations    *)
(* the Defaults may have had, and a Defaults object without a generation   *)
(* is one that does not exist.                                             *)
(***************************************************************************)
THEOREM PropagationTyped == PropagationSpec => []PropagationTypes
<1>1. Typed /\ Counted => PropagationTypes
  BY DefaultsBounds DEF Typed, Counted, PropagationTypes
<1> QED
  BY <1>1, TypedHere, CountedHere, PTL

-----------------------------------------------------------------------------
(***************************************************************************)
(* The order of the generations.                                           *)
(***************************************************************************)
LEMMA GenerationsStep ==
    ASSUME Typed, Counted, Generations, [PropagationNext]_allVars
    PROVE  Generations'
<1> USE DEF Counted, FirstDefaults
<1>1. CASE PipelineSteps
  <2>1. /\ UNCHANGED <<defaults, cdefaults, dgen, births, changes, cdgen, crev, ddirty,
                       dpc, drev>>
        /\ "defaults" \in stale' <=> "defaults" \in stale
        /\ "pipe" \in stale => "pipe" \in stale'
        /\ pipe' # pipe => "pipe" \in stale'
        /\ rev' = IF pipe' = None THEN 0 ELSE rev
    BY <1>1, PipelineStepsEffect DEF PipelineEffect
  <2>2. /\ pipe' = None => rev' = 0
        /\ "pipe" \notin stale' => crev' = rev'
    BY <2>1 DEF Generations
  <2>3. FirstDefaults => rev' <= cdgen
    BY <2>1 DEF Generations
  <2> QED
    BY <2>1, <2>2, <2>3 DEF Generations
<1>2. CASE DeliverPipeline
  BY <1>2 DEF DeliverPipeline, DeliverPipe, apiVars, defaultsVars, dworkVars, Generations
<1>3. CASE WebhookRefuses \/ UNCHANGED allVars
  BY <1>3 DEF WebhookRefuses, allVars, vars, apiVars, cacheVars, defaultsVars, revVars,
              dworkVars, Generations
<1>4. CASE RestartAll
  BY <1>4 DEF RestartAll, Restart, apiVars, Generations
<1>5. CASE BeginDefaults
  BY <1>5 DEF BeginDefaults, vars, apiVars, cacheVars, defaultsVars, revVars, Generations
<1>6. CASE Touch
  <2>1. pipe # None
    BY <1>6 DEF Touch, SeesLatest, Typed, CachesCurrent
  <2> QED
    BY <1>6, <2>1 DEF Touch, Annotate, apiVars, cacheVars, defaultsVars, Generations
<1>7. CASE TouchFails
  BY <1>7 DEF TouchFails, vars, apiVars, cacheVars, defaultsVars, revVars, Generations
<1>8. CASE WatchDefaults
  BY <1>8 DEF WatchDefaults, DeliverDefaults, apiVars, revVars, Generations
<1>9. CASE UserChangesDefaults
  <2>1. /\ defaults' # defaults /\ stale' = stale \cup {"defaults"}
        /\ UNCHANGED <<pipe, cdgen, rev, crev, ddirty, dpc, drev, cdefaults>>
        /\ dgen' = IF defaults' = None THEN 0 ELSE dgen + 1
        /\ births' = IF defaults = None THEN births + 1 ELSE births
    BY <1>9
    DEF UserChangesDefaults, ChangeDefaults, cacheVars, revVars, dworkVars
  <2>2. births' # 0
    BY <2>1 DEF Generations
  <2>3. FirstDefaults' => FirstDefaults /\ cdgen' < dgen'
    BY <2>1, <2>2 DEF Generations
  <2> QED
    BY <2>1, <2>2, <2>3 DEF Generations
<1>10. CASE TouchError
  <2>1. /\ dpc = "touch" /\ dpc' = "idle" /\ ddirty'
        /\ UNCHANGED <<pipe, defaults, cdefaults, dgen, births, cdgen, crev, drev>>
    BY <1>10 DEF TouchError, apiVars, cacheVars, defaultsVars
  <2>2. CASE UNCHANGED <<rev, stale>>
    BY <2>1, <2>2 DEF Generations
  <2>3. CASE SeesLatest /\ Annotate
    <3>1. pipe # None
      BY <2>3 DEF SeesLatest, Typed, CachesCurrent
    <3> QED
      BY <2>1, <2>3, <3>1 DEF Annotate, Generations
  <2> QED
    BY <1>10, <2>2, <2>3 DEF TouchError
<1> QED
  BY <1>1, <1>2, <1>3, <1>4, <1>5, <1>6, <1>7, <1>8, <1>9, <1>10
  DEF PropagationNext, DefaultsWorker

-----------------------------------------------------------------------------
(***************************************************************************)
(* Which Defaults the last reconcile has merged.                           *)
(***************************************************************************)

\* A step of Reconcile ends up past the merge by merging the Defaults in the
\* cache, or was past it and keeps what it has read.
LEMMA MergeEffect ==
    ASSUME Typed, Knows, PipelineSteps, MergedLast'
    PROVE  \/ read'.defaults = cdefaults
           \/ MergedLast /\ read'.defaults = read.defaults
<1>1. ~ dirty' /\ cpipe' = cpipe
  BY PipelineStepsEffect DEF MergedLast, PipelineEffect
<1>2. ~ Fail
  BY <1>1 DEF Fail
<1> USE DEF MergedLast
<1>3. CASE Begin
  BY <1>1, <1>3, BeginEffect DEF Live
<1>4. CASE RemoveFinalizer
  <2>1. pc' = "idle" /\ loc.pipe = cpipe /\ loc.pipe.deleting
    BY <1>4 DEF RemoveFinalizer, HoldsLatest, Knows, FinalizerHolds
  <2> QED
    BY <1>1, <2>1 DEF Live
<1>5. CASE AddFinalizer
  BY <1>5 DEF AddFinalizer
<1>6. CASE Merge
  BY <1>6 DEF Merge, Typed, TypeOK, WorkerTypes, Readings
<1>7. CASE CalculateScaling \/ GenerateConfigs
  BY <1>1, <1>7 DEF CalculateScaling, GenerateConfigs, queueVars, Typed, TypeOK, WorkerTypes,
                    Readings
<1>8. CASE pc = "apply" /\ (SkipChild \/ WriteChild \/ RefusedChild \/ CallFails \/ AnswerLost)
  BY <1>1, <1>2, <1>8
  DEF SkipChild, WriteChild, RefusedChild, CallFails, AnswerLost, ChildError, Advance,
      queueVars
<1>9. CASE ComputeStatus \/ PersistStatus
  BY <1>1, <1>9 DEF ComputeStatus, PersistStatus, queueVars
<1>10. CASE Collector \/ (\E k \in Kinds : DeliverChild(k)) \/ CreatePipeline \/ DeletePipeline
  <2>1. UNCHANGED <<pc, read>> /\ ~ dirty
    BY <1>1, <1>10, StepAside, UserPipeEffect DEF Collector, Aside
  <2> QED
    BY <1>1, <2>1
<1>11. ~ TimerFires
  BY <1>1 DEF TimerFires
<1> QED
  BY <1>2, <1>3, <1>4, <1>5, <1>6, <1>7, <1>8, <1>9, <1>10, <1>11
  DEF PipelineSteps, Worker, FinalizerConflict, GenerateFails, PersistFails, SkipChild,
      WriteChild, RefusedChild, CallFails, AnswerLost

LEMMA WakesStep ==
    ASSUME Typed, Knows, Counted, Generations, WakesPending, [PropagationNext]_allVars
    PROVE  WakesPending'
<1> SUFFICES ASSUME FirstDefaults', MergedLast'
             PROVE  /\ crev' = cdgen' => read'.defaults = cdefaults'
                    /\ \/ read'.defaults = cdefaults' \/ ddirty' \/ dpc' = "touch"
                       \/ "pipe" \in stale'
  BY DEF WakesPending
<1>1. ~ dirty'
  BY DEF MergedLast
<1> USE DEF Counted, FirstDefaults
<1>2. CASE PipelineSteps
  <2>1. /\ UNCHANGED <<dgen, births, cdefaults, cdgen, crev, ddirty, dpc>>
        /\ "pipe" \in stale => "pipe" \in stale'
    BY <1>2, PipelineStepsEffect DEF PipelineEffect
  <2> QED
    BY <1>2, <2>1, MergeEffect DEF WakesPending
<1>3. CASE DeliverPipeline \/ WebhookRefuses \/ RestartAll
  BY <1>1, <1>3 DEF DeliverPipeline, DeliverPipe, WebhookRefuses, Fail, RestartAll, Restart
<1>4. CASE DefaultsWorker \/ TouchError \/ UNCHANGED allVars
  <2>0. UNCHANGED <<dgen, births, pipe, cpipe, cdefaults, cdgen, crev, dirty, pc, read>>
    <3> USE DEF apiVars, cacheVars, defaultsVars, revVars, queueVars, workVars
    <3>1. CASE BeginDefaults \/ TouchFails \/ UNCHANGED allVars
      BY <3>1 DEF BeginDefaults, TouchFails, allVars, vars
    <3>2. CASE Touch
      BY <3>2 DEF Touch
    <3>3. CASE TouchError
      BY <3>3 DEF TouchError
    <3> QED
      BY <1>4, <3>1, <3>2, <3>3 DEF DefaultsWorker
  <2>1. /\ UNCHANGED <<dgen, births, pipe, cpipe, cdefaults, cdgen, crev, dirty, pc, read>>
        /\ FirstDefaults /\ MergedLast
    BY <2>0 DEF MergedLast, Live
  <2>2. crev = cdgen => read.defaults = cdefaults
    BY <2>1 DEF WakesPending
  <2>3. CASE BeginDefaults
    <3>1. dpc = "idle" /\ (cdgen # 0 /\ cpipe # None /\ crev # cdgen => dpc' = "touch")
      BY <2>3 DEF BeginDefaults
    <3>2. cdgen # 0
      BY <2>1, <2>3 DEF BeginDefaults, Generations
    <3>3. cpipe # None
      BY <2>1 DEF MergedLast, Live, Knows, WorksOnCachedRevision
    <3> QED
      BY <2>1, <2>2, <3>1, <3>2, <3>3
  <2>4. CASE Touch
    <3>1. /\ "pipe" \notin stale /\ crev = rev /\ ddirty' = ddirty
          /\ rev # drev => "pipe" \in stale'
      BY <2>4 DEF Touch, Annotate, SeesLatest, Generations
    <3>2. drev = cdgen \/ ddirty
      BY <2>1, <2>4 DEF Touch, Generations
    <3> QED
      BY <2>1, <2>2, <3>1, <3>2
  <2>5. CASE TouchFails \/ TouchError
    BY <2>1, <2>2, <2>5 DEF TouchFails, TouchError
  <2>6. CASE UNCHANGED allVars
    BY <2>1, <2>2, <2>6 DEF WakesPending, allVars, vars, dworkVars
  <2> QED
    BY <1>4, <2>3, <2>4, <2>5, <2>6 DEF DefaultsWorker
<1>5. CASE WatchDefaults
  <2>1. /\ cdefaults' = defaults /\ cdgen' = dgen /\ ddirty'
        /\ UNCHANGED <<dgen, births, cpipe, crev, dirty, pc, read>>
    BY <1>5 DEF WatchDefaults, DeliverDefaults, revVars, queueVars, workVars
  <2>2. FirstDefaults /\ MergedLast
    BY <2>1 DEF MergedLast, Live
  <2>3. crev' = cdgen' => crev = cdgen /\ cdefaults = defaults
    BY <2>1, <2>2 DEF Generations
  <2> QED
    BY <2>1, <2>2, <2>3 DEF WakesPending
<1>6. CASE UserChangesDefaults
  <2>1. /\ UNCHANGED <<cpipe, cdefaults, cdgen, crev, dirty, pc, read, ddirty, dpc>>
        /\ stale' = stale \cup {"defaults"}
        /\ dgen' = IF defaults' = None THEN 0 ELSE dgen + 1
        /\ births' = IF defaults = None THEN births + 1 ELSE births
    BY <1>6
    DEF UserChangesDefaults, ChangeDefaults, cacheVars, queueVars, workVars, revVars,
        dworkVars
  <2>2. FirstDefaults /\ MergedLast
    BY <2>1 DEF MergedLast, Live
  <2> QED
    BY <2>1, <2>2 DEF WakesPending
<1> QED
  BY <1>2, <1>3, <1>4, <1>5, <1>6 DEF PropagationNext

(***************************************************************************)
(* The inductive invariant of the propagation: of the first Defaults       *)
(* object, the generations in the cache and in the annotation only follow  *)
(* the stored one, and a reconcile that merged older Defaults is due to be *)
(* woken.                                                                  *)
(***************************************************************************)
THEOREM PropagatingAlways == PropagationSpec => []Propagating
<1>1. PropagationInit => Generations /\ WakesPending
  <2> SUFFICES ASSUME PropagationInit PROVE Generations /\ WakesPending
    OBVIOUS
  <2>1. ddirty => dgen # 0
    BY Zenon DEF PropagationInit
  <2>2. /\ dgen \in {0, 1} /\ births = dgen /\ cdgen = dgen /\ cdefaults = defaults
        /\ rev = 0 /\ crev = 0 /\ drev = 0 /\ dpc = "idle" /\ stale = {}
    BY DEF PropagationInit, Init
  <2>3. Generations
    BY <2>1, <2>2 DEF Generations, FirstDefaults
  <2>4. WakesPending
    BY DEF PropagationInit, Init, WakesPending, MergedLast, Live
  <2> QED
    BY <2>3, <2>4
<1>2. Typed /\ Knows /\ Counted /\ Generations /\ WakesPending /\ [PropagationNext]_allVars
      => Generations' /\ WakesPending'
  BY GenerationsStep, WakesStep
<1>3. Generations /\ WakesPending => Propagating
  BY DEF Propagating
<1> QED
  BY <1>1, <1>2, <1>3, TypedHere, KnowsHere, CountedHere, PTL DEF PropagationSpec

(***************************************************************************)
(* Changes of the Defaults reach the pipeline, for every number of changes *)
(* and failures and whatever order edits, touches, refusals, restarts and  *)
(* reconciles come in.                                                     *)
(***************************************************************************)
THEOREM DefaultsReachPipelines == PropagationSpec => []QuietMeansPropagated
<1>1. Typed /\ Counted /\ Propagating => QuietMeansPropagated
  <2> SUFFICES ASSUME Typed, Counted, Propagating, AllQuiet, Reconciled,
                      defaults # None, births = 1
               PROVE  read.defaults = defaults
    BY DEF QuietMeansPropagated
  <2>1. cdefaults = defaults /\ FirstDefaults
    BY DEF Propagating, Generations, AllQuiet, FirstDefaults, Counted
  <2>2. MergedLast
    BY DEF AllQuiet, Quiet, Reconciled, MergedLast, Live, Typed, CachesCurrent
  <2> QED
    BY <2>1, <2>2 DEF Propagating, WakesPending, AllQuiet
<1> QED
  BY <1>1, PropagatingAlways, TypedHere, CountedHere, PTL
=============================================================================

---------------------------- MODULE PipelineTyping ----------------------------
(***************************************************************************)
(* Type correctness of the pipeline controller; how its steps move the     *)
(* pipeline object, the worker and the queue entry; and that it works for  *)
(* an existing pipeline only.                                              *)
(***************************************************************************)
EXTENDS PipelineInvariant, ScalingLemmas

LEMMA KindNames ==
    /\ Kinds = {"pipelines", "config", "deployment", "service", "headless", "hpa",
                "pdb", "monitor"}
    /\ \A i \in Steps : KindAt[i] \in Kinds
  BY DEF Kinds, KindAt, Steps

\* MergeSpec leaves the fields alone that a Defaults object does not have.
LEMMA MergeKeeps ==
    ASSUME NEW d, NEW spec \in Specs
    PROVE  /\ MergeSpec(d, spec).scaling = spec.scaling
           /\ MergeSpec(d, spec).sources = spec.sources
           /\ MergeSpec(d, spec).otherRefs = spec.otherRefs
           /\ MergeSpec(d, spec).opensearch = spec.opensearch
  BY SpecsTyped DEF MergeSpec

LEMMA NoStatusTyped == NoStatus \in Statuses
  BY DEF NoStatus, Statuses

LEMMA PhaseTyped ==
    ASSUME NEW failed \in BOOLEAN, NEW count
    PROVE  PhaseOf(failed, count) \in {"", "Pending", "Running", "Degraded", "Error"}
<1>1. CASE failed
  BY <1>1, Zenon DEF PhaseOf
<1>2. CASE ~ failed /\ count.replicas = 0
  BY <1>2, Zenon DEF PhaseOf
<1>3. CASE ~ failed /\ count.replicas # 0 /\ count.ready = 0
  BY <1>3, Zenon DEF PhaseOf
<1>4. CASE ~ failed /\ count.replicas # 0 /\ count.ready # 0
  <2>1. PhaseOf(failed, count) =
          IF count.ready < count.replicas THEN "Degraded" ELSE "Running"
    BY <1>4, Zenon DEF PhaseOf
  <2> QED
    BY <2>1
<1> QED
  BY <1>1, <1>2, <1>3, <1>4
-----------------------------------------------------------------------------
(***************************************************************************)
(* Reconcile, one step at a time.                                          *)
(***************************************************************************)
LEMMA FailTyped ==
    ASSUME WorkerTypes, Fail, faults' \in 0 .. MaxFaults
    PROVE  WorkerTypes'
<1>1. loc' \in Locals /\ read' \in Readings
  BY NoStatusTyped DEF Fail, NoLocals, NothingRead, Locals, Readings
<1>2. pc' \in PipelinePCs /\ pc' # "apply" /\ step' \in 1 .. 9
  BY DEF Fail, PipelinePCs
<1>3. dirty' \in BOOLEAN /\ requeue' \in BOOLEAN
  BY Zenon DEF Fail, WorkerTypes
<1> QED
  BY <1>1, <1>2, <1>3 DEF WorkerTypes

LEMMA AdvanceTyped ==
    ASSUME WorkerTypes, Advance, pc = "apply", faults' \in 0 .. MaxFaults
    PROVE  WorkerTypes'
  BY DEF WorkerTypes, Advance, Steps, queueVars, PipelinePCs

LEMMA ChildErrorTyped ==
    ASSUME WorkerTypes, ChildError, pc = "apply", faults' \in 0 .. MaxFaults
    PROVE  WorkerTypes'
<1>1. Advance \/ Fail
  BY DEF ChildError
<1> QED
  BY <1>1, AdvanceTyped, FailTyped

LEMMA BeginTyped ==
    ASSUME TypeOK, Begin
    PROVE  WorkerTypes'
<1>1. pc' \in {"idle", "unfinalize", "merge", "finalize"}
  <2>1. CASE cpipe = None
    BY <2>1, Zenon DEF Begin
  <2>2. CASE cpipe # None /\ cpipe.deleting
    <3>1. pc' = IF cpipe.finalizer THEN "unfinalize" ELSE "idle"
      BY <2>2, Zenon DEF Begin
    <3> QED
      BY <3>1
  <2>3. CASE cpipe # None /\ ~ cpipe.deleting
    <3>1. pc' = IF cpipe.finalizer THEN "merge" ELSE "finalize"
      BY <2>3, Zenon DEF Begin
    <3> QED
      BY <3>1
  <2> QED
    BY <2>1, <2>2, <2>3
<1>2. pc' # "idle" => cpipe # None
  BY Zenon DEF Begin
<1>3. /\ loc' = IF pc' = "idle" THEN NoLocals
                ELSE [pipe |-> cpipe, status |-> cpipe.status, failed |-> FALSE]
      /\ read' = NothingRead /\ step' = 1 /\ faults' = faults
  BY Zenon DEF Begin
<1>4. loc' \in Locals
  <2>1. CASE pc' = "idle"
    BY <1>3, <2>1, NoStatusTyped DEF NoLocals, Locals
  <2>2. CASE pc' # "idle"
    <3>1. cpipe \in Pipelines
      BY <1>2, <2>2 DEF TypeOK, ObjectTypes
    <3> QED
      BY <1>3, <2>2, <3>1 DEF Pipelines, Locals
  <2> QED
    BY <2>1, <2>2
<1>5. read' \in Readings /\ step' \in 1 .. 9
  BY <1>3 DEF NothingRead, Readings
<1>6. pc' \in PipelinePCs /\ pc' # "apply"
  BY <1>1 DEF PipelinePCs
<1>7. dirty' \in BOOLEAN /\ requeue' \in BOOLEAN
  BY Zenon DEF Begin
<1> QED
  BY <1>3, <1>4, <1>5, <1>6, <1>7 DEF WorkerTypes, TypeOK

\* A pipeline Reconcile holds has a spec.
LEMMA HeldSpec ==
    ASSUME loc \in Locals, loc.pipe # None
    PROVE  loc.pipe \in Pipelines /\ loc.pipe.spec \in Specs /\ loc.status \in Statuses
  BY DEF Locals, Pipelines

LEMMA MergeTyped ==
    ASSUME WorkerTypes, Merge, cdefaults \in DefaultsSpecs \cup {None}
    PROVE  WorkerTypes'
<1>1. read' \in Readings
  BY DEF Merge, WorkerTypes, Readings
<1>2. loc' \in Locals
  BY DEF Merge, WorkerTypes, Locals, Statuses
<1>3. pc' \in {"scale", "status"} /\ UNCHANGED <<dirty, requeue, step, faults>>
  BY DEF Merge, queueVars
<1> QED
  BY <1>1, <1>2, <1>3 DEF WorkerTypes, PipelinePCs

\* The consumer count of the status.
LEMMA ConsumersTyped ==
    ASSUME NEW in \in AllInputs, AsksKafka(Merged(in).scaling, Merged(in).sources),
           Scale(in).ok
    PROVE  in.partitions \in Nat /\ Scale(in).replicas * Scale(in).workers \in Int
<1> DEFINE b == scalingBounds(Merged(in).scaling)
           d == CalculateKafka(in.partitions, b.max, b.min)
<1>1. Merged(in).scaling \in ScalingSpec \cup {None}
  BY MergeKeeps, SpecsTyped DEF AllInputs, Merged
<1>2. in.partitions \in Nat \cup {None}
  BY CountsAreNumbers DEF AllInputs
<1>3. in.partitions \in Positive /\ Scale(in) = Decision(d, FALSE)
  BY <1>1, <1>2, KafkaDecision, Zenon DEF Scale
<1>4. b.min \in Positive /\ b.max \in Positive
  BY <1>1, BoundsPositive
<1>5. d.replicas \in Positive /\ d.workers \in Positive
  BY <1>3, <1>4, KafkaResult, Zenon
<1>6. Scale(in).replicas = d.replicas /\ Scale(in).workers = d.workers
  BY <1>3 DEF Decision
<1>7. \A m, n \in Positive : m * n \in Int
  BY DEF Positive
<1> HIDE DEF b, d
<1> QED
  BY <1>3, <1>5, <1>6, <1>7 DEF Positive

\* The three status fields of the scaling step.
LEMMA ScalingStatusTyped ==
    ASSUME NEW l \in Locals, NEW a \in {"Unknown", "True", "False"},
           NEW b \in {"Unknown", "True", "False"},
           NEW c \in [partitions : Nat, consumers : Int] \cup {None}
    PROVE  [l EXCEPT !.status.scalingReady = a, !.status.peerForwarder = b,
                     !.status.kafka = c] \in Locals
<1> DEFINE st == [l.status EXCEPT !.scalingReady = a, !.peerForwarder = b, !.kafka = c]
<1>1. st \in Statuses
  BY DEF Locals, Statuses
<1>2. [l EXCEPT !.status.scalingReady = a, !.status.peerForwarder = b,
                !.status.kafka = c] = [l EXCEPT !.status = st]
  BY DEF Locals
<1> HIDE DEF st
<1> QED
  BY <1>1, <1>2 DEF Locals

LEMMA CalculateScalingTyped ==
    ASSUME TypeOK, HoldsPipeline, CalculateScaling
    PROVE  WorkerTypes'
<1> DEFINE spec == MergeSpec(read.defaults, loc.pipe.spec)
           in   == [Inputs(loc.pipe.spec) EXCEPT !.partitions = AskKafka(spec)]
<1>1. pc = "scale" /\ loc.pipe # None /\ loc \in Locals /\ read \in Readings
  BY DEF CalculateScaling, HoldsPipeline, TypeOK, WorkerTypes
<1>2. loc.pipe.spec \in Specs
  BY <1>1, HeldSpec
<1>3. AskKafka(spec) \in PartitionCounts \cup {None}
  BY DEF AskKafka, TypeOK, ObjectTypes
<1>4. /\ in = [spec |-> loc.pipe.spec, defaults |-> read.defaults,
              partitions |-> AskKafka(spec), secrets |-> read.secrets]
      /\ in \in AllInputs /\ Merged(in) = spec
  BY <1>1, <1>2, <1>3 DEF Inputs, Readings, AllInputs, Merged
<1>5. read' = [read EXCEPT !.partitions = in.partitions]
  BY Zenon DEF CalculateScaling
<1>6. read' \in Readings
  BY <1>1, <1>3, <1>4, <1>5 DEF Readings
<1>7. \E kafka :
        /\ kafka \in [partitions : Nat, consumers : Int] \cup {None}
        /\ loc' = [loc EXCEPT
             !.status.scalingReady  = IF Scale(in).ok THEN "True" ELSE "False",
             !.status.peerForwarder = IF needsPeerForwarder(in) THEN "True" ELSE "False",
             !.status.kafka = kafka]
  <2> DEFINE asks == AsksKafka(spec.scaling, spec.sources) /\ Scale(in).ok
             kafka == IF asks
                      THEN [partitions |-> in.partitions,
                            consumers  |-> Scale(in).replicas * Scale(in).workers]
                      ELSE loc.status.kafka
  <2>1. kafka \in [partitions : Nat, consumers : Int] \cup {None}
    <3>1. CASE asks
      <4>1. in.partitions \in Nat /\ Scale(in).replicas * Scale(in).workers \in Int
        BY <1>4, <3>1, ConsumersTyped
      <4> QED
        BY <3>1, <4>1, Zenon
    <3>2. CASE ~ asks
      BY <1>1, <3>2 DEF Locals, Statuses
    <3> QED
      BY <3>1, <3>2
  <2>2. loc' = [loc EXCEPT
             !.status.scalingReady  = IF Scale(in).ok THEN "True" ELSE "False",
             !.status.peerForwarder = IF needsPeerForwarder(in) THEN "True" ELSE "False",
             !.status.kafka = kafka]
    BY DEF CalculateScaling
  <2> QED
    BY <2>1, <2>2
<1>8. loc' \in Locals
  <2> DEFINE a == IF Scale(in).ok THEN "True" ELSE "False"
             b == IF needsPeerForwarder(in) THEN "True" ELSE "False"
  <2> HIDE DEF in, spec
  <2>1. a \in {"Unknown", "True", "False"} /\ b \in {"Unknown", "True", "False"}
    OBVIOUS
  <2>2. PICK kafka \in [partitions : Nat, consumers : Int] \cup {None} :
          loc' = [loc EXCEPT !.status.scalingReady = a, !.status.peerForwarder = b,
                             !.status.kafka = kafka]
    BY <1>7, Zenon
  <2> HIDE DEF a, b
  <2> QED
    BY <1>1, <2>1, <2>2, ScalingStatusTyped, Zenon
<1>9. pc' = "generate" /\ UNCHANGED <<dirty, requeue, step, faults>>
  BY DEF CalculateScaling, queueVars
<1> QED
  BY <1>6, <1>8, <1>9 DEF TypeOK, WorkerTypes, PipelinePCs

LEMMA GenerateConfigsTyped ==
    ASSUME TypeOK, GenerateConfigs, step = 1
    PROVE  WorkerTypes'
<1>1. read' \in Readings
  BY DEF GenerateConfigs, TypeOK, ObjectTypes, WorkerTypes, Readings, Referenced
<1>2. pc' = "apply" /\ UNCHANGED <<dirty, requeue, step, loc, faults>>
  BY DEF GenerateConfigs, queueVars
<1> QED
  BY <1>1, <1>2 DEF TypeOK, WorkerTypes, PipelinePCs, Steps

\* The four status fields updateStatus computes.
LEMMA CountsTyped ==
    ASSUME NEW l \in Locals, NEW a \in Nat, NEW b \in Nat, NEW c \in Nat,
           NEW d \in {"", "Pending", "Running", "Degraded", "Error"}
    PROVE  [l EXCEPT !.status.observed = a, !.status.replicas = b,
                     !.status.ready = c, !.status.phase = d] \in Locals
<1> DEFINE st == [l.status EXCEPT !.observed = a, !.replicas = b, !.ready = c,
                                  !.phase = d]
<1>1. st \in Statuses
  BY DEF Locals, Statuses
<1>2. [l EXCEPT !.status.observed = a, !.status.replicas = b,
                !.status.ready = c, !.status.phase = d] = [l EXCEPT !.status = st]
  BY DEF Locals
<1> HIDE DEF st
<1> QED
  BY <1>1, <1>2 DEF Locals

LEMMA ComputeStatusTyped ==
    ASSUME TypeOK, HoldsPipeline, ComputeStatus
    PROVE  WorkerTypes'
<1>1. pc = "status" /\ loc.pipe # None /\ loc \in Locals
  BY DEF ComputeStatus, HoldsPipeline, TypeOK, WorkerTypes
<1>2. loc.pipe.generation \in Nat /\ loc.pipe.status \in Statuses
  BY <1>1, HeldSpec DEF Pipelines
<1>3. SeenPods.replicas \in Nat /\ SeenPods.ready \in Nat
  <2>1. cpods \in [replicas : Nat, ready : Nat]
    BY CountsAreNumbers DEF TypeOK, ObjectTypes, NoPods
  <2> QED
    BY <1>2, <2>1 DEF SeenPods, Statuses
<1>4. loc.failed \in BOOLEAN
  BY <1>1 DEF Locals
<1>5. PhaseOf(loc.failed, SeenPods) \in {"", "Pending", "Running", "Degraded", "Error"}
  BY <1>4, PhaseTyped
<1>6. loc' \in Locals
  BY <1>1, <1>2, <1>3, <1>5, CountsTyped, Zenon DEF ComputeStatus
<1>7. pc' = "persist" /\ UNCHANGED <<dirty, requeue, step, read, faults>>
  BY DEF ComputeStatus, queueVars
<1> QED
  BY <1>6, <1>7 DEF TypeOK, WorkerTypes, PipelinePCs

-----------------------------------------------------------------------------
(***************************************************************************)
(* Writes to the API server, by whomever.                                  *)
(***************************************************************************)
LEMMA StorePipeTyped ==
    ASSUME ObjectTypes, CachesCurrent, NEW p \in Pipelines \cup {None}, StorePipe(p)
    PROVE  ObjectTypes' /\ CachesCurrent'
<1>1. /\ pipe' = p /\ stale \subseteq stale'
      /\ p # pipe => "pipe" \in stale'
      /\ stale' \subseteq Kinds \cup Secrets \cup {"pipe", "defaults"}
      /\ UNCHANGED <<uids, kids, pods, secrets, defaults, topic, cpipe, ckids, cpods,
                     csecrets, cdefaults>>
  BY DEF StorePipe, cacheVars, ObjectTypes
<1>2. ObjectTypes'
  BY <1>1 DEF ObjectTypes, Children, Child
<1>3. CachesCurrent'
  BY <1>1 DEF CachesCurrent
<1> QED
  BY <1>2, <1>3

\* One child is replaced, and its event is on its way if it changed.
LEMMA ChildrenUpdated ==
    ASSUME NEW f, Children(f), NEW k \in Kinds, NEW c, Child(c)
    PROVE  Children([f EXCEPT ![k] = c])
  BY DEF Children, Child

LEMMA StoreChildTyped ==
    ASSUME ObjectTypes, CachesCurrent, NEW k \in Kinds, NEW c, Child(c),
           StoreChild(k, c)
    PROVE  ObjectTypes' /\ CachesCurrent'
<1>1. /\ kids' = [kids EXCEPT ![k] = c] /\ stale \subseteq stale'
      /\ c # kids[k] => k \in stale'
      /\ stale' \subseteq Kinds \cup Secrets \cup {"pipe", "defaults"}
      /\ UNCHANGED <<pipe, uids, pods, secrets, defaults, topic, cpipe, ckids, cpods,
                     csecrets, cdefaults>>
  BY DEF StoreChild, cacheVars, ObjectTypes
<1>2. Children(kids') /\ Children(ckids')
  BY <1>1, ChildrenUpdated DEF ObjectTypes
<1>3. ObjectTypes'
  BY <1>1, <1>2 DEF ObjectTypes
<1>4. CachesCurrent'
  BY <1>1 DEF CachesCurrent, ObjectTypes, Children
<1> QED
  BY <1>3, <1>4

LEMMA ReplaceChildTyped ==
    ASSUME ObjectTypes, CachesCurrent, NEW k \in Kinds, NEW c, Child(c),
           ReplaceChild(k, c)
    PROVE  ObjectTypes' /\ CachesCurrent'
<1>1. /\ kids' = [kids EXCEPT ![k] = c] /\ stale' = stale \cup {k}
      /\ stale' \subseteq Kinds \cup Secrets \cup {"pipe", "defaults"}
      /\ pods' \in {pods, NoPods}
      /\ k # "deployment" => pods' = pods
      /\ UNCHANGED <<pipe, uids, secrets, defaults, topic, cpipe, ckids, cpods,
                     csecrets, cdefaults>>
  BY DEF ReplaceChild, cacheVars, ObjectTypes
<1>2. Children(kids') /\ Children(ckids')
  BY <1>1, ChildrenUpdated DEF ObjectTypes
<1>3. ObjectTypes'
  BY <1>1, <1>2 DEF ObjectTypes
<1>4. CachesCurrent'
  BY <1>1 DEF CachesCurrent, ObjectTypes, Children
<1> QED
  BY <1>3, <1>4

\* What a reconcile writes is a child of the pipeline it holds.
LEMMA WantTyped ==
    ASSUME loc \in Locals, loc.pipe # None, NEW k
    PROVE  Child(Want(k))
<1>1. loc.pipe.uid \in Nat
  BY HeldSpec DEF Pipelines
<1> QED
  BY <1>1 DEF Want, Object, Child

-----------------------------------------------------------------------------
(***************************************************************************)
(* Every action.                                                           *)
(***************************************************************************)
Typed == TypeOK /\ CachesCurrent /\ HoldsPipeline

LEMMA ObjectsUntouched ==
    ASSUME ObjectTypes, CachesCurrent, UNCHANGED <<apiVars, cacheVars, stale>>
    PROVE  ObjectTypes' /\ CachesCurrent'
<1>1. UNCHANGED <<pipe, uids, kids, pods, secrets, defaults, topic, cpipe, ckids,
                  cpods, csecrets, cdefaults, stale>>
  BY DEF apiVars, cacheVars
<1>2. ObjectTypes'
  BY <1>1 DEF ObjectTypes, Children, Child
<1>3. CachesCurrent'
  BY <1>1 DEF CachesCurrent
<1> QED
  BY <1>2, <1>3

LEMMA WorkerUntouched ==
    ASSUME WorkerTypes, HoldsPipeline, UNCHANGED <<workVars, faults>>,
           dirty' \in BOOLEAN, requeue' \in BOOLEAN
    PROVE  WorkerTypes' /\ HoldsPipeline'
  BY DEF WorkerTypes, HoldsPipeline, workVars

\* Reconcile's own steps.
LEMMA WorkerStepTyped == Typed /\ Worker => Typed'
<1> SUFFICES ASSUME Typed, Worker PROVE Typed'
  OBVIOUS
<1> USE DEF Typed, TypeOK
<1>1. CASE Begin
  <2>1. WorkerTypes'
    BY <1>1, BeginTyped
  <2>2. HoldsPipeline'
    <3>1. step' = 1 /\ (pc' # "idle" => cpipe # None /\ loc'.pipe = cpipe)
      BY <1>1, Zenon DEF Begin
    <3> QED
      BY <3>1 DEF HoldsPipeline
  <2>3. UNCHANGED <<apiVars, cacheVars, stale>>
    BY <1>1 DEF Begin
  <2> QED
    BY <2>1, <2>2, <2>3, ObjectsUntouched
<1>2. CASE RemoveFinalizer
  <2>1. ObjectTypes' /\ CachesCurrent'
    BY <1>2, StorePipeTyped DEF RemoveFinalizer
  <2>2. pc' = "idle" /\ loc' = NoLocals /\ UNCHANGED <<dirty, requeue, step, read, faults>>
    BY <1>2 DEF RemoveFinalizer, queueVars
  <2>3. WorkerTypes' /\ HoldsPipeline'
    BY <2>2, NoStatusTyped
    DEF WorkerTypes, HoldsPipeline, PipelinePCs, NoLocals, Locals
  <2> QED
    BY <2>1, <2>3
<1>3. CASE AddFinalizer
  <2>1. pipe \in Pipelines
    BY <1>3 DEF AddFinalizer, HoldsLatest, HoldsPipeline, CachesCurrent, ObjectTypes
  <2>2. [pipe EXCEPT !.finalizer = TRUE] \in Pipelines
    BY <2>1 DEF Pipelines
  <2>3. ObjectTypes' /\ CachesCurrent'
    BY <1>3, <2>2, StorePipeTyped DEF AddFinalizer
  <2>4. /\ pc' = "merge" /\ pc = "finalize"
        /\ loc' = [loc EXCEPT !.pipe = [pipe EXCEPT !.finalizer = TRUE]]
        /\ UNCHANGED <<dirty, requeue, step, read, faults>>
    BY <1>3 DEF AddFinalizer, StorePipe, queueVars
  <2>5. loc' \in Locals /\ loc'.pipe # None
    BY <2>2, <2>4, NoneIsNothing DEF WorkerTypes, Locals
  <2>6. WorkerTypes' /\ HoldsPipeline'
    BY <2>4, <2>5 DEF WorkerTypes, HoldsPipeline, PipelinePCs
  <2> QED
    BY <2>3, <2>6
<1>4. CASE FinalizerConflict \/ GenerateFails \/ PersistFails
  <2>1. Fail /\ UNCHANGED <<apiVars, cacheVars, stale>> /\ faults' = faults
    BY <1>4 DEF FinalizerConflict, GenerateFails, PersistFails
  <2>2. pc' = "idle"
    BY <2>1 DEF Fail
  <2> QED
    BY <2>1, <2>2, FailTyped, ObjectsUntouched DEF WorkerTypes, HoldsPipeline
<1>5. CASE Merge
  <2>1. WorkerTypes'
    BY <1>5, MergeTyped DEF ObjectTypes
  <2>2. /\ UNCHANGED <<apiVars, cacheVars, stale>>
        /\ step' = step /\ pc = "merge" /\ pc' # "idle" /\ loc'.pipe = loc.pipe
    BY <1>5 DEF Merge, WorkerTypes, Locals
  <2> QED
    BY <2>1, <2>2, ObjectsUntouched DEF HoldsPipeline
<1>6. CASE CalculateScaling
  <2>1. WorkerTypes'
    BY <1>6, CalculateScalingTyped
  <2>2. UNCHANGED <<apiVars, cacheVars, stale>> /\ step' = step /\ pc = "scale"
    BY <1>6 DEF CalculateScaling
  <2>3. loc'.pipe = loc.pipe
    BY <1>6 DEF CalculateScaling, WorkerTypes, Locals
  <2> QED
    BY <2>1, <2>2, <2>3, ObjectsUntouched DEF HoldsPipeline
<1>7. CASE GenerateConfigs
  <2>1. step = 1
    BY <1>7 DEF GenerateConfigs, HoldsPipeline
  <2>2. /\ UNCHANGED <<apiVars, cacheVars, stale>>
        /\ step' = step /\ pc = "generate" /\ loc' = loc
    BY <1>7 DEF GenerateConfigs
  <2> QED
    BY <1>7, <2>1, <2>2, GenerateConfigsTyped, ObjectsUntouched DEF HoldsPipeline
<1>8. CASE SkipChild
  <2>1. Advance /\ pc = "apply" /\ UNCHANGED <<apiVars, cacheVars, stale, faults>>
    BY <1>8 DEF SkipChild
  <2>2. HoldsPipeline'
    BY <2>1 DEF Advance, HoldsPipeline
  <2> QED
    BY <2>1, <2>2, AdvanceTyped, ObjectsUntouched DEF WorkerTypes
<1>9. CASE WriteChild
  <2>1. /\ Advance /\ pc = "apply" /\ StoreChild(Kind, Want(Kind))
        /\ faults' = faults /\ loc.pipe # None /\ loc \in Locals
    BY <1>9 DEF WriteChild, HoldsPipeline, WorkerTypes
  <2>2. Kind \in Kinds
    BY <2>1, KindNames DEF Kind, WorkerTypes
  <2>3. HoldsPipeline'
    BY <2>1 DEF Advance, HoldsPipeline
  <2> QED
    BY <2>1, <2>2, <2>3, AdvanceTyped, StoreChildTyped, WantTyped DEF WorkerTypes
<1>10. CASE RefusedChild
  <2>1. ChildError /\ pc = "apply" /\ UNCHANGED <<apiVars, cacheVars, stale, faults>>
    BY <1>10 DEF RefusedChild
  <2>2. HoldsPipeline'
    BY <2>1 DEF ChildError, Advance, Fail, HoldsPipeline
  <2> QED
    BY <2>1, <2>2, ChildErrorTyped, ObjectsUntouched DEF WorkerTypes
<1>11. CASE ComputeStatus
  <2>1. /\ UNCHANGED <<apiVars, cacheVars, stale>>
        /\ pc = "status" /\ pc' = "persist"
    BY <1>11 DEF ComputeStatus
  <2>2. loc'.pipe = loc.pipe
    BY <1>11 DEF ComputeStatus, WorkerTypes, Locals
  <2> QED
    BY <1>11, <2>1, <2>2, ComputeStatusTyped, ObjectsUntouched DEF HoldsPipeline
<1>12. CASE PersistStatus
  <2>1. pipe \in Pipelines /\ loc.status \in Statuses
    BY <1>12 DEF PersistStatus, SeesLatest, CachesCurrent, ObjectTypes, WorkerTypes, Locals
  <2>2. [pipe EXCEPT !.status = loc.status] \in Pipelines
    BY <2>1 DEF Pipelines
  <2>3. ObjectTypes' /\ CachesCurrent'
    BY <1>12, <2>2, StorePipeTyped DEF PersistStatus
  <2>4. requeue' \in BOOLEAN
    BY <1>12 DEF PersistStatus
  <2>5. /\ pc' = "idle" /\ step' = 1 /\ loc' = NoLocals
        /\ UNCHANGED <<dirty, read, faults>>
    BY <1>12 DEF PersistStatus
  <2>6. WorkerTypes' /\ HoldsPipeline'
    BY <2>4, <2>5, NoStatusTyped
    DEF WorkerTypes, HoldsPipeline, PipelinePCs, NoLocals, Locals
  <2> QED
    BY <2>3, <2>6
<1> QED
  BY <1>1, <1>2, <1>3, <1>4, <1>5, <1>6, <1>7, <1>8, <1>9, <1>10, <1>11, <1>12
  DEF Worker

\* Failures around the operator.
LEMMA FaultTyped == Typed /\ (CallFails \/ AnswerLost \/ Restart) => Typed'
<1> SUFFICES ASSUME Typed, CallFails \/ AnswerLost \/ Restart PROVE Typed'
  OBVIOUS
<1> USE DEF Typed, TypeOK
<1>0. faults' \in 0 .. MaxFaults
  BY Bounds DEF CallFails, AnswerLost, Restart, WorkerTypes
<1>1. CASE CallFails
  <2>1. UNCHANGED <<apiVars, cacheVars, stale>> /\ (Fail \/ (pc = "apply" /\ ChildError))
    BY <1>1 DEF CallFails
  <2>2. WorkerTypes'
    BY <1>0, <2>1, FailTyped, ChildErrorTyped
  <2>3. HoldsPipeline'
    BY <2>1 DEF ChildError, Advance, Fail, HoldsPipeline
  <2> QED
    BY <2>1, <2>2, <2>3, ObjectsUntouched
<1>2. CASE AnswerLost
  <2>1. CASE \E p \in Pipelines \cup {None} : StorePipe(p) /\ Fail
    <3>1. pc' = "idle"
      BY <2>1 DEF Fail
    <3>2. ObjectTypes' /\ CachesCurrent'
      BY <2>1, StorePipeTyped
    <3> QED
      BY <1>0, <2>1, <3>1, <3>2, FailTyped DEF HoldsPipeline
  <2>2. CASE pc = "apply" /\ StoreChild(Kind, Want(Kind)) /\ ChildError
    <3>1. loc.pipe # None /\ loc \in Locals /\ Kind \in Kinds
      BY <2>2, KindNames DEF HoldsPipeline, WorkerTypes, Kind
    <3>2. ObjectTypes' /\ CachesCurrent'
      BY <2>2, <3>1, WantTyped, StoreChildTyped
    <3>3. HoldsPipeline'
      BY <2>2 DEF ChildError, Advance, Fail, HoldsPipeline
    <3> QED
      BY <1>0, <2>2, <3>2, <3>3, ChildErrorTyped
  <2>3. CASE pc = "unfinalize" /\ HoldsLatest /\ StorePipe(None) /\ Fail
    BY <2>1, <2>3
  <2>4. CASE /\ pc = "finalize" /\ HoldsLatest
             /\ StorePipe([pipe EXCEPT !.finalizer = TRUE]) /\ Fail
    <3>1. pipe \in Pipelines
      BY <2>4 DEF HoldsLatest, HoldsPipeline, CachesCurrent, ObjectTypes
    <3>2. [pipe EXCEPT !.finalizer = TRUE] \in Pipelines
      BY <3>1 DEF Pipelines
    <3> QED
      BY <2>1, <2>4, <3>2
  <2>5. CASE /\ pc = "persist" /\ SeesLatest
             /\ StorePipe([pipe EXCEPT !.status = loc.status]) /\ Fail
    <3>1. pipe \in Pipelines /\ loc.status \in Statuses
      BY <2>5 DEF SeesLatest, CachesCurrent, ObjectTypes, WorkerTypes, Locals
    <3>2. [pipe EXCEPT !.status = loc.status] \in Pipelines
      BY <3>1 DEF Pipelines
    <3> QED
      BY <2>1, <2>5, <3>2
  <2> QED
    BY <1>2, <2>2, <2>3, <2>4, <2>5 DEF AnswerLost
<1>3. CASE Restart
  <2>1. /\ cpipe' = pipe /\ ckids' = kids /\ cpods' = pods
        /\ csecrets' = secrets /\ cdefaults' = defaults /\ stale' = {}
        /\ UNCHANGED <<pipe, uids, kids, pods, secrets, defaults, topic>>
    BY <1>3 DEF Restart, apiVars
  <2>2. ObjectTypes' /\ CachesCurrent'
    BY <2>1 DEF ObjectTypes, CachesCurrent, Children, Child
  <2>3. pc' = "idle" /\ step' = 1 /\ loc' = NoLocals /\ read' = NothingRead
    BY <1>3 DEF Restart
  <2>4. dirty' \in BOOLEAN /\ requeue' \in BOOLEAN
    BY <1>3, Zenon DEF Restart
  <2>5. loc' \in Locals /\ read' \in Readings
    BY <2>3, NoStatusTyped DEF NoLocals, NothingRead, Locals, Readings
  <2> QED
    BY <1>0, <2>2, <2>3, <2>4, <2>5 DEF WorkerTypes, HoldsPipeline, PipelinePCs
<1> QED
  BY <1>1, <1>2, <1>3

\* Events and timers.
LEMMA WatchTyped == Typed /\ (Watch \/ TimerFires \/ Resync) => Typed'
<1> SUFFICES ASSUME Typed, Watch \/ TimerFires \/ Resync PROVE Typed'
  OBVIOUS
<1> USE DEF Typed, TypeOK
<1>1. CASE DeliverPipe
  <2>1. /\ cpipe' = pipe /\ stale' = stale \ {"pipe"}
        /\ UNCHANGED <<pipe, uids, kids, pods, secrets, defaults, topic, ckids, cpods,
                       csecrets, cdefaults, requeue, workVars, faults>>
    BY <1>1 DEF DeliverPipe, apiVars
  <2>2. ObjectTypes'
    BY <2>1 DEF ObjectTypes, Children, Child
  <2>3. CachesCurrent'
    BY <2>1, KindNames, ObjectNames DEF CachesCurrent
  <2>4. dirty' \in BOOLEAN /\ requeue' \in BOOLEAN
    BY <1>1, Zenon DEF DeliverPipe, WorkerTypes
  <2> QED
    BY <2>1, <2>2, <2>3, <2>4, WorkerUntouched
<1>2. CASE DeliverDefaults
  <2>1. /\ cdefaults' = defaults /\ stale' = stale \ {"defaults"}
        /\ UNCHANGED <<pipe, uids, kids, pods, secrets, defaults, topic, cpipe, ckids,
                       cpods, csecrets, dirty, requeue, workVars, faults>>
    BY <1>2 DEF DeliverDefaults, apiVars, queueVars
  <2>2. ObjectTypes'
    BY <2>1 DEF ObjectTypes, Children, Child
  <2>3. CachesCurrent'
    BY <2>1, KindNames, ObjectNames DEF CachesCurrent
  <2>4. dirty' \in BOOLEAN /\ requeue' \in BOOLEAN
    BY <2>1 DEF WorkerTypes
  <2> QED
    BY <2>1, <2>2, <2>3, <2>4, WorkerUntouched
<1>3. ASSUME NEW k \in Kinds, DeliverChild(k) PROVE Typed'
  <2>1. /\ ckids' = [ckids EXCEPT ![k] = kids[k]] /\ stale' = stale \ {k}
        /\ cpods' = IF k = "deployment" THEN pods ELSE cpods
        /\ UNCHANGED <<pipe, uids, kids, pods, secrets, defaults, topic, cpipe,
                       csecrets, cdefaults, requeue, workVars, faults>>
    BY <1>3 DEF DeliverChild, apiVars
  <2>2. Child(kids[k])
    BY DEF ObjectTypes, Children
  <2>3. Children(ckids')
    BY <2>1, <2>2, ChildrenUpdated DEF ObjectTypes
  <2>4. ObjectTypes'
    BY <2>1, <2>3 DEF ObjectTypes
  <2>5. CachesCurrent'
    BY <2>1, KindNames, ObjectNames, SMTT(30) DEF CachesCurrent, ObjectTypes, Children
  <2>6. dirty' \in BOOLEAN /\ requeue' \in BOOLEAN
    BY <1>3, Zenon DEF DeliverChild, WorkerTypes
  <2> QED
    BY <2>1, <2>4, <2>5, <2>6, WorkerUntouched
<1>4. ASSUME NEW s \in Secrets, DeliverSecret(s) PROVE Typed'
  <2>1. /\ csecrets' = [csecrets EXCEPT ![s] = secrets[s]] /\ stale' = stale \ {s}
        /\ UNCHANGED <<pipe, uids, kids, pods, secrets, defaults, topic, cpipe, ckids,
                       cpods, cdefaults, requeue, workVars, faults>>
    BY <1>4 DEF DeliverSecret, apiVars
  <2>2. ObjectTypes'
    BY <2>1 DEF ObjectTypes, Children, Child
  <2>3. CachesCurrent'
    BY <2>1, KindNames, ObjectNames DEF CachesCurrent, ObjectTypes
  <2>4. dirty' \in BOOLEAN /\ requeue' \in BOOLEAN
    BY <1>4, Zenon DEF DeliverSecret, WorkerTypes
  <2> QED
    BY <2>1, <2>2, <2>3, <2>4, WorkerUntouched
<1>5. CASE TimerFires \/ Resync
  <2>1. UNCHANGED <<apiVars, cacheVars, stale, workVars, faults>>
    BY <1>5 DEF TimerFires, Resync
  <2>2. dirty' \in BOOLEAN /\ requeue' \in BOOLEAN
    BY <1>5, Zenon DEF TimerFires, Resync, WorkerTypes
  <2> QED
    BY <2>1, <2>2, WorkerUntouched, ObjectsUntouched
<1> QED
  BY <1>1, <1>2, <1>3, <1>4, <1>5 DEF Watch

\* A write to the pipeline object by somebody else.
LEMMA PipeChangedTyped ==
    ASSUME Typed, pipe' \in Pipelines \cup {None}, uids' \in 0 .. MaxUid,
           stale' = stale \cup {"pipe"},
           UNCHANGED <<kids, pods, secrets, defaults, topic, cacheVars, queueVars,
                       workVars, faults>>
    PROVE  Typed'
<1> USE DEF Typed, TypeOK
<1>1. UNCHANGED <<kids, pods, secrets, defaults, topic, cpipe, ckids, cpods, csecrets,
                  cdefaults, dirty, requeue, workVars, faults>>
  BY DEF cacheVars, queueVars
<1>2. ObjectTypes'
  BY <1>1 DEF ObjectTypes, Children, Child
<1>3. CachesCurrent'
  BY <1>1 DEF CachesCurrent
<1>4. dirty' \in BOOLEAN /\ requeue' \in BOOLEAN
  BY <1>1 DEF WorkerTypes
<1> QED
  BY <1>1, <1>2, <1>3, <1>4, WorkerUntouched

LEMMA EditedTyped ==
    ASSUME NEW p \in Pipelines, NEW spec \in Specs
    PROVE  LET q == [p EXCEPT !.spec = spec, !.generation = @ + 1]
           IN q \in Pipelines /\ q.uid = p.uid /\ q.finalizer = p.finalizer
<1> DEFINE q == [p EXCEPT !.spec = spec, !.generation = @ + 1]
<1>1. p.generation + 1 \in Nat
  BY DEF Pipelines
<1> DEFINE r == [p EXCEPT !.spec = spec]
<1>2. r \in Pipelines /\ r.uid = p.uid /\ r.finalizer = p.finalizer
  BY DEF Pipelines
<1>3. q = [r EXCEPT !.generation = p.generation + 1]
  BY DEF Pipelines
<1> HIDE DEF r, q
<1> QED
  <2>1. q \in Pipelines /\ q.uid = p.uid /\ q.finalizer = p.finalizer
    BY <1>1, <1>2, <1>3 DEF Pipelines
  <2> QED
    BY <2>1 DEF q

LEMMA ReplacedTyped ==
    ASSUME Typed, NEW k \in Kinds, NEW c, Child(c), ReplaceChild(k, c)
    PROVE  Typed'
<1> USE DEF Typed, TypeOK
<1>1. UNCHANGED <<dirty, requeue, workVars, faults>>
  BY DEF ReplaceChild, queueVars
<1>2. dirty' \in BOOLEAN /\ requeue' \in BOOLEAN
  BY <1>1 DEF WorkerTypes
<1> QED
  BY <1>1, <1>2, WorkerUntouched, ReplaceChildTyped

LEMMA UserStepTyped == Typed /\ (Users \/ Collector) => Typed'
<1> SUFFICES ASSUME Typed, Users \/ Collector PROVE Typed'
  OBVIOUS
<1>1. CASE CreatePipeline
  <2>1. pipe' \in Pipelines
    <3>1. PICK spec \in Specs :
            pipe' = [uid |-> uids', generation |-> 1, spec |-> spec,
                     deleting |-> FALSE, finalizer |-> FALSE, status |-> NoStatus]
      BY <1>1 DEF CreatePipeline
    <3>2. uids' \in Nat
      BY <1>1, SMTT(30) DEF CreatePipeline, Typed, TypeOK, ObjectTypes
    <3> QED
      BY <3>1, <3>2, NoStatusTyped DEF Pipelines
  <2>2. uids' \in 0 .. MaxUid
    BY <1>1, Bounds, SMTT(30) DEF CreatePipeline, Typed, TypeOK, ObjectTypes
  <2> QED
    BY <1>1, <2>1, <2>2, PipeChangedTyped DEF CreatePipeline
<1>2. CASE EditPipeline
  <2>1. pipe \in Pipelines
    BY <1>2 DEF EditPipeline, Live, Typed, TypeOK, ObjectTypes
  <2>2. PICK spec \in Specs : pipe' = [pipe EXCEPT !.spec = spec, !.generation = @ + 1]
    BY <1>2 DEF EditPipeline
  <2>3. pipe' \in Pipelines
    BY <2>1, <2>2, EditedTyped
  <2> QED
    BY <1>2, <2>3, PipeChangedTyped DEF EditPipeline, Typed, TypeOK, ObjectTypes
<1>3. CASE TouchPipeline
  BY <1>3, PipeChangedTyped DEF TouchPipeline, apiVars, Typed, TypeOK, ObjectTypes
<1>4. CASE DeletePipeline
  <2>1. pipe \in Pipelines
    BY <1>4 DEF DeletePipeline, Live, Typed, TypeOK, ObjectTypes
  <2>2. pipe' \in Pipelines \cup {None}
    BY <1>4, <2>1 DEF DeletePipeline, Pipelines
  <2> QED
    BY <1>4, <2>2, PipeChangedTyped DEF DeletePipeline, Typed, TypeOK, ObjectTypes
<1>5. CASE ChangeDefaults \/ ChangeTopic \/ DeploymentProgresses
  <2>1. /\ UNCHANGED <<pipe, uids, kids, secrets, cpipe, ckids, cpods, csecrets,
                       cdefaults, dirty, requeue, workVars, faults>>
        /\ pods' = pods \/ (pods' \in PodCounts /\ stale' = stale \cup {"deployment"})
        /\ stale' \in {stale, stale \cup {"defaults"}, stale \cup {"deployment"}}
        /\ defaults' \in DefaultsSpecs \cup {None} /\ topic' \in PartitionCounts \cup {None}
    BY <1>5 DEF ChangeDefaults, ChangeTopic, DeploymentProgresses, cacheVars, queueVars,
                Typed, TypeOK, ObjectTypes
  <2>2. ObjectTypes'
    BY <2>1, KindNames, SMTT(30) DEF ObjectTypes, Children, Child, Typed, TypeOK
  <2>3. CachesCurrent'
    BY <2>1 DEF CachesCurrent, Typed
  <2>4. dirty' \in BOOLEAN /\ requeue' \in BOOLEAN
    BY <2>1 DEF WorkerTypes, Typed, TypeOK
  <2> QED
    BY <2>1, <2>2, <2>3, <2>4, WorkerUntouched DEF Typed, TypeOK
<1>6. ASSUME NEW s \in Secrets, ChangeSecret(s) PROVE Typed'
  <2>1. /\ secrets' \in [Secrets -> SecretData \cup {None}]
        /\ \A t \in Secrets \ {s} : secrets'[t] = secrets[t]
        /\ stale' = stale \cup {s}
        /\ UNCHANGED <<pipe, uids, kids, pods, defaults, topic, cpipe, ckids, cpods,
                       csecrets, cdefaults, dirty, requeue, workVars, faults>>
    BY <1>6 DEF ChangeSecret, cacheVars, queueVars, Typed, TypeOK, ObjectTypes
  <2>2. ObjectTypes'
    BY <2>1 DEF ObjectTypes, Children, Child, Typed, TypeOK
  <2>3. CachesCurrent'
    BY <2>1 DEF CachesCurrent, Typed
  <2>4. dirty' \in BOOLEAN /\ requeue' \in BOOLEAN
    BY <2>1 DEF WorkerTypes, Typed, TypeOK
  <2> QED
    BY <2>1, <2>2, <2>3, <2>4, WorkerUntouched DEF Typed, TypeOK
<1>7. ASSUME NEW k \in Kinds, Drift(k) \/ Collect(k) PROVE Typed'
  <2>1. kids[k] # None /\ Child(kids[k])
    BY <1>7 DEF Drift, Collect, Typed, TypeOK, ObjectTypes, Children
  <2>2. Child(None) /\ Child([kids[k] EXCEPT !.data = Edited])
    BY <2>1 DEF Child
  <2>3. ReplaceChild(k, None) \/ ReplaceChild(k, [kids[k] EXCEPT !.data = Edited])
    BY <1>7 DEF Drift, Collect
  <2> QED
    BY <2>2, <2>3, ReplacedTyped
<1>8. CASE AutoscalerActs
  <2>1. kids["deployment"] # None /\ Child(kids["deployment"])
    BY <1>8, KindNames DEF AutoscalerActs, Typed, TypeOK, ObjectTypes, Children
  <2>2. PICK n : ReplaceChild("deployment",
                              [kids["deployment"] EXCEPT !.data.replicas = n])
    BY <1>8 DEF AutoscalerActs
  <2>3. Child([kids["deployment"] EXCEPT !.data.replicas = n])
    BY <2>1 DEF Child
  <2> QED
    BY <2>2, <2>3, KindNames, ReplacedTyped
<1> QED
  BY <1>1, <1>2, <1>3, <1>4, <1>5, <1>6, <1>7, <1>8 DEF Users, Collector

LEMMA TypedStep ==
    ASSUME Typed, [Next]_vars
    PROVE  Typed'
<1>1. CASE Next
  BY <1>1, WorkerStepTyped, FaultTyped, WatchTyped, UserStepTyped DEF Next
<1>2. CASE UNCHANGED vars
  <2>1. UNCHANGED <<apiVars, cacheVars, stale, workVars, faults, dirty, requeue>>
    BY <1>2 DEF vars, queueVars
  <2>2. dirty' \in BOOLEAN /\ requeue' \in BOOLEAN
    BY <2>1 DEF Typed, TypeOK, WorkerTypes
  <2> QED
    BY <2>1, <2>2, ObjectsUntouched, WorkerUntouched DEF Typed, TypeOK
<1> QED
  BY <1>1, <1>2

LEMMA InitTyped == Init => Typed
<1> SUFFICES ASSUME Init PROVE Typed
  OBVIOUS
<1>1. ObjectTypes
  BY Bounds DEF Init, ObjectTypes, Children, Child
<1>2. CachesCurrent /\ HoldsPipeline
  BY DEF Init, CachesCurrent, HoldsPipeline
<1>3. loc \in Locals /\ read \in Readings
  BY NoStatusTyped DEF Init, NoLocals, NothingRead, Locals, Readings
<1>4. dirty \in BOOLEAN /\ requeue \in BOOLEAN
  BY Zenon DEF Init
<1>5. WorkerTypes
  BY <1>3, <1>4, Bounds DEF Init, WorkerTypes, PipelinePCs
<1> QED
  BY <1>1, <1>2, <1>5 DEF Typed, TypeOK

LEMMA TypedInvariant == Spec => []Typed
<1>1. Typed /\ [Next]_vars => Typed'
  BY TypedStep
<1> QED
  BY <1>1, InitTyped, PTL DEF Spec

(***************************************************************************)
(* Type correctness, for every set of specs, Secrets and counts and every  *)
(* bound: Reconcile always has a pipeline in hand where it dereferences    *)
(* one, and every count it puts into a status is a number.                 *)
(***************************************************************************)
THEOREM TypeCorrect == Spec => []TypeOK
<1>1. Typed => TypeOK
  BY DEF Typed
<1> QED
  BY <1>1, TypedInvariant, PTL

-----------------------------------------------------------------------------
Past == {"merge", "scale", "generate", "apply", "status", "persist"}

-----------------------------------------------------------------------------
(***************************************************************************)
(* How the actions move pipe, cpipe, the worker and the queue entry.       *)
(***************************************************************************)

\* An error return.
LEMMA FailEffect ==
    ASSUME Fail
    PROVE  pc' = "idle" /\ dirty'
  BY DEF Fail

\* Reconcile's way from the merge to the status, and what it enters there.
Passes ==
    \/ /\ pc = "merge" /\ (loc'.failed <=> ~ loc.pipe.spec.graphOK)
       /\ GraphVerdict(loc.pipe.spec, loc'.status.configValid)
       /\ pc' = IF loc.pipe.spec.graphOK THEN "scale" ELSE "status"
    \/ /\ loc'.failed = loc.failed /\ loc'.status.configValid = loc.status.configValid
       /\ \/ pc = "scale" /\ pc' = "generate"
          \/ pc = "generate" /\ pc' = "apply"
          \/ pc = "apply" /\ pc' \in {"apply", "status"}
          \/ /\ pc = "status" /\ pc' = "persist"
             /\ loc'.status.observed = loc.pipe.generation
             /\ loc'.status.phase = PhaseOf(loc.failed, SeenPods)

\* The steps of Reconcile past the finalizer that stay with the pipeline.
Onwards ==
    /\ UNCHANGED <<pipe, cpipe>>
    /\ pc \in Past
    /\ \/ pc' = "idle" /\ dirty'
       \/ pc' \in Past /\ loc'.pipe = loc.pipe /\ dirty' = dirty /\ Passes

LEMMA ChildErrorOnwards ==
    ASSUME WorkerTypes, pc = "apply", ChildError, UNCHANGED <<pipe, cpipe>>
    PROVE  Onwards
<1>1. CASE Fail
  BY <1>1, FailEffect DEF Onwards, Past
<1>2. CASE Advance
  BY <1>2 DEF Advance, Onwards, Past, Passes, queueVars
<1> QED
  BY <1>1, <1>2 DEF ChildError

LEMMA StepOnwards ==
    ASSUME Typed,
           \/ Merge \/ CalculateScaling \/ GenerateConfigs \/ GenerateFails
           \/ SkipChild \/ WriteChild \/ RefusedChild \/ ComputeStatus \/ PersistFails
    PROVE  Onwards
<1> USE DEF Typed, TypeOK
<1>1. CASE Merge
  <2>1. /\ loc'.pipe = loc.pipe /\ (loc'.failed <=> ~ loc.pipe.spec.graphOK)
        /\ GraphVerdict(loc.pipe.spec, loc'.status.configValid)
    BY <1>1 DEF Merge, WorkerTypes, Locals, Statuses, GraphVerdict
  <2> QED
    BY <1>1, <2>1 DEF Merge, Onwards, Past, Passes, apiVars, cacheVars, queueVars
<1>2. CASE CalculateScaling
  <2>1. /\ loc'.pipe = loc.pipe /\ loc'.failed = loc.failed
        /\ loc'.status.configValid = loc.status.configValid
    BY <1>2 DEF CalculateScaling, WorkerTypes, Locals, Statuses
  <2> QED
    BY <1>2, <2>1 DEF CalculateScaling, Onwards, Past, Passes, apiVars, cacheVars, queueVars
<1>3. CASE GenerateConfigs
  BY <1>3 DEF GenerateConfigs, Onwards, Past, Passes, apiVars, cacheVars, queueVars
<1>4. CASE GenerateFails \/ PersistFails
  BY <1>4, FailEffect
  DEF GenerateFails, PersistFails, Onwards, Past, apiVars, cacheVars
<1>5. CASE SkipChild \/ WriteChild
  BY <1>5 DEF SkipChild, WriteChild, Advance, StoreChild, Onwards, Past, Passes, apiVars,
              cacheVars, queueVars
<1>6. CASE RefusedChild
  BY <1>6, ChildErrorOnwards DEF RefusedChild, apiVars, cacheVars
<1>7. CASE ComputeStatus
  <2>1. /\ loc'.pipe = loc.pipe /\ loc'.failed = loc.failed
        /\ loc'.status.configValid = loc.status.configValid
        /\ loc'.status.observed = loc.pipe.generation
        /\ loc'.status.phase = PhaseOf(loc.failed, SeenPods)
    BY <1>7 DEF ComputeStatus, WorkerTypes, Locals, Statuses
  <2> QED
    BY <1>7, <2>1 DEF ComputeStatus, Onwards, Past, Passes, apiVars, cacheVars, queueVars
<1> QED
  BY <1>1, <1>2, <1>3, <1>4, <1>5, <1>6, <1>7

\* Steps of others that touch neither the pipeline object nor the worker.
Aside ==
    /\ UNCHANGED <<pipe, cpipe, pc, step, loc, read>>
    /\ dirty => dirty'

LEMMA StepAside ==
    ASSUME \/ DeliverDefaults \/ TimerFires \/ Resync
           \/ \E k \in Kinds : DeliverChild(k) \/ Drift(k) \/ Collect(k)
           \/ \E s \in Secrets : DeliverSecret(s) \/ ChangeSecret(s)
           \/ ChangeDefaults \/ ChangeTopic \/ AutoscalerActs \/ DeploymentProgresses
           \/ UNCHANGED vars
    PROVE  Aside
<1> USE DEF Aside, workVars, queueVars, apiVars, cacheVars
<1>1. CASE DeliverDefaults \/ TimerFires \/ Resync \/ ChangeDefaults \/ ChangeTopic
             \/ DeploymentProgresses
  <2>1. CASE DeliverDefaults \/ TimerFires \/ Resync
    BY <2>1, SMTT(30) DEF DeliverDefaults, TimerFires, Resync
  <2>2. CASE ChangeDefaults \/ ChangeTopic \/ DeploymentProgresses
    BY <2>2, SMTT(30) DEF ChangeDefaults, ChangeTopic, DeploymentProgresses
  <2> QED
    BY <1>1, <2>1, <2>2
<1>2. ASSUME NEW k, NEW c, ReplaceChild(k, c) PROVE Aside
  BY <1>2 DEF ReplaceChild
<1>3. ASSUME NEW k \in Kinds, Drift(k) \/ Collect(k) PROVE Aside
  BY <1>2, <1>3 DEF Drift, Collect
<1>4. CASE AutoscalerActs
  BY <1>2, <1>4 DEF AutoscalerActs
<1>5. ASSUME NEW k \in Kinds, DeliverChild(k) PROVE Aside
  BY <1>5 DEF DeliverChild
<1>6. ASSUME NEW s \in Secrets, DeliverSecret(s) \/ ChangeSecret(s) PROVE Aside
  <2>1. CASE DeliverSecret(s)
    BY <2>1 DEF DeliverSecret
  <2>2. CASE ChangeSecret(s)
    BY <2>2 DEF ChangeSecret
  <2> QED
    BY <1>6, <2>1, <2>2
<1>7. CASE UNCHANGED vars
  BY <1>7 DEF vars
<1> QED
  BY <1>1, <1>3, <1>4, <1>5, <1>6, <1>7

\* What Begin sets out to do.
LEMMA BeginEffect ==
    ASSUME Begin
    PROVE  /\ UNCHANGED <<apiVars, cacheVars, stale>>
           /\ \/ pc' = "idle" /\ (cpipe = None \/ cpipe.deleting)
              \/ /\ pc' = "unfinalize" /\ cpipe # None /\ cpipe.deleting
                 /\ loc'.pipe = cpipe
              \/ /\ pc' = "finalize" /\ cpipe # None /\ ~ cpipe.deleting
                 /\ loc'.pipe = cpipe
              \/ /\ pc' = "merge" /\ cpipe # None /\ ~ cpipe.deleting
                 /\ cpipe.finalizer /\ loc'.pipe = cpipe
<1>1. UNCHANGED <<apiVars, cacheVars, stale>>
  BY DEF Begin
<1>2. loc' = IF pc' = "idle" THEN NoLocals
             ELSE [pipe |-> cpipe, status |-> cpipe.status, failed |-> FALSE]
  BY Zenon DEF Begin
<1>3. pc' # "idle" => loc'.pipe = cpipe
  BY <1>2
<1>4. CASE cpipe = None
  <2>1. pc' = "idle"
    BY <1>4, Zenon DEF Begin
  <2> QED
    BY <1>1, <1>4, <2>1
<1>5. CASE cpipe # None /\ cpipe.deleting
  <2>1. pc' = IF cpipe.finalizer THEN "unfinalize" ELSE "idle"
    BY <1>5, Zenon DEF Begin
  <2> QED
    BY <1>1, <1>3, <1>5, <2>1
<1>6. CASE cpipe # None /\ ~ cpipe.deleting
  <2>1. pc' = IF cpipe.finalizer THEN "merge" ELSE "finalize"
    BY <1>6, Zenon DEF Begin
  <2> QED
    BY <1>1, <1>3, <1>6, <2>1
<1> QED
  BY <1>4, <1>5, <1>6

\* What a pipeline object becomes by an edit, a touch, a delete or a status
\* write: the same object, its finalizer intact; an object without a finalizer
\* may go away and a new one come.
SamePipe ==
    pipe # None /\ pipe.finalizer =>
        pipe' # None /\ pipe'.uid = pipe.uid /\ pipe'.finalizer

LEMMA UserPipeEffect ==
    ASSUME Typed, CreatePipeline \/ EditPipeline \/ TouchPipeline \/ DeletePipeline
    PROVE  SamePipe /\ UNCHANGED <<cpipe, pc, step, loc, read, dirty>>
<1> USE DEF cacheVars, queueVars, workVars
<1>1. CASE CreatePipeline
  BY <1>1 DEF CreatePipeline, SamePipe
<1>2. CASE TouchPipeline
  BY <1>2 DEF TouchPipeline, SamePipe, apiVars
<1>3. CASE EditPipeline \/ DeletePipeline
  <2>1. pipe \in Pipelines
    BY <1>3 DEF EditPipeline, DeletePipeline, Live, Typed, TypeOK, ObjectTypes
  <2>2. CASE EditPipeline
    <3>1. PICK spec \in Specs :
            pipe' = [pipe EXCEPT !.spec = spec, !.generation = @ + 1]
      BY <2>2 DEF EditPipeline
    <3>2. pipe' \in Pipelines /\ pipe'.uid = pipe.uid /\ pipe'.finalizer = pipe.finalizer
      BY <2>1, <3>1, EditedTyped
    <3> QED
      BY <2>2, <3>2, NoneIsNothing DEF EditPipeline, SamePipe
  <2>3. CASE DeletePipeline
    <3>1. CASE pipe.finalizer
      <4>1. pipe' = [pipe EXCEPT !.deleting = TRUE]
        BY <2>3, <3>1 DEF DeletePipeline
      <4>2. pipe' \in Pipelines /\ pipe'.uid = pipe.uid /\ pipe'.finalizer = pipe.finalizer
        BY <2>1, <4>1 DEF Pipelines
      <4> QED
        BY <2>3, <4>2, NoneIsNothing DEF DeletePipeline, SamePipe
    <3>2. CASE ~ pipe.finalizer
      BY <2>3, <3>2 DEF DeletePipeline, SamePipe
    <3> QED
      BY <3>1, <3>2
  <2> QED
    BY <1>3, <2>2, <2>3
<1> QED
  BY <1>1, <1>2, <1>3

\* Writes of the pipeline object that end a reconcile, with or without error.
Removed ==
    /\ pc = "unfinalize" /\ HoldsLatest
    /\ pipe' = None /\ pc' = "idle" /\ cpipe' = cpipe

AddedUnnoticed ==
    /\ pc = "finalize" /\ HoldsLatest
    /\ pipe' = [pipe EXCEPT !.finalizer = TRUE]
    /\ pc' = "idle" /\ dirty' /\ cpipe' = cpipe

Persisted ==
    /\ pc = "persist" /\ SeesLatest
    /\ pipe' = [pipe EXCEPT !.status = loc.status]
    /\ pc' = "idle" /\ cpipe' = cpipe

GivesUp == pc' = "idle" /\ dirty' /\ UNCHANGED <<pipe, cpipe>>

UserPipe == CreatePipeline \/ EditPipeline \/ TouchPipeline \/ DeletePipeline

LEMMA Moves ==
    ASSUME Typed, [Next]_vars
    PROVE  \/ Onwards \/ Aside \/ UserPipe \/ Begin \/ Removed \/ AddFinalizer
           \/ AddedUnnoticed \/ Persisted \/ GivesUp \/ DeliverPipe \/ Restart
<1>1. CASE Worker
  <2>1. CASE RemoveFinalizer
    BY <2>1 DEF RemoveFinalizer, Removed, StorePipe, cacheVars
  <2>2. CASE FinalizerConflict
    BY <2>2, FailEffect DEF FinalizerConflict, GivesUp, apiVars, cacheVars
  <2>3. CASE PersistStatus
    BY <2>3 DEF PersistStatus, Persisted, StorePipe, cacheVars
  <2> QED
    BY <1>1, <2>1, <2>2, <2>3, StepOnwards DEF Worker
<1>2. CASE Watch \/ TimerFires \/ Resync \/ Collector \/ Users \/ UNCHANGED vars
  BY <1>2, StepAside DEF Watch, Collector, Users, UserPipe
<1>3. CASE CallFails
  <2>1. UNCHANGED <<pipe, cpipe>>
    BY <1>3 DEF CallFails, apiVars, cacheVars
  <2>2. CASE Fail
    BY <2>1, <2>2, FailEffect DEF GivesUp
  <2>3. CASE pc = "apply" /\ ChildError
    BY <2>1, <2>3, ChildErrorOnwards DEF Typed, TypeOK
  <2> QED
    BY <1>3, <2>2, <2>3 DEF CallFails
<1>4. CASE AnswerLost
  <2>1. CASE pc = "unfinalize" /\ HoldsLatest /\ StorePipe(None) /\ Fail
    BY <2>1, FailEffect DEF StorePipe, Removed, cacheVars
  <2>2. CASE /\ pc = "finalize" /\ HoldsLatest
             /\ StorePipe([pipe EXCEPT !.finalizer = TRUE]) /\ Fail
    BY <2>2, FailEffect DEF StorePipe, AddedUnnoticed, cacheVars
  <2>3. CASE pc = "apply" /\ StoreChild(Kind, Want(Kind)) /\ ChildError
    BY <2>3, ChildErrorOnwards DEF StoreChild, cacheVars, Typed, TypeOK
  <2>4. CASE /\ pc = "persist" /\ SeesLatest
             /\ StorePipe([pipe EXCEPT !.status = loc.status]) /\ Fail
    BY <2>4, FailEffect DEF StorePipe, Persisted, cacheVars
  <2> QED
    BY <1>4, <2>1, <2>2, <2>3, <2>4 DEF AnswerLost
<1> QED
  BY <1>1, <1>2, <1>3, <1>4 DEF Next

-----------------------------------------------------------------------------
\* The finalizer keeps the object Reconcile works for.
LEMMA FinalizerStep ==
    ASSUME Typed, FinalizerHolds, [Next]_vars
    PROVE  FinalizerHolds'
<1> USE DEF FinalizerHolds, WorksForExistingPipeline
<1>1. CASE Onwards
  BY <1>1 DEF Onwards, Past
<1>2. CASE Aside
  BY <1>2 DEF Aside
<1>3. CASE UserPipe
  BY <1>3, UserPipeEffect DEF UserPipe, SamePipe
<1>4. CASE Begin
  <2>1. UNCHANGED <<pipe, cpipe>>
    BY <1>4, BeginEffect DEF apiVars, cacheVars
  <2> QED
    BY <1>4, <2>1, BeginEffect
<1>5. CASE Removed
  BY <1>5 DEF Removed, HoldsLatest
<1>6. CASE AddFinalizer \/ AddedUnnoticed
  <2>1. pipe = cpipe /\ loc.pipe = cpipe /\ pipe # None /\ pipe \in Pipelines
    BY <1>6 DEF AddFinalizer, AddedUnnoticed, HoldsLatest, Typed, TypeOK, HoldsPipeline,
                CachesCurrent, ObjectTypes
  <2>2. pipe' = [pipe EXCEPT !.finalizer = TRUE] /\ cpipe' = cpipe
    BY <1>6 DEF AddFinalizer, AddedUnnoticed, StorePipe, cacheVars
  <2>3. pipe' \in Pipelines /\ pipe' # None /\ pipe'.uid = pipe.uid /\ pipe'.finalizer
    BY <2>1, <2>2, NoneIsNothing DEF Pipelines
  <2>4. CASE AddFinalizer
    <3>1. loc'.pipe = pipe' /\ pc' = "merge"
      BY <2>4 DEF AddFinalizer, Typed, TypeOK, WorkerTypes, Locals
    <3> QED
      BY <2>1, <2>2, <2>3, <3>1
  <2>5. CASE AddedUnnoticed
    BY <2>1, <2>2, <2>3, <2>5 DEF AddedUnnoticed
  <2> QED
    BY <1>6, <2>4, <2>5
<1>7. CASE Persisted
  <2>1. pipe \in Pipelines /\ loc.status \in Statuses
    BY <1>7 DEF Persisted, SeesLatest, Typed, TypeOK, CachesCurrent, ObjectTypes,
                WorkerTypes, Locals
  <2>2. /\ pipe' \in Pipelines /\ pipe' # None /\ pipe'.uid = pipe.uid
        /\ pipe'.finalizer = pipe.finalizer
    BY <1>7, <2>1, NoneIsNothing DEF Persisted, Pipelines
  <2> QED
    BY <1>7, <2>2 DEF Persisted
<1>8. CASE GivesUp
  BY <1>8 DEF GivesUp
<1>9. CASE DeliverPipe
  BY <1>9 DEF DeliverPipe, apiVars, workVars
<1>10. CASE Restart
  BY <1>10 DEF Restart, apiVars
<1> QED
  BY <1>1, <1>2, <1>3, <1>4, <1>5, <1>6, <1>7, <1>8, <1>9, <1>10, Moves

(***************************************************************************)
(* The finalizer protects the worker, whatever users, failures and the     *)
(* order of events do: no child and no status is written for a pipeline    *)
(* that is gone or has been created anew.                                  *)
(***************************************************************************)
THEOREM ExistingPipeline == Spec => []WorksForExistingPipeline
<1>1. Init => FinalizerHolds
  BY DEF Init, FinalizerHolds, WorksForExistingPipeline
<1>2. Typed /\ FinalizerHolds /\ [Next]_vars => FinalizerHolds'
  BY FinalizerStep
<1>3. FinalizerHolds => WorksForExistingPipeline
  BY DEF FinalizerHolds
<1> QED
  BY <1>1, <1>2, <1>3, TypedInvariant, PTL DEF Spec

-----------------------------------------------------------------------------
\* Which revision Reconcile works on, and what it thinks of it.
LEMMA RevisionStep ==
    ASSUME Typed, WorksOnCachedRevision, ControlState, [Next]_vars
    PROVE  WorksOnCachedRevision' /\ ControlState'
<1> USE DEF WorksOnCachedRevision, SameRevision
<1>1. CASE Onwards
  <2>1. WorksOnCachedRevision'
    BY <1>1 DEF Onwards, Past
  <2>2. ControlState'
    <3>1. CASE pc' = "idle"
      BY <3>1 DEF ControlState
    <3>2. CASE pc' # "idle"
      <4>1. loc'.pipe = loc.pipe /\ pc \in Past /\ pc' \in Past /\ Passes
        BY <1>1, <3>2 DEF Onwards
      <4>2. loc.pipe.spec \in Specs /\ loc.failed \in BOOLEAN /\ loc'.failed \in BOOLEAN
        <5>1. loc \in Locals /\ loc.pipe # None /\ loc' \in Locals
          BY <4>1, TypedStep DEF Past, Typed, TypeOK, WorkerTypes, HoldsPipeline
        <5> QED
          BY <5>1, HeldSpec DEF Locals
      <4>3. loc.pipe.spec.graphOK \in BOOLEAN
        BY <4>2, SpecsTyped
      <4> QED
        BY <4>1, <4>2, <4>3 DEF ControlState, Passes, Past
    <3> QED
      BY <3>1, <3>2
  <2> QED
    BY <2>1, <2>2
<1>2. CASE Aside
  BY <1>2 DEF Aside, ControlState
<1>3. CASE UserPipe
  BY <1>3, UserPipeEffect DEF UserPipe, ControlState
<1>4. CASE Begin
  <2>1. UNCHANGED <<pipe, cpipe>>
    BY <1>4, BeginEffect DEF apiVars, cacheVars
  <2> QED
    BY <1>4, <2>1, BeginEffect DEF ControlState
<1>5. CASE Removed \/ AddedUnnoticed \/ Persisted \/ GivesUp \/ Restart
  BY <1>5 DEF Removed, AddedUnnoticed, Persisted, GivesUp, Restart, ControlState
<1>6. CASE AddFinalizer
  <2>1. pipe = cpipe /\ loc.pipe = cpipe /\ pipe # None /\ pipe \in Pipelines
    BY <1>6 DEF AddFinalizer, HoldsLatest, Typed, TypeOK, HoldsPipeline,
                CachesCurrent, ObjectTypes
  <2>2. /\ pipe' = [pipe EXCEPT !.finalizer = TRUE] /\ cpipe' = cpipe
        /\ loc'.pipe = pipe' /\ pc' = "merge" /\ pc = "finalize"
    BY <1>6 DEF AddFinalizer, StorePipe, cacheVars, Typed, TypeOK, WorkerTypes, Locals
  <2>3. SameRevision(pipe', pipe)
    BY <2>1, <2>2 DEF Pipelines
  <2> QED
    BY <2>1, <2>2, <2>3 DEF ControlState
<1>7. CASE DeliverPipe
  BY <1>7 DEF DeliverPipe, workVars, ControlState
<1> QED
  BY <1>1, <1>2, <1>3, <1>4, <1>5, <1>6, <1>7, Moves
=============================================================================

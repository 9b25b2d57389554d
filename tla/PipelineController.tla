-------------------------- MODULE PipelineController --------------------------
(***************************************************************************)
(* DataPrepperPipelineReconciler for one DataPrepperPipeline name: the API *)
(* server's objects, the operator's informer caches, the work queue entry  *)
(* of that name, and Reconcile as the sequence of its reads and writes.    *)
(*                                                                         *)
(* Requests for different names share nothing but Secrets, the Defaults    *)
(* object and Kafka, which are inputs here, and the queue never hands one  *)
(* name to two workers; so one name, one worker.                           *)
(*                                                                         *)
(* Every read of Reconcile is served by a cache, every write by the API    *)
(* server.  stale is the set of objects whose cached copy is not the       *)
(* latest one, that is, those with a watch event still to be delivered.    *)
(* It also plays the part of resourceVersion: an update computed from a    *)
(* stale copy is refused as a conflict.  Several changes of one object may *)
(* be delivered by a single event.                                         *)
(***************************************************************************)
EXTENDS PipelineResources, FiniteSets

CONSTANTS
    Specs,                   \* pipeline specs a user may write
    DefaultsSpecs,           \* DataPrepperDefaults specs a user may write
    Secrets,                 \* names of Secrets
    SecretData,              \* contents a Secret may have
    PartitionCounts,         \* answers of the Kafka admin client
    PodCounts,               \* Deployment statuses: [replicas, ready]
    DriftKinds,              \* children somebody else may edit or delete
    Edited,                  \* content left by such an edit
    ServiceMonitorAvailable, \* the ServiceMonitor CRD was found at startup
    MaxUid,                  \* bound: times the pipeline is created
    MaxGeneration,           \* bound: generations of one pipeline object
    MaxFaults,               \* bound: failed API calls plus operator restarts
    MaxLag                   \* bound: Reconcile writes a child while fewer than
                             \* this many have an undelivered event

NoPods == [replicas |-> 0, ready |-> 0]

Statuses ==
    [phase : {"", "Pending", "Running", "Degraded", "Error"},
     replicas : Nat, ready : Nat, observed : Nat,
     configValid   : {"Unknown", "True", "False"},
     scalingReady  : {"Unknown", "True", "False"},
     peerForwarder : {"Unknown", "True", "False"},
     kafka : [partitions : Nat, consumers : Int] \cup {None}]

Pipelines ==
    [uid : Nat, generation : Nat, spec : Specs, deleting : BOOLEAN,
     finalizer : BOOLEAN, status : Statuses]

\* Everything a reconcile may have read.
AllInputs ==
    [spec : Specs, defaults : DefaultsSpecs \cup {None},
     partitions : PartitionCounts \cup {None},
     secrets : [Secrets -> SecretData \cup {None}]]

DeploymentContents == {GenerateDeployment(in) : in \in AllInputs}
ConfigContents ==
    {GeneratePipelineConfig(in) : in \in AllInputs} \cup {GenerateDPConfig(in) : in \in AllInputs}

\* A spec has the fields PipelineResources lists, a credentials reference names
\* a Secret, the object names are distinct, and None is none of the things
\* whose absence it stands for.
ASSUME SpecsTyped ==
    \A spec \in Specs :
        /\ DOMAIN spec = {"graphOK", "buildable", "body", "sources", "stateful",
                          "scaling", "image", "config", "brokers", "monitor",
                          "kafkaRef", "opensearch", "sinkRef", "otherRefs"}
        /\ spec.graphOK \in BOOLEAN /\ spec.scaling \in ScalingSpec \cup {None}
ASSUME SecretRefs ==
    \A spec \in Specs : referencedSecrets(spec) \subseteq Secrets
ASSUME ObjectNames == Secrets \cap (Kinds \cup {"pipe", "defaults"}) = {}
ASSUME NoneIsNothing ==
    /\ None \notin Pipelines /\ None \notin SecretData /\ None \notin Secrets
    /\ None \notin DefaultsSpecs /\ None \notin PartitionCounts
    /\ None \notin DeploymentContents /\ None \notin ConfigContents
    /\ None \notin [owner : Nat, data : DeploymentContents]
    /\ None \notin [owner : Nat, data : ConfigContents]
ASSUME CountsAreNumbers ==
    PartitionCounts \subseteq Nat /\ PodCounts \subseteq [replicas : Nat, ready : Nat]
ASSUME Bounds ==
    /\ MaxUid \in Nat /\ MaxGeneration \in Nat /\ MaxFaults \in Nat /\ MaxLag \in Nat
    /\ DriftKinds \subseteq Kinds /\ ServiceMonitorAvailable \in BOOLEAN

VARIABLES
    \* the API server, and Kafka
    pipe,        \* the pipeline object or None
    uids,        \* how many pipeline objects of this name have been created
    kids,        \* kind |-> child object or None
    pods,        \* status of the Deployment
    secrets,     \* secret |-> data or None
    defaults,    \* the Defaults object's spec or None
    topic,       \* partition count of the Kafka topic, None while unreachable
    \* the operator's informer caches
    cpipe, ckids, cpods, csecrets, cdefaults,
    stale,       \* objects with an undelivered watch event
    \* the work queue entry and the worker
    dirty,       \* the name is queued (or will be, after the retry delay)
    requeue,     \* a RequeueAfter timer is running
    pc, step,    \* where Reconcile stands; step is the child it is at
    loc,         \* its copy of the pipeline and of the status to be written
    read,        \* what it read besides; kept after it returned
    \* the environment's budget
    faults

apiVars   == <<pipe, uids, kids, pods, secrets, defaults, topic>>
cacheVars == <<cpipe, ckids, cpods, csecrets, cdefaults>>
queueVars == <<dirty, requeue>>
workVars  == <<pc, step, loc, read>>
vars == <<apiVars, cacheVars, stale, queueVars, workVars, faults>>

-----------------------------------------------------------------------------
NoStatus == [phase |-> "", replicas |-> 0, ready |-> 0, observed |-> 0,
             configValid |-> "Unknown", scalingReady |-> "Unknown",
             peerForwarder |-> "Unknown", kafka |-> None]

Live(p) == p # None /\ ~ p.deleting

NoLocals == [pipe |-> None, status |-> NoStatus, failed |-> FALSE]

NothingRead == [defaults |-> None, partitions |-> None,
                secrets |-> [s \in Secrets |-> None]]

\* The inputs of the desired state of a pipeline with this spec.
Inputs(spec) == [spec |-> spec, defaults |-> read.defaults,
                 partitions |-> read.partitions, secrets |-> read.secrets]

\* The part of a secrets function that secretHash looks at.
Referenced(refs, f) == [s \in Secrets |-> IF s \in refs THEN f[s] ELSE None]

Object(owner, content) ==
    IF content = None THEN None ELSE [owner |-> owner, data |-> content]

Init ==
    /\ pipe = None /\ uids = 0
    /\ kids = [k \in Kinds |-> None] /\ pods = NoPods
    /\ secrets \in [Secrets -> SecretData \cup {None}]
    /\ defaults \in DefaultsSpecs \cup {None}
    /\ topic \in PartitionCounts \cup {None}
    /\ cpipe = pipe /\ ckids = kids /\ cpods = pods
    /\ csecrets = secrets /\ cdefaults = defaults
    /\ stale = {}
    /\ dirty = FALSE /\ requeue = FALSE
    /\ pc = "idle" /\ step = 1 /\ loc = NoLocals /\ read = NothingRead
    /\ faults = 0

-----------------------------------------------------------------------------
(***************************************************************************)
(* Reconcile.                                                              *)
(***************************************************************************)

\* Mutant: the error is swallowed.
FailQuietly ==
    /\ pc' = "idle"
    /\ step' = 1 /\ loc' = NoLocals /\ read' = NothingRead
    /\ UNCHANGED queueVars

\* Returning an error puts the name back with a delay.
Fail ==
    /\ pc' = "idle" /\ dirty' = TRUE
    /\ step' = 1 /\ loc' = NoLocals /\ read' = NothingRead
    /\ UNCHANGED requeue

\* Mutant: children are written before the finalizer is there.
BeginWithoutFinalizer ==
    /\ pc = "idle" /\ dirty
    /\ dirty' = FALSE /\ requeue' = FALSE
    /\ pc' = CASE cpipe = None                     -> "idle"
               [] cpipe # None /\ cpipe.deleting   ->
                    IF cpipe.finalizer THEN "unfinalize" ELSE "idle"
               [] OTHER -> "merge"
    /\ loc' = IF pc' = "idle" THEN NoLocals
              ELSE [pipe |-> cpipe, status |-> cpipe.status, failed |-> FALSE]
    /\ read' = NothingRead
    /\ step' = 1
    /\ UNCHANGED <<apiVars, cacheVars, stale, faults>>

\* The cached pipeline a worker starts from decides the branch.
Begin ==
    /\ pc = "idle" /\ dirty
    /\ dirty' = FALSE /\ requeue' = FALSE
    /\ pc' = CASE cpipe = None                     -> "idle"
               [] cpipe # None /\ cpipe.deleting   ->
                    IF cpipe.finalizer THEN "unfinalize" ELSE "idle"
               [] OTHER -> IF cpipe.finalizer THEN "merge" ELSE "finalize"
    /\ loc' = IF pc' = "idle" THEN NoLocals
              ELSE [pipe |-> cpipe, status |-> cpipe.status, failed |-> FALSE]
    /\ read' = NothingRead
    /\ step' = 1
    /\ UNCHANGED <<apiVars, cacheVars, stale, faults>>

\* The copy Reconcile holds is the latest version of the pipeline object.
HoldsLatest == "pipe" \notin stale /\ loc.pipe = cpipe

\* The API server stores p as the pipeline object.
StorePipe(p) ==
    /\ pipe' = p
    /\ stale' = IF p = pipe THEN stale ELSE stale \cup {"pipe"}
    /\ UNCHANGED <<uids, kids, pods, secrets, defaults, topic, cacheVars>>

\* RemoveFinalizer and Update: without a finalizer the deleted object goes away.
RemoveFinalizer ==
    /\ pc = "unfinalize" /\ HoldsLatest
    /\ StorePipe(None)
    /\ pc' = "idle" /\ loc' = NoLocals
    /\ UNCHANGED <<queueVars, step, read, faults>>

AddFinalizer ==
    /\ pc = "finalize" /\ HoldsLatest
    /\ StorePipe([pipe EXCEPT !.finalizer = TRUE])
    /\ loc' = [loc EXCEPT !.pipe = pipe']
    /\ pc' = "merge"
    /\ UNCHANGED <<queueVars, step, read, faults>>

FinalizerConflict ==
    /\ pc \in {"finalize", "unfinalize"} /\ ~ HoldsLatest
    /\ Fail
    /\ UNCHANGED <<apiVars, cacheVars, stale, faults>>

\* Get the Defaults (none when the Get fails), merge, validate the graph.
Merge ==
    /\ pc = "merge"
    /\ LET ok == loc.pipe.spec.graphOK
       IN /\ loc' = [loc EXCEPT
                        !.failed = ~ ok,
                        !.status.configValid = IF ok THEN "True" ELSE "False"]
          /\ read' = [read EXCEPT !.defaults = cdefaults]
          /\ pc' = IF ok THEN "scale" ELSE "status"
    /\ UNCHANGED <<apiVars, cacheVars, stale, queueVars, step, faults>>

\* kafkaConfigFromSecret, then the admin client.
AskKafka(spec) ==
    IF ~ AsksKafka(spec.scaling, spec.sources) THEN None
    ELSE IF spec.kafkaRef # None /\ csecrets[spec.kafkaRef] = None THEN None
    ELSE topic

CalculateScaling ==
    /\ pc = "scale"
    /\ LET spec == MergeSpec(read.defaults, loc.pipe.spec)
           in   == [Inputs(loc.pipe.spec) EXCEPT !.partitions = AskKafka(spec)]
       IN /\ read' = [read EXCEPT !.partitions = in.partitions]
          /\ loc' = [loc EXCEPT
                !.status.scalingReady  = IF Scale(in).ok THEN "True" ELSE "False",
                !.status.peerForwarder =
                    IF needsPeerForwarder(in) THEN "True" ELSE "False",
                !.status.kafka =
                    IF AsksKafka(spec.scaling, spec.sources) /\ Scale(in).ok
                    THEN [partitions |-> in.partitions,
                          consumers  |-> Scale(in).replicas * Scale(in).workers]
                    ELSE @]
    /\ pc' = "generate"
    /\ UNCHANGED <<apiVars, cacheVars, stale, queueVars, step, faults>>

\* Both configurations, the Secrets' hash; nothing is written yet.
GenerateConfigs ==
    /\ pc = "generate" /\ loc.pipe.spec.buildable
    /\ read' = [read EXCEPT !.secrets =
                  Referenced(referencedSecrets(MergeSpec(read.defaults, loc.pipe.spec)),
                             csecrets)]
    /\ pc' = "apply"
    /\ UNCHANGED <<apiVars, cacheVars, stale, queueVars, step, loc, faults>>

\* An error here is returned before any status is written.
GenerateFails ==
    /\ pc = "generate" /\ ~ loc.pipe.spec.buildable
    /\ Fail
    /\ UNCHANGED <<apiVars, cacheVars, stale, faults>>

-----------------------------------------------------------------------------
(***************************************************************************)
(* CreateOrUpdate and reconcileOrDelete of the child at step.              *)
(***************************************************************************)
Kind == KindAt[step]

Want(k) == Object(loc.pipe.uid, Desired(k, Inputs(loc.pipe.spec)))

\* Mutant: one child too many.
AdvanceTooFar ==
    /\ step' = step + 1
    /\ pc' = IF step = 9 THEN "status" ELSE "apply"
    /\ UNCHANGED <<queueVars, loc, read>>

Advance ==
    /\ step' = step + 1
    /\ pc' = IF step = 8 THEN "status" ELSE "apply"
    /\ UNCHANGED <<queueVars, loc, read>>

\* No call is made.  A Deployment is always sent: the defaults the API server
\* filled in make the stored spec differ from the generated one.
NothingToDo(k) ==
    \/ k = "monitor" /\ ~ ServiceMonitorAvailable
    \/ Want(k) = None /\ ckids[k] = None
    \/ Want(k) # None /\ ckids[k] = Want(k) /\ k # "deployment"

\* The API server accepts a delete of what exists, a create of what does not,
\* an update computed from the latest version.  SetControllerReference tells
\* owners apart by kind and name: a child of a predecessor of the same name is
\* adopted, the reference replaced by one with the present UID.
Accepted(k) ==
    \/ Want(k) = None /\ ckids[k] # None /\ kids[k] # None
    \/ Want(k) # None /\ ckids[k] = None /\ kids[k] = None
    \/ Want(k) # None /\ ckids[k] # None /\ k \notin stale

SkipChild ==
    /\ pc = "apply" /\ NothingToDo(Kind)
    /\ Advance
    /\ UNCHANGED <<apiVars, cacheVars, stale, faults>>

\* Storing what is already there changes no version.
StoreChild(k, c) ==
    /\ kids' = [kids EXCEPT ![k] = c]
    /\ stale' = IF c = kids[k] THEN stale ELSE stale \cup {k}
    /\ UNCHANGED <<pipe, uids, pods, secrets, defaults, topic, cacheVars>>

WriteChild ==
    /\ pc = "apply" /\ ~ NothingToDo(Kind) /\ Accepted(Kind)
    /\ Cardinality(stale \cap Kinds) < MaxLag
    /\ StoreChild(Kind, Want(Kind))
    /\ Advance
    /\ UNCHANGED faults

\* An error on the ServiceMonitor is logged and dropped.
ChildError == IF Kind = "monitor" THEN Advance ELSE Fail

RefusedChild ==
    /\ pc = "apply" /\ ~ NothingToDo(Kind) /\ ~ Accepted(Kind)
    /\ ChildError
    /\ UNCHANGED <<apiVars, cacheVars, stale, faults>>

-----------------------------------------------------------------------------
(***************************************************************************)
(* updateStatus.                                                           *)
(***************************************************************************)
PhaseOf(failed, count) ==
    CASE failed                        -> "Error"
      [] ~ failed /\ count.replicas = 0 -> "Pending"
      [] ~ failed /\ count.ready = 0    -> "Pending"
      [] OTHER -> IF count.ready < count.replicas THEN "Degraded" ELSE "Running"

\* Mutant: the Deployment is not read again.
PodsOfLastStatus ==
    [replicas |-> loc.pipe.status.replicas, ready |-> loc.pipe.status.ready]

\* Counts of the cached Deployment; the previous ones when there is none.
SeenPods ==
    IF ckids["deployment"] # None THEN cpods
    ELSE [replicas |-> loc.pipe.status.replicas, ready |-> loc.pipe.status.ready]

\* Mutant: the generation is taken from the object read again for the update.
ComputeStatusOfCached ==
    /\ pc = "status"
    /\ loc' = [loc EXCEPT
                 !.status.observed = cpipe.generation,
                 !.status.replicas = SeenPods.replicas,
                 !.status.ready    = SeenPods.ready,
                 !.status.phase    = PhaseOf(loc.failed, SeenPods)]
    /\ pc' = "persist"
    /\ UNCHANGED <<apiVars, cacheVars, stale, queueVars, step, read, faults>>

\* Mutant: a failed validation leaves the generation at its zero value.
ComputeStatusOnSuccess ==
    /\ pc = "status"
    /\ loc' = [loc EXCEPT
                 !.status.observed = IF loc.failed THEN 0 ELSE loc.pipe.generation,
                 !.status.replicas = SeenPods.replicas,
                 !.status.ready    = SeenPods.ready,
                 !.status.phase    = PhaseOf(loc.failed, SeenPods)]
    /\ pc' = "persist"
    /\ UNCHANGED <<apiVars, cacheVars, stale, queueVars, step, read, faults>>

ComputeStatus ==
    /\ pc = "status"
    /\ loc' = [loc EXCEPT
                 !.status.observed = loc.pipe.generation,
                 !.status.replicas = SeenPods.replicas,
                 !.status.ready    = SeenPods.ready,
                 !.status.phase    = PhaseOf(loc.failed, SeenPods)]
    /\ pc' = "persist"
    /\ UNCHANGED <<apiVars, cacheVars, stale, queueVars, step, read, faults>>

\* The cached pipeline is there and is the latest version.
SeesLatest == cpipe # None /\ "pipe" \notin stale

\* RetryOnConflict: Get, copy the status in, Status().Update.
PersistStatus ==
    /\ pc = "persist" /\ SeesLatest
    /\ StorePipe([pipe EXCEPT !.status = loc.status])
    /\ requeue' = (loc.status.phase \in {"Pending", "Degraded"})
    /\ pc' = "idle" /\ step' = 1 /\ loc' = NoLocals
    /\ UNCHANGED <<dirty, read, faults>>

\* The retries ran out, or the pipeline is gone.
PersistFails ==
    /\ pc = "persist" /\ ~ SeesLatest
    /\ Fail
    /\ UNCHANGED <<apiVars, cacheVars, stale, faults>>

-----------------------------------------------------------------------------
(***************************************************************************)
(* Failures of the operator's surroundings.                                *)
(***************************************************************************)

\* Any API call may fail without having had an effect.
CallFails ==
    /\ faults < MaxFaults /\ faults' = faults + 1
    /\ \/ pc \in {"finalize", "unfinalize", "persist"} /\ Fail
       \/ pc = "apply" /\ ChildError
    /\ UNCHANGED <<apiVars, cacheVars, stale>>

\* Or it has its effect and only the answer is lost.
AnswerLost ==
    /\ faults < MaxFaults /\ faults' = faults + 1
    /\ \/ /\ pc = "unfinalize" /\ HoldsLatest
          /\ StorePipe(None) /\ Fail
       \/ /\ pc = "finalize" /\ HoldsLatest
          /\ StorePipe([pipe EXCEPT !.finalizer = TRUE]) /\ Fail
       \/ /\ pc = "apply" /\ ~ NothingToDo(Kind) /\ Accepted(Kind)
          /\ StoreChild(Kind, Want(Kind)) /\ ChildError
       \/ /\ pc = "persist" /\ SeesLatest
          /\ StorePipe([pipe EXCEPT !.status = loc.status]) /\ Fail

\* The process dies or loses its lease; its successor lists every object and
\* gets an event for each.
Restart ==
    /\ faults < MaxFaults /\ faults' = faults + 1
    /\ cpipe' = pipe /\ ckids' = kids /\ cpods' = pods
    /\ csecrets' = secrets /\ cdefaults' = defaults
    /\ stale' = {}
    /\ dirty' = TRUE /\ requeue' = FALSE
    /\ pc' = "idle" /\ step' = 1 /\ loc' = NoLocals /\ read' = NothingRead
    /\ UNCHANGED apiVars

-----------------------------------------------------------------------------
(***************************************************************************)
(* Watches: what SetupWithManager registers.                               *)
(***************************************************************************)
\* Mutant: Services are not watched.
OwnedButServices == Kinds \ {"service", "headless"}

OwnedKinds == Kinds \ (IF ServiceMonitorAvailable THEN {} ELSE {"monitor"})

\* Mutant: an event that comes while Reconcile runs is dropped.
DeliverPipeToIdle ==
    /\ "pipe" \in stale
    /\ cpipe' = pipe
    /\ stale' = stale \ {"pipe"}
    /\ dirty' = (dirty \/ pc = "idle")
    /\ UNCHANGED <<apiVars, ckids, cpods, csecrets, cdefaults, requeue, workVars,
                   faults>>

DeliverPipe ==
    /\ "pipe" \in stale
    /\ cpipe' = pipe
    /\ stale' = stale \ {"pipe"}
    /\ dirty' = TRUE
    /\ UNCHANGED <<apiVars, ckids, cpods, csecrets, cdefaults, requeue, workVars,
                   faults>>

DeliverChild(k) ==
    /\ k \in stale
    /\ ckids' = [ckids EXCEPT ![k] = kids[k]]
    /\ cpods' = IF k = "deployment" THEN pods ELSE cpods
    /\ stale' = stale \ {k}
    /\ dirty' = (dirty \/ k \in OwnedKinds)
    /\ UNCHANGED <<apiVars, cpipe, csecrets, cdefaults, requeue, workVars, faults>>

\* Mutant: Secrets are not watched.
SecretUnwatched(s) == FALSE

\* The index is built from the pipeline's own spec, before any merge.
findPipelinesForSecret(s) == cpipe # None /\ s \in referencedSecrets(cpipe.spec)

DeliverSecret(s) ==
    /\ s \in stale
    /\ csecrets' = [csecrets EXCEPT ![s] = secrets[s]]
    /\ stale' = stale \ {s}
    /\ dirty' = (dirty \/ findPipelinesForSecret(s))
    /\ UNCHANGED <<apiVars, cpipe, ckids, cpods, cdefaults, requeue, workVars, faults>>

\* The pipeline controller reads Defaults but does not watch them.
DeliverDefaults ==
    /\ "defaults" \in stale
    /\ cdefaults' = defaults
    /\ stale' = stale \ {"defaults"}
    /\ UNCHANGED <<apiVars, cpipe, ckids, cpods, csecrets, queueVars, workVars, faults>>

\* RequeueAfter of Pending and Degraded pipelines.
TimerFires ==
    /\ requeue
    /\ requeue' = FALSE /\ dirty' = TRUE
    /\ UNCHANGED <<apiVars, cacheVars, stale, workVars, faults>>

\* The informer's periodic resync replays what is in the cache.
Resync ==
    /\ cpipe # None /\ ~ dirty
    /\ dirty' = TRUE
    /\ UNCHANGED <<apiVars, cacheVars, stale, requeue, workVars, faults>>

-----------------------------------------------------------------------------
(***************************************************************************)
(* Everybody else: users, the Defaults and Discovery controllers, the      *)
(* autoscaler, the Deployment controller and the garbage collector.        *)
(***************************************************************************)
CreatePipeline ==
    /\ pipe = None /\ uids < MaxUid
    /\ uids' = uids + 1
    /\ \E spec \in Specs :
          pipe' = [uid |-> uids', generation |-> 1, spec |-> spec,
                   deleting |-> FALSE, finalizer |-> FALSE, status |-> NoStatus]
    /\ stale' = stale \cup {"pipe"}
    /\ UNCHANGED <<kids, pods, secrets, defaults, topic, cacheVars, queueVars,
                   workVars, faults>>

EditPipeline ==
    /\ Live(pipe) /\ pipe.generation < MaxGeneration
    /\ \E spec \in Specs \ {pipe.spec} :
          pipe' = [pipe EXCEPT !.spec = spec, !.generation = @ + 1]
    /\ stale' = stale \cup {"pipe"}
    /\ UNCHANGED <<uids, kids, pods, secrets, defaults, topic, cacheVars,
                   queueVars, workVars, faults>>

\* The annotation the Defaults controller writes, the labels of Discovery.
TouchPipeline ==
    /\ pipe # None
    /\ stale' = stale \cup {"pipe"}
    /\ UNCHANGED <<apiVars, cacheVars, queueVars, workVars, faults>>

DeletePipeline ==
    /\ Live(pipe)
    /\ pipe' = IF pipe.finalizer THEN [pipe EXCEPT !.deleting = TRUE] ELSE None
    /\ stale' = stale \cup {"pipe"}
    /\ UNCHANGED <<uids, kids, pods, secrets, defaults, topic, cacheVars,
                   queueVars, workVars, faults>>

ChangeSecret(s) ==
    /\ \E v \in (SecretData \cup {None}) \ {secrets[s]} :
          secrets' = [secrets EXCEPT ![s] = v]
    /\ stale' = stale \cup {s}
    /\ UNCHANGED <<pipe, uids, kids, pods, defaults, topic, cacheVars, queueVars,
                   workVars, faults>>

ChangeDefaults ==
    /\ defaults' \in (DefaultsSpecs \cup {None}) \ {defaults}
    /\ stale' = stale \cup {"defaults"}
    /\ UNCHANGED <<pipe, uids, kids, pods, secrets, topic, cacheVars, queueVars,
                   workVars, faults>>

\* Partitions are added, or Kafka goes away and comes back.
ChangeTopic ==
    /\ topic' \in (PartitionCounts \cup {None}) \ {topic}
    /\ UNCHANGED <<pipe, uids, kids, pods, secrets, defaults, cacheVars, stale,
                   queueVars, workVars, faults>>

\* Child k becomes c by somebody else's hand.
ReplaceChild(k, c) ==
    /\ kids' = [kids EXCEPT ![k] = c]
    /\ pods' = IF k = "deployment" /\ c = None THEN NoPods ELSE pods
    /\ stale' = stale \cup {k}
    /\ UNCHANGED <<pipe, uids, secrets, defaults, topic, cacheVars, queueVars,
                   workVars, faults>>

Drift(k) ==
    /\ k \in DriftKinds /\ kids[k] # None
    /\ \E c \in {None, [kids[k] EXCEPT !.data = Edited]} : ReplaceChild(k, c)

\* The autoscaler writes the Deployment's scale subresource.
AutoscalerActs ==
    /\ kids["hpa"] # None /\ kids["hpa"].data # Edited
    /\ kids["deployment"] # None /\ kids["deployment"].data # Edited
    /\ \E n \in kids["hpa"].data.min .. kids["hpa"].data.max :
          /\ n # kids["deployment"].data.replicas
          /\ ReplaceChild("deployment",
                          [kids["deployment"] EXCEPT !.data.replicas = n])

DeploymentProgresses ==
    /\ kids["deployment"] # None
    /\ pods' \in PodCounts \ {pods}
    /\ stale' = stale \cup {"deployment"}
    /\ UNCHANGED <<pipe, uids, kids, secrets, defaults, topic, cacheVars,
                   queueVars, workVars, faults>>

\* Children of a pipeline object that no longer exists.
Collect(k) ==
    /\ kids[k] # None
    /\ pipe # None => pipe.uid # kids[k].owner
    /\ ReplaceChild(k, None)

-----------------------------------------------------------------------------
Worker ==
    \/ Begin \/ RemoveFinalizer \/ AddFinalizer \/ FinalizerConflict
    \/ Merge \/ CalculateScaling \/ GenerateConfigs \/ GenerateFails
    \/ SkipChild \/ WriteChild \/ RefusedChild
    \/ ComputeStatus \/ PersistStatus \/ PersistFails

Watch ==
    \/ DeliverPipe \/ DeliverDefaults
    \/ \E k \in Kinds : DeliverChild(k)
    \/ \E s \in Secrets : DeliverSecret(s)

Collector == \E k \in Kinds : Collect(k)

Users ==
    \/ CreatePipeline \/ EditPipeline \/ TouchPipeline \/ DeletePipeline
    \/ ChangeDefaults \/ ChangeTopic \/ AutoscalerActs \/ DeploymentProgresses
    \/ \E s \in Secrets : ChangeSecret(s)
    \/ \E k \in Kinds : Drift(k)

Next ==
    Worker \/ Watch \/ TimerFires \/ Resync \/ CallFails \/ AnswerLost
           \/ Restart \/ Collector \/ Users

Spec == Init /\ [][Next]_vars

\* The manager keeps its worker and its watches running, timers fire, and the
\* garbage collector runs; users and failures owe nothing.
Fairness ==
    /\ WF_vars(Worker) /\ WF_vars(TimerFires)
    /\ WF_vars(DeliverPipe) /\ WF_vars(DeliverDefaults)
    /\ \A k \in Kinds : WF_vars(DeliverChild(k)) /\ WF_vars(Collect(k))
    /\ \A s \in Secrets : WF_vars(DeliverSecret(s))

FairSpec == Spec /\ Fairness

-----------------------------------------------------------------------------
PipelinePCs == {"idle", "unfinalize", "finalize", "merge", "scale", "generate",
                "apply", "status", "persist"}

Child(c) ==
    c # None => c = [owner |-> c.owner, data |-> c.data] /\ c.owner \in Nat

Children(f) == f = [k \in Kinds |-> f[k]] /\ \A k \in Kinds : Child(f[k])

ObjectTypes ==
    /\ pipe \in Pipelines \cup {None} /\ cpipe \in Pipelines \cup {None}
    /\ uids \in 0 .. MaxUid
    /\ Children(kids) /\ Children(ckids)
    /\ pods \in PodCounts \cup {NoPods} /\ cpods \in PodCounts \cup {NoPods}
    /\ secrets \in [Secrets -> SecretData \cup {None}]
    /\ csecrets \in [Secrets -> SecretData \cup {None}]
    /\ defaults \in DefaultsSpecs \cup {None} /\ cdefaults \in DefaultsSpecs \cup {None}
    /\ topic \in PartitionCounts \cup {None}
    /\ stale \subseteq Kinds \cup Secrets \cup {"pipe", "defaults"}

Locals == [pipe : Pipelines \cup {None}, status : Statuses, failed : BOOLEAN]

Readings ==
    [defaults : DefaultsSpecs \cup {None}, partitions : PartitionCounts \cup {None},
     secrets : [Secrets -> SecretData \cup {None}]]

WorkerTypes ==
    /\ dirty \in BOOLEAN /\ requeue \in BOOLEAN
    /\ pc \in PipelinePCs /\ step \in 1 .. 9 /\ (pc = "apply" => step \in Steps)
    /\ loc \in Locals /\ read \in Readings
    /\ faults \in 0 .. MaxFaults

\* Types of the API objects, the caches, the queue entry and the locals of
\* Reconcile: the API schema of the CRDs and the Go types of the reconciler.
TypeOK == ObjectTypes /\ WorkerTypes

\* Nothing is queued, running or on its way that will make the operator look
\* at the pipeline again.  The timer and the resync are not counted on.
Quiet ==
    /\ pc = "idle" /\ ~ dirty
    /\ "pipe" \notin stale /\ stale \cap OwnedKinds = {}
    /\ pipe # None => stale \cap referencedSecrets(pipe.spec) = {}

\* What the last reconcile would read now.  Defaults and Kafka are not watched
\* by this controller, so they count as they were read.
CurrentInputs ==
    [Inputs(pipe.spec) EXCEPT !.secrets =
        Referenced(referencedSecrets(MergeSpec(read.defaults, pipe.spec)), secrets)]

\* Errors on the ServiceMonitor are dropped, the others are retried.
RetriedKinds == Kinds \ {"monitor"}

\* Child k is the one wanted.  How many pods a Deployment with an autoscaler has
\* is left open within the autoscaler's bounds.
Settled(k) ==
    LET want   == Object(pipe.uid, Desired(k, CurrentInputs))
        bounds == scalingBounds(Merged(CurrentInputs).scaling)
    IN \/ kids[k] = want
       \/ /\ k = "deployment" /\ Scale(CurrentInputs).hpa
          /\ \E n \in bounds.min .. bounds.max :
                kids[k] = [want EXCEPT !.data.replicas = n]

\* The pod counts of a status and the phase that follows from them.
ReportsPods(status) ==
    /\ status.replicas = pods.replicas /\ status.ready = pods.ready
    /\ status.phase = PhaseOf(FALSE, pods)

Converged ==
    /\ pipe.finalizer /\ pipe.status.observed = pipe.generation
    /\ IF pipe.spec.graphOK
       THEN (\A k \in RetriedKinds : Settled(k)) /\ ReportsPods(pipe.status)
       ELSE pipe.status.phase = "Error"

(***************************************************************************)
(* No wake-up is lost: when nothing is left to wake the operator, the      *)
(* children are the ones the current spec and the current Secrets call     *)
(* for, and the status reports the current generation, the current pod     *)
(* counts and their phase.  This is what Owns, Watches and the retries of  *)
(* SetupWithManager and Reconcile are for.                                 *)
(***************************************************************************)
QuietMeansConverged == Quiet /\ Live(pipe) => Converged

(***************************************************************************)
(* The finalizer protects the worker: while Reconcile runs past it, the    *)
(* pipeline object it read still exists, so no child or status is ever     *)
(* written for a pipeline that is gone.                                    *)
(***************************************************************************)
WorksForExistingPipeline ==
    pc \in {"merge", "scale", "generate", "apply", "status", "persist"} =>
        pipe # None /\ pipe.uid = loc.pipe.uid /\ pipe.finalizer

(***************************************************************************)
(* observedGeneration never moves back while the pipeline object lives,    *)
(* although Reconcile computes it from one cached copy and writes it into  *)
(* another one.                                                            *)
(***************************************************************************)
ObservedNeverRegresses ==
    [][ pipe # None /\ pipe' # None /\ pipe'.uid = pipe.uid =>
          pipe'.status.observed >= pipe.status.observed ]_vars

(***************************************************************************)
(* A status that claims the current generation carries the verdict on the  *)
(* current spec: ConfigValid is False, and the phase Error, exactly when   *)
(* ValidateGraph rejects the spec.                                         *)
(***************************************************************************)
VerdictMatchesGeneration ==
    pipe # None /\ pipe.status.observed = pipe.generation =>
        /\ pipe.status.configValid = IF pipe.spec.graphOK THEN "True" ELSE "False"
        /\ (pipe.status.phase = "Error") = ~ pipe.spec.graphOK

(***************************************************************************)
(* Reconcile brings both ConfigMaps up to date before the Deployment: when *)
(* it changes the pod template, each ConfigMap holds the configuration the *)
(* config-hash annotation names, or an event that Reconcile had not seen   *)
(* when it passed the ConfigMap brings it back to put this right.          *)
(***************************************************************************)
RollsPods ==
    pc = "apply" /\ step' # step /\ kids'["deployment"] # kids["deployment"]

HoldsConfig(objects, k) ==
    objects[k] # None /\ objects[k].data = kids'["deployment"].data.hash[k]

ConfigBeforePods ==
    [][ RollsPods => \A k \in {"pipelines", "config"} \ DriftKinds :
                        HoldsConfig(kids, k) \/ k \in stale \/ dirty ]_vars

(***************************************************************************)
(* The same without the excuse: the pods a new template starts mount the   *)
(* configuration their hash annotation names, the premise of rolling the   *)
(* pods by that hash.                                                      *)
(***************************************************************************)
PodsMountHashedConfig ==
    [][ RollsPods => \A k \in {"pipelines", "config"} \ DriftKinds :
                        HoldsConfig(kids, k) ]_vars

(***************************************************************************)
(* Once users leave the cluster alone, a pipeline that can be built ends   *)
(* up with the children and the status it should have, and one that was    *)
(* deleted is gone together with its children.                             *)
(***************************************************************************)
Tidy ==
    IF Live(pipe) THEN pipe.spec.buildable => Converged
                  ELSE pipe = None /\ \A k \in Kinds : kids[k] = None

EventuallyTidy == <>[][~ Users]_vars => <>[]Tidy
=============================================================================

# A TLA+ model of the Data Prepper operator

The operator turns `DataPrepperPipeline` objects into Deployments, ConfigMaps,
Services and their companions, and keeps them so; it makes such objects from
Kafka topics and S3 prefixes by a template, and fills in namespace defaults.
This directory holds a TLA+ model of it, translated from the Go code under
`src/`, the TLC configurations that check it on small instances, and TLAPS
proofs of its main properties for all instances.

## 1. Inventory

### Parts of the system

| part | code | state | operations |
|---|---|---|---|
| Pipeline controller | `internal/controller/dataprepperpipeline_controller.go`, `helpers.go` | the pipeline object (spec, generation, finalizer, status), its eight children, the informer caches, one work queue entry, the locals of `Reconcile` | `Reconcile`: finalizer, merge, graph check, scaling, configuration, eight writes, `updateStatus`; watches of `SetupWithManager` |
| Desired state | `internal/generator/*`, `internal/defaults/merger.go`, `internal/peerforwarder/detector.go` | none | `MergeSpec`, `Generate*`, `NeedsService`, `SourcePorts` |
| Scaler | `internal/scaler/scaler.go`, `calculateScaling`, `scalingBounds` | none | `CalculateStatic`, `CalculateKafka` |
| Admission webhook | `api/v1alpha1/dataprepperpipeline_webhook.go` | none | `validateScaling` and the checks of sources, sinks, routes and names |
| Graph validator | `internal/validation/graph.go` | none | `ValidateGraph` |
| Defaults controller | `internal/controller/dataprepperdefaults_controller.go` | an annotation on every pipeline of the namespace | list pipelines, touch those with another revision |
| Source discovery controller | `internal/controller/datapreppersourcediscovery_controller.go`, `internal/discovery`, `internal/template` | the set of pipelines it made, its status, its failure count | poll, render, create and update in stages, delete or release orphans, back off, clean up |
| Kafka and S3 clients | `internal/kafka`, `internal/s3` | none | `GetPartitionCount`, `ListTopics`, `ListPrefixes` |
| Manager | `cmd/main.go` | leader lease, caches | start, lose the lease, restart |
| Metrics | `internal/metrics` | counters | no decision reads them |

### How they interact

All controllers read informer caches and write to the API server. A write
comes back later as a watch event, which updates the cache and puts the name
of the owning pipeline on the work queue. The queue holds a name once and never
gives it to two workers. An error puts the name back after a delay;
`RequeueAfter` does so after 30 seconds. Status writes use `RetryOnConflict`,
other updates fail on a conflict. Deletion goes through a finalizer, and the
garbage collector removes children by owner reference. Users edit specs,
Defaults and Secrets; the Deployment controller changes pod counts; the
autoscaler writes the Deployment's scale; Kafka answers or does not.

### What makes it hard

- caches are older than the stored objects, each by its own delay;
- the spec, a Secret, the Defaults or the pods change between two steps of one
  `Reconcile`;
- the pipeline is deleted, or deleted and created again, under a running
  `Reconcile`;
- one of the writes fails, or succeeds and only the answer is lost, or the
  operator dies between two of them;
- a change must not be forgotten: each input needs a watch, and an error needs
  a retry;
- the three controllers write the same pipeline objects, and the webhook judges
  the writes of all of them;
- a poll of Kafka or S3 and a cached list, both out of date, decide which
  pipelines are created, updated, deleted or let go of.

## 2. Modules

| module | models | uses |
|---|---|---|
| `Scaling` | replica counts, Kafka workers, bounds, budget and autoscaler numbers, as operators | |
| `ScalingDecision` | a user editing a scaling section and a source, a Kafka topic, and the decision | `Scaling` |
| `PipelineResources` | merge with the Defaults; the wanted content of each child as a function of what a reconcile has read | `Scaling` |
| `PipelineController` | `DataPrepperPipelineReconciler` for one name, the API server, the caches, the queue entry and everybody else | `PipelineResources` |
| `PipelineInvariant` | the inductive invariant of the controller | `PipelineController` |
| `FinalizerProtocol` | abstract: what a finalizer promises between an object and its controller | |
| `PipelineRefinement` | the pipeline controller as an implementation of it | `PipelineInvariant`, `FinalizerProtocol` |
| `DefaultsPropagation` | pipeline controller, `DataPrepperDefaultsReconciler` and webhook together | `PipelineController` |
| `SourceDiscovery` | `DataPrepperSourceDiscoveryReconciler` for one name, its pipelines, the sources | `FinalizerProtocol` |
| `GraphValidation` | `validatePipelineDefinitions` and the depth-first search of `ValidateGraph` | |
| `MCPipelineController`, `MCDefaultsPropagation`, `MCSourceDiscovery`, `MCGraphValidation` | the values of the constants in the runs | |
| `ScalingLemmas`, `ScalingProofs` | proofs about `Scaling` and `ScalingDecision` | |
| `PipelineTyping` | proofs: type correctness of the pipeline controller, effect of each action on the pipeline object and the worker, the finalizer theorem | `PipelineInvariant`, `ScalingLemmas` |
| `PipelineProofs` | proofs: refinement of the finalizer protocol, the status and its generation, no lost wake-up, ConfigMaps before pods | `PipelineTyping`, `PipelineRefinement` |
| `DefaultsProofs` | proofs about the composition with the Defaults controller and the webhook | `DefaultsPropagation`, `PipelineProofs` |
| `DiscoveryInvariant` | the inductive invariant of the discovery controller | `SourceDiscovery` |
| `DiscoveryTyping` | proofs: type correctness of the discovery controller, its caches and its stages | `DiscoveryInvariant` |
| `DiscoveryProofs` | proofs: refinement of the finalizer protocol, polling, released, served and provisioned pipelines | `DiscoveryTyping` |
| `GraphProofs` | proofs about the depth-first search | `GraphValidation` |

Definitions whose comment starts with "Mutant:" are wrong on purpose: each is
a plausible bug, and the property it is paired with in `PROJECT.json` fails
when it replaces the definition that follows it.

### PipelineController

State, and what it stands for:

- `pipe`, `uids`, `kids`, `pods`, `secrets`, `defaults`, `topic`: the stored
  pipeline (or `None`), how often the name has been created, the children by
  kind, the Deployment's status, the Secrets, the `DataPrepperDefaults` named
  `default`, and the topic's partition count (`None` while Kafka cannot be
  reached). A child is a record of its owner's uid and its content.
- `cpipe`, `ckids`, `cpods`, `csecrets`, `cdefaults`: the same in the caches.
- `stale`: objects with an undelivered event. Since a cache is behind exactly
  when an event is on its way, `stale` is also the resourceVersion check: an
  update from a stale copy is a conflict. One event may carry several changes.
- `dirty`, `requeue`: the name is queued (at once or after the retry delay), a
  `RequeueAfter` timer runs. A timer that is never waited for in a safety
  property may fire at any moment.
- `pc`, `step`, `loc`, `read`: where `Reconcile` stands, which child it is at,
  its copies of the pipeline and of the status, and what it read.
- `faults`: failures so far, bounded by `MaxFaults`.

Actions, in the order of the code:

| action | code |
|---|---|
| `Begin` | Get, not found, deletion with and without finalizer |
| `RemoveFinalizer`, `AddFinalizer`, `FinalizerConflict` | the finalizer updates |
| `Merge` | Get of the Defaults, `MergeSpec`, `ValidateGraph` and its early `updateStatus` |
| `CalculateScaling` | `calculateScaling`, the conditions and `status.kafka` |
| `GenerateConfigs`, `GenerateFails` | both configurations, `secretHash`; errors returned |
| `SkipChild`, `WriteChild`, `RefusedChild` | `CreateOrUpdate` and `reconcileOrDelete` of the child at `step`; a refused ServiceMonitor is logged, any other error returned |
| `ComputeStatus`, `PersistStatus`, `PersistFails` | `updateStatus` |
| `CallFails`, `AnswerLost`, `Restart` | failures around it |
| `DeliverPipe`, `DeliverChild`, `DeliverSecret`, `DeliverDefaults`, `TimerFires`, `Resync` | watches and timers |
| `CreatePipeline`, `EditPipeline`, `TouchPipeline`, `DeletePipeline`, `ChangeSecret`, `ChangeDefaults`, `ChangeTopic`, `Drift`, `AutoscalerActs`, `DeploymentProgresses`, `Collect` | everybody else |

Each write of `Reconcile` is one action, because other actors may act
between two of them. Cache reads next to each other are one action when the
values they return are used together and nothing is written in between.
`MaxLag` bounds the lag at a write: `Reconcile` writes a child only while fewer
than `MaxLag` children have an undelivered event. Foreign changes are not
bounded by it. With `MaxLag = 1` the cache may be behind by one child when the
next step reads it; `pipeline_edits` uses 2, so that both ConfigMaps can be
unseen at once.

What is abstracted:

- One name. Requests for different names share only inputs (Secrets, Defaults,
  Kafka), and the queue does not run one name twice at a time.
- Definitions are one value `body`, plus the fields that decide behaviour
  (sources, processors being stateful, credentials, scaling, image, monitor).
  `graphOK` and `buildable` are the verdicts of `ValidateGraph` and of
  `ExtractProcessorMaps`/`GeneratePipelineConfig`.
- The hash of the configuration is the configuration itself: different inputs
  have different hashes. `secretHash` hashes the data of the Secrets
  that exist, in the order of the references, without names or separators. The
  model tells apart which Secret the data came from; the code does not when one
  Secret disappears while another appears with the same data.
- `CreateOrUpdate` of a Deployment always sends an update, since the defaults
  the API server fills in make the stored spec differ from the generated one.
  Storing the same content produces no event.
- `SetControllerReference` tells owners apart by group, kind and name, not by
  uid: a pipeline created again adopts the children its predecessor left (`Accepted`), while the garbage
  collector removes those it comes to first (`Collect`).
- `calculateKafkaScaling` falls back as well when it has no client factory;
  `main.go` always sets one, so that branch is left out.
- Events, log lines and metrics are left out.

### ScalingDecision

A user writes any scaling section the schema and `validateScaling` admit and
any kinds of source; the topic has any partition count or is unreachable;
`Reconcile` takes the decision. A change of an input resets the decision, so
every state with a decision pairs it with the inputs it was taken on.

### FinalizerProtocol

An object is absent, fresh, guarded by the finalizer, or ending; the controller
works for one uid or for none. The object may be marked for deletion by anybody
at any time, but once guarded it goes only by `Release`, when no work is under
way, and work starts only for an object that exists and has been guarded.
`PipelineRefinement` maps the pipeline, and the uid in the hands of a
`Reconcile` past the finalizer, to it; `SourceDiscovery` does the same for the
discovery. Both state `FinalizerHonoured == Protocol!Spec`, so every step of
the detailed model has to be a step or a stutter of the protocol.

### DefaultsPropagation

The composition of the three parts that write, or judge writes of, a pipeline's
metadata. All actions of `PipelineController` about the pipeline, its children
and failures take part as they are, under one more guard: a step that creates
the pipeline or changes its finalizer goes through `validatePipeline`
(`Submitted`), and `WebhookRefuses` is the other outcome. Status writes go to
the subresource, which the webhook does not see. On top of the state above:
`dgen`, `cdgen` (generation of the Defaults, stored and cached), `births`,
`rev`, `crev` (the annotation `defaults-revision`, stored and cached), `ddirty`,
`dpc`, `drev` (queue entry and worker of the Defaults controller).

| action | code |
|---|---|
| `BeginDefaults` | Get, list of the pipelines, skip of those that carry the revision |
| `Touch`, `TouchFails`, `TouchError` | `RetryOnConflict` around Get, annotation and Update; a conflict or refusal, and a failed call or lost answer, returned as an error |
| `WatchDefaults` | `For(DataPrepperDefaults)` |
| `WebhookRefuses` | `ValidateUpdate` on the operator's own finalizer updates |
| `RestartAll` | restart of the process, both workers and all caches |

The webhook sees the Defaults in the manager's cache, which all three parts
share. Specs, Secrets, Kafka and drift stay as they are in this module.

### SourceDiscovery

`disc`, `pipes`, `world` are the stored discovery, the pipelines by name and the
sources that exist (`None` while they cannot be listed); `cdisc`, `cpipes` the
caches; `stale` as above; `wakes` those pipelines whose undelivered event names
an owner in its old or its new version, since `Owns` queues only these. `loc` is
what a `Reconcile` holds: its copy of the discovery, the sources found, the
pipelines still to create and update and how many of them in this pass, and the
copies of pipelines to let go of.

| action | code |
|---|---|
| `Begin`, `AddFinalizer`, `RemoveFinalizer`, `FinalizerConflict` | Get, deletion, finalizer |
| `Poll` | `discoverKafka`, `discoverS3`; a spec with neither |
| `CountFailure`, `ResetFailures` | the failure count in an annotation: a retried update that replaces the reconciler's own copy (`Recounted`), even when the Update then fails; its error is logged |
| `ListChildren` | rendering, List, split into missing, outdated and current, health check, creation limit and batch size |
| `CreateChild`, `UpdateChild` | `CreateOrUpdate` of one pipeline |
| `ListOrphans`, `ListOwned`, `LetGo` | `cleanupOrphans`, `cleanupOnDeletion`: delete, or remove label and owner |
| `ReportError`, `Report`, `ReportFails` | the status and `RequeueAfter` |
| `CallFails`, `AnswerLost`, `Restart` | failures around it |
| `DeliverDisc`, `DeliverPipeline`, `TimerFires` | watches and timers |
| `CreateDisc`, `EditDisc`, `DeleteDisc`, `ChangeWorld`, `PipelineReports`, `PipelineGone`, `Collect` | users, Kafka or S3, the pipeline controller, the garbage collector |

A rendered spec is the template and the source, and stands for its own hash.
`sanitizeName` is a constant function, so that two sources may share a name.
The order of Go maps is free: a pass takes any of the pipelines that are due.
A pipeline of an earlier discovery of the same name is adopted, as above.
Backoff and poll interval are timers that fire some time.

### GraphValidation

The definitions are fixed in the initial state, `caller` says whether the
webhook or `Reconcile` asks. The search is modelled call by call: `color` is
the map of that name, `stack` the frames of the recursive `dfs`, each with the
index of the sink it looks at next. `NextRoot` is a round of the outer loop,
`Follow` a round of the inner one, `Finish` the return of a call. `adj` gives
the sinks of a definition, of which the search looks at those that name a
pipeline (`Ahead`), in order, repeated if repeated.

## 3. What is checked

Every run is listed in `PROJECT.json`. Passing runs:

| run | what happens in it | properties |
|---|---|---|
| `pipeline_lifecycle` | two creations of the name, deletion at any moment, one failed call, lost answer or restart | `TypeOK`, `FinalizerHonoured`, `EventuallyTidy` |
| `pipeline_edits` | edits between a valid and a cyclic spec and changes of the Defaults under a running `Reconcile`, two own writes unseen | `QuietMeansConverged`, `VerdictMatchesGeneration`, `WorksForExistingPipeline`, `ObservedNeverRegresses`, `ConfigBeforePods` |
| `pipeline_inputs` | a Kafka pipeline; its Secret and topic appear and disappear; one spec cannot be rendered | `QuietMeansConverged` |
| `pipeline_drift` | a pipeline under an autoscaler: a Service is edited and deleted by others, the autoscaler resizes the Deployment, pods come and go | `QuietMeansConverged`, `Reconciling` |
| `defaults_propagation` | both controllers and the webhook; the Defaults are created, edited or deleted; one fault; no ServiceMonitor CRD | `PropagationTypes`, `QuietMeansConverged`, `QuietMeansPropagated`, `Propagating` |
| `source_discovery` | two sources, one of which comes and goes, an edit of template and policy, Kafka unreachable, unhealthy pipelines, creation limits 1 and 2 | `TypeOK`, `QuietMeansProvisioned`, `KeepsServedPipelines`, `ReleasedPipelinesStay`, `EventuallyProvisioned` |
| `source_discovery_faults` | three sources, two of them with one pipeline name and two that come and go, creation limit 1, either policy, a broken template, a spec without source; one fault | `PollingContinues`, `Discovering`, `FinalizerHonoured`, `EventuallyProvisioned` |
| `scaling_decision` | all admitted sections over {1, 3, 11}, topics of 0, 1, 2, 5, 12 partitions | `EveryPartitionConsumed`, `ReplicasWithinBounds` |
| `graph_validation` | all graphs of three pipelines with up to two pipeline sinks each in any order, of four with up to two, and malformed definitions | `TypeOK`, `VerdictIsRight`, `OpenNodesAreThePath`, `ValidationEnds` |

`QuietMeansConverged` is the heart of the model. It says in every state: if
nothing is queued, running or on its way that would make the operator look at
the pipeline again, then all children are what the current spec and Secrets
call for, and the status shows the current generation, the current pod counts
and their phase. A Deployment under an autoscaler may have any size within the
bounds: two writers own that number, and the property does not say which of them
prevails (`Settled`; see below for what the code does). The property does not
count on the timer or the resync, so it is a statement about the watches and
retries alone. Defaults and Kafka are not watched by this controller and count
as they were read last. The ServiceMonitor is left out, as its errors are
dropped (see below).

`QuietMeansPropagated` adds what that controller cannot promise alone: once the
Defaults controller rests as well, the Defaults last read are the current ones.
`QuietMeansProvisioned` is the corresponding statement for discoveries, between
two polls. It is stated for specs that have a source and for at most one failed
call; section 4 says why. `EventuallyProvisioned` is the promise as a whole: once users and
sources rest, every source has its pipeline although a pass creates only so
many and updates one batch, and the pipelines of vanished sources are gone or
let go of. `KeepsServedPipelines` and `ReleasedPipelinesStay` say what a sweep
may never do, however old its list, its copy of the spec and its poll are.
`Reconciling`, `Propagating` and `Discovering` are the inductive invariants of
the proofs in section 4, checked here on instances with faults.
`OpenNodesAreThePath` is the invariant by which the search is right;
`VerdictIsRight` compares the verdict with a definition of acyclicity that does
not search.

Runs that TLC answers with a counterexample, each against a line of the
repository that `PROJECT.json` quotes under "findings":

| run | what the counterexample shows |
|---|---|
| `pods_mount_hashed_config` | a ConfigMap write is skipped on the strength of a cache that has not seen the operator's own last write, while the Deployment is rolled |
| `deleted_pipelines_go` | the webhook refuses the update that removes the finalizer of a deleted pipeline whose image came from Defaults that are gone; the pipeline stays for ever |
| `creation_waits_for_health` | the next pipeline is created while the last one from the same template is unhealthy |

`ConfigBeforePods` is what remains true in the first of these cases: the
operator looks at the ConfigMap again.

### Disagreements without a run

These can be read off single definitions, or off the interleaving given:

- The Secret index uses the unmerged spec (`findPipelinesForSecret`): a Secret
  that only the Defaults reference wakes no pipeline when it changes, where
  `docs/concepts/architecture.md:60` promises up-to-date credentials.
- Every reconcile writes `minReplicas` into a Deployment that an autoscaler has
  resized, and the resize triggers one (`WriteChild`), where
  `docs/concepts/scaling.md:74` leaves the count to the autoscaler. Whether the
  Deployment ends at the size either of them wants depends on the autoscaler's
  own loop, which is outside the model.
- The disruption budget is computed from the replicas of the decision, which
  under an autoscaler are minReplicas, not the number of pods (`GeneratePDB`):
  with 5 pods and minReplicas 3 it lets three of them go, and with minReplicas 1
  there is no budget at all, where the comment at `internal/generator/pdb.go:12`
  says that it is "to allow at most one pod disrupted at a time".
- A failed ServiceMonitor write is logged and dropped (`RefusedChild`).
- `scalingBounds` fills in maxReplicas 10 after the webhook has compared the
  bounds only if both are set: minReplicas 11 alone gives 11 and 10.
- Peer forwarding is set up for `replicas > 1`, and replicas is minReplicas
  under an autoscaler, where `docs/concepts/peer-forwarder.md:28` speaks of
  maxReplicas (`needsPeerForwarder`).
- Errors of `ExtractProcessorMaps` and `GeneratePipelineConfig` are returned
  before `updateStatus` (`GenerateFails`), where
  `docs/operations/troubleshooting.md:64` promises the phase Error.
- `ValidateGraph` searches the sinks only; two pipelines that name each other
  as their source pass, where `docs/concepts/pipeline-graph.md:33` says that
  the graph has no cycles.
- The deletion of the Defaults touches no pipeline, and Defaults created again
  start at generation 1, which pipelines may carry already: they keep what they
  were built from until something else wakes them. `QuietMeansPropagated` is
  stated for the first Defaults object for this reason.
- A discovery with the Orphan policy releases, at its deletion, the pipelines
  of a cached list (`ListOwned`). One it has just created and not yet seen
  keeps its owner reference and goes with the discovery.
- A pipeline released by a pass goes if the policy is switched to Delete and the
  next pass still has the old list, as `ReleasedPipelinesStay` says.
- Backoff and poll interval end early: writing the failure count or the status
  brings an event that queues the discovery at once (`DeliverDisc`).

### Bounds

Two creations suffice to confuse an object with its successor, two generations
to be overtaken by an edit (and Defaults that go back and forth without bound
for its reversal), one fault to hit any step. Every pipeline run goes through
all eight children, wanted or not. Two pipeline names, one of them of a
permanent source, suffice for a creation limit that leaves one out, a rollout in
two batches and an orphan; the run with faults adds a third source, so that two
share a name. It has no edits: those, and the rollouts they start, are in
`source_discovery`. `MaxChanges` bounds the changes of the sources and of the
pipelines' health. The specs of a
run differ in the input it is about; combining all of them would multiply the
states and add no interaction that the code has. `SYMMETRY` in
`defaults_propagation` exchanges the two images, which the model only compares
for equality; the run checks invariants only. Deadlock is not checked: when
objects have been deleted and the bounds are used up, the system stops as it
should, and a validation stops when it has returned.

### Fairness

`FairSpec` of the pipeline controller assumes weak fairness of the worker, of
each watch, of the timer and of the garbage collector. The first three are
goroutines of the manager that run as long as the process does; the last one is
the cluster's. Users, Deployment progress and failures owe nothing. Weak
fairness suffices, as each of these actions stays enabled until it is taken.
`PropagationFairSpec` adds the worker and the watch of the Defaults controller.
In `SourceDiscovery` the worker, the watch of the discovery and the timer are
fair, and so are the events of pipelines, the disappearance of deleted ones and
the garbage collector, taken together. `GraphValidation` is one call of a
function, fair as a whole. `EventuallyTidy` and `EventuallyProvisioned` have
the premise that users leave the cluster alone from some point on.

## 4. What is proved

| theorem | says |
|---|---|
| `PipelineProofs!NoLostWakeup` | `Spec => []QuietMeansConverged` if no Defaults object adds a credentials reference |
| `PipelineProofs!ReconcilingAlways` | `Spec => []Reconciling`, under the same premise |
| `PipelineProofs!ConfigFirst` | `Spec => ConfigBeforePods` |
| `PipelineProofs!VerdictOfGeneration` | `Spec => []VerdictMatchesGeneration` |
| `PipelineProofs!ObservedMonotone` | `Spec => ObservedNeverRegresses` |
| `PipelineProofs!ImplementsFinalizerProtocol` | `Spec => FinalizerHonoured` |
| `PipelineTyping!ExistingPipeline` | `Spec => []WorksForExistingPipeline` |
| `PipelineTyping!TypeCorrect` | `Spec => []TypeOK` |
| `DefaultsProofs!DefaultsReachPipelines` | `PropagationSpec => []QuietMeansPropagated` |
| `DefaultsProofs!PropagatingAlways` | `PropagationSpec => []Propagating` |
| `DefaultsProofs!NoLostWakeupHere` | `PropagationSpec => []QuietMeansConverged`, under the premise on the Defaults |
| `DefaultsProofs!PropagationTyped` | `PropagationSpec => []PropagationTypes` |
| `DiscoveryProofs!ProvisionedWhenQuiet` | `Spec => []QuietMeansProvisioned` |
| `DiscoveryProofs!ServedAreKept` | `Spec => KeepsServedPipelines` |
| `DiscoveryProofs!ReleasedAreKept` | `Spec => ReleasedPipelinesStay` |
| `DiscoveryProofs!PollingNeverStops` | `Spec => []PollingContinues` |
| `DiscoveryProofs!ImplementsFinalizerProtocol` | `Spec => FinalizerHonoured` |
| `DiscoveryProofs!DiscoveringAlways` | `Spec => []Discovering` |
| `DiscoveryTyping!DiscoveryTypes` | `Spec => []TypeOK` |
| `GraphProofs!RightVerdict` | `Spec => []VerdictIsRight` |
| `GraphProofs!SearchPath` | `Spec => []OpenNodesAreThePath` |
| `GraphProofs!GraphTypes` | `Spec => []TypeOK` |
| `ScalingProofs!PartitionsServed` | `Spec => []EveryPartitionConsumed` |
| `ScalingProofs!ReplicasBounded` | `Spec => []ReplicasWithinBounds` |

So every invariant and every action property of a passing run, and both
refinements, are proved for all values of the constants (`QuietMeansConverged`
and `Reconciling` under the premise on the Defaults): every set of specs,
Secrets, Defaults, sources, partition and pod counts, every list of
definitions, and every bound. The assumptions are the named ASSUMEs: specs have
their fields, references name Secrets, object names differ, `None` is none of
the things whose absence it stands for, counts are numbers, replica counts and
creation limits are positive (the schema's minimum), the sources are finitely
many, lists are lists. TLC evaluates them on every run.

### The pipeline controller

1. *Types* (`Typed`): `TypeOK` is not inductive alone. `Reconcile` dereferences
   the pipeline in hand, so one needs that it holds one (`HoldsPipeline`), and
   the status is stored into the object the cache shows, so one needs that an
   object without an undelivered event is in the cache as it is
   (`CachesCurrent`).
2. *Identity* (`FinalizerHolds`): only `RemoveFinalizer` makes an object with a
   finalizer go away, and only when it is the latest version and being
   deleted. So a live object seen in the cache with its finalizer still exists,
   under the same uid; and so does the one `Reconcile` works for.
3. *Revision* (`WorksOnCachedRevision`, `ControlState`): while nothing has
   queued the name again, the cached pipeline is of the revision `Reconcile`
   works on, since the delivery of a new one would have queued the name.
4. *Progress* (`Progress`): while nothing has queued the name again, each child
   before `step` is as wanted or has an event under way, the Secrets in the
   cache are the hashed ones, and the computed status is the one of the stored
   pods or the Deployment has an event under way. A foreign change adds to
   `stale`; the delivery that takes it away queues the name, for every kind but
   the dropped ServiceMonitor. Here the proof needs that the Secret watch
   covers all references, which is the premise on the Defaults; without it a
   Secret of the Defaults changes and wakes nobody.
5. In a quiet state the cache is the store and nothing is under way, so what
   `Progress` says about the idle worker is `Converged`.

`Moves` in `PipelineTyping` sums up what every action does to the pipeline
object, the cache and the worker; steps 2 and 3 are proved from it.

`VerdictOfGeneration` and `ObservedMonotone` need a history (`StatusHistory`):
the copy in hand, the cached one and the stored one are versions of one object
in this order, versions of one generation have one spec, and no status stored
by the time of a copy names a later generation than the copy's. `ConfigFirst`
uses only the part of `Progress` about the children passed (`ChildrenPassed`),
which needs no premise on the Defaults.

The refinement (`ImplementsFinalizerProtocol`) rests on step 2: every action is
shown to be a step of `FinalizerProtocol` or to leave its object, count of
objects and work alone (`StepSimulates`). The protocol starts work only for a
guarded object and releases one only when no work is under way; that the object
`Reconcile` holds is the stored one is `FinalizerHolds`. One fact is added:
uids start at 1 (`Numbered`), so that 0 can stand for no work.

### Together with the Defaults controller and the webhook

To the pipeline controller the composition is a step of its own `Next`, a
stutter, a refused finalizer write, or a failed call of the Defaults controller
that may have touched the pipeline (`KnownSteps`); so its invariants carry over. For the propagation, `Generations` orders what is known of the first
Defaults object: the revision in the annotation and the one in the Defaults
worker's hand are no later than the cached generation, this one no later than
the stored one, and equal generations mean equal contents. `WakesPending` then
says of a reconcile past its merge, or ended, with no event since: if the cached
annotation names the cached generation, it has merged the cached Defaults; and
if it has not merged them, the Defaults controller is queued or about to touch
the pipeline, or the event of its touch is under way. The first half is what
makes skipping a pipeline that carries the revision safe. It fails for a second
Defaults object, whose generations start again at 1: hence `births = 1` in
`QuietMeansPropagated`.

### The source discovery controller

1. *Types* (`Sound`, from `Stages` and `Caches`): each stage of a pass holds a
   discovery and budgets within the work listed; a cached object without an
   undelivered event is the latest, and an event that wakes nobody is one of a
   pipeline that nobody owns.
2. *Identity* (`Guarded`): as for pipelines. The copy in hand may be replaced in
   mid-pass, when the failure count is written; `Former` says that each
   copy is the stored object or one before it. `FinalizerHonoured` follows by
   the same argument as above (`ProtocolStep`).
3. *Ownership* (`Owners`): no pipeline of the present discovery exists before
   the operator has seen it, and one of its pipelines carries its label. With
   it `ReleasedPipelinesStay`: what has no label has no owner that could take
   it along.
4. *What the poll found* (`Found`): after a poll, under whatever spec, every
   permanent source is among the sources found, so that it is never in the list
   of orphans; `KeepsServedPipelines` follows.
5. *The pass* (`Held`, `Pass`): while the name is not queued and no event that
   would queue it is under way, the copy in hand is the stored discovery, but for
   a failure count that could not be written, and what the pass has seen of the
   pipelines is so. Each write of `Reconcile` to a
   pipeline it owns is itself such an event, so a pass that reaches the status
   undisturbed has written nothing: it has found everything in order. This is
   why a pass cut short by a creation limit or a batch is not mistaken for a
   complete one.

The proof of `ProvisionedWhenQuiet` found two states in which an earlier,
stronger form of `QuietMeansProvisioned` fails, and both are now excluded by
name. A discovery whose spec loses its source is left with its old status and
pipelines. And when Kafka cannot be listed, two failed API calls in a row
(the failure count and the status, both errors only logged) leave the status of
the last successful poll in place, while its pipelines have been changed by the
pass before; the next poll repairs it. One failed call does no harm.

### The graph search

`TypeOK` and `OpenNodesAreThePath` are inductive together with what each frame
has looked at (`Search`): the sinks before a frame's index are finished, or the
next inner frame's node. The finished nodes are acyclic (`AcyclicOn`): in any
set of them that contains the node finished last, either that node sends to none
of the set or a smaller set without it already has such a node, because edges
lead from finished nodes to finished ones. An open sink closes a cycle, the part
of the stack down to it being a set in which every node sends to another. When
the outer loop is through, every node is finished.

### What is only model-checked

The liveness properties `EventuallyTidy`, `EventuallyProvisioned` and
`ValidationEnds`: fairness and ENABLED are beyond the prover.

## 5. Plan

1. Two names whose children collide: `reconcileOrDelete` deletes by name.
2. Several Defaults objects in a namespace, each touching with its generation.
3. `SourceDiscovery` over `PipelineController` in place of `PipelineReports`.

## 6. What is not modelled

- The network code of the Kafka and S3 clients, metrics, flag parsing, wiring
  and deep copies (generated): I/O, or state no decision reads.
- The text of the generated configuration, of templates and of status messages:
  one value each. Prefix, pattern and depth rules of the source listing: which
  sources a spec selects is an input.
- Durations: backoff and intervals are timers that fire some time, so a
  `pollInterval` of zero, which stops polling, is not represented.
- Edits of a child pipeline's spec by others: the discovery compares its hash
  annotation only and would not notice.
- Data Prepper itself.

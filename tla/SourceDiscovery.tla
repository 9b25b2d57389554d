---------------------------- MODULE SourceDiscovery ----------------------------
(***************************************************************************)
(* DataPrepperSourceDiscoveryReconciler for one DataPrepperSourceDiscovery *)
(* name: polling Kafka or S3, creating a pipeline per source, rolling a    *)
(* changed template out in batches, taking care of the pipelines of        *)
(* vanished sources, backing off, and cleaning up at deletion.             *)
(*                                                                         *)
(* As in PipelineController, reads are served by informer caches, writes   *)
(* by the API server; stale is the set of objects with a watch event still *)
(* to be delivered, and an update computed from a stale copy is a conflict.*)
(***************************************************************************)
EXTENDS Integers, FiniteSets, FiniteSetsExt

CONSTANTS
    Sources,        \* topics or prefixes, numbered in the order of their names
    sanitizeName,   \* source |-> name of the pipeline made for it
    Worlds,         \* sets of sources that may exist at one time
    DiscSpecs,      \* specs a user may write: [selects, template, policy, limit]
    None,           \* no object, no answer
    MaxUid,         \* bound: times the discovery is created
    MaxGeneration,  \* bound: generations of one discovery object
    MaxFailures,    \* bound: the failure count stops there
    MaxChanges,     \* bound: changes of the sources plus reports on pipelines
    MaxFaults,      \* bound: failed API calls plus operator restarts
    MaxLag          \* bound: Reconcile writes a pipeline while fewer than this
                    \* many have an undelivered event

\* A spec selects sources by prefix and exclude patterns, or, with None, names
\* neither Kafka nor S3.  The template is "broken" when it cannot be rendered.
ASSUME DiscoveryConstants ==
    /\ Sources \subseteq Nat /\ IsFiniteSet(Sources)
    /\ Worlds \subseteq SUBSET Sources /\ \A S \in SUBSET Sources : S # None
    /\ DOMAIN sanitizeName = Sources /\ \A s \in Sources : sanitizeName[s] # "disc"
    /\ \A spec \in DiscSpecs :
          /\ spec.selects \in (SUBSET Sources) \cup {None}
          /\ spec.policy \in {"Delete", "Orphan"} /\ spec.limit \in Nat \ {0}
    /\ MaxUid \in Nat /\ MaxGeneration \in Nat \ {0} /\ MaxFailures \in Nat \ {0}
    /\ MaxChanges \in Nat /\ MaxFaults \in Nat /\ MaxLag \in Nat

Names == {sanitizeName[s] : s \in Sources}

VARIABLES
    \* the API server, and Kafka or S3
    disc,        \* the discovery object or None
    uids,        \* how many discovery objects of this name have been created
    pipes,       \* name |-> pipeline object or None
    world,       \* the sources that exist, None while they cannot be listed
    \* the operator's informer caches
    cdisc, cpipes,
    stale,       \* objects with an undelivered watch event
    wakes,       \* pipelines with an undelivered event that names an owner
    \* the work queue entry and the worker
    dirty,       \* the name is queued (or will be, after the retry delay)
    requeue,     \* a RequeueAfter timer is running
    pc, loc,     \* where Reconcile stands and what it holds
    \* the environment's budget
    changes, faults

apiVars   == <<disc, uids, pipes, world>>
cacheVars == <<cdisc, cpipes>>
watchVars == <<stale, wakes>>
queueVars == <<dirty, requeue>>
workVars  == <<pc, loc>>
budgetVars == <<changes, faults>>
vars == <<apiVars, cacheVars, watchVars, queueVars, workVars, budgetVars>>

-----------------------------------------------------------------------------
NoStatus == [phase |-> "", observed |-> 0, found |-> {}, updating |-> 0]

Live(o) == o # None /\ ~ o.deleting

\* disc: the copy Reconcile works with; found: what the poll returned; missing
\* and outdated: pipelines to create and to update, creations and updates how
\* many of them this pass may do; list: copies of pipelines to let go of.
NoLocals == [disc |-> None, found |-> {}, missing |-> {}, creations |-> 0,
             outdated |-> {}, updates |-> 0, list |-> << >>]

\* renderPipelineSpec: what the rendered spec depends on.  Its hash stands for it.
renderPipelineSpec(spec, s) == [template |-> spec.template, source |-> s]

\* Of two sources with one pipeline name the later one wins.
Desired(spec, found) ==
    [n \in {sanitizeName[s] : s \in found} |->
        renderPipelineSpec(spec, Max({s \in found : sanitizeName[s] = n}))]

\* The sources of W with the prefix that no exclude pattern matches.
Selected(spec, W) == W \cap spec.selects

\* Mutant: sources that cannot be listed count as sources that are not there.
DiscoverNothing(spec) == IF world = None THEN {} ELSE Selected(spec, world)

\* The answer of discoverKafka or discoverS3.
Discover(spec) == IF world = None THEN None ELSE Selected(spec, world)

Init ==
    /\ disc = None /\ uids = 0
    /\ pipes = [n \in Names |-> None]
    /\ world \in Worlds \cup {None}
    /\ cdisc = disc /\ cpipes = pipes /\ stale = {} /\ wakes = {}
    /\ dirty = FALSE /\ requeue = FALSE
    /\ pc = "idle" /\ loc = NoLocals
    /\ changes = 0 /\ faults = 0

-----------------------------------------------------------------------------
(***************************************************************************)
(* Reconcile: the discovery object and its finalizer.                      *)
(***************************************************************************)

\* Returning an error puts the name back with a delay.
Fail ==
    /\ pc' = "idle" /\ loc' = NoLocals
    /\ dirty' = TRUE /\ UNCHANGED requeue

Return(after) ==
    /\ pc' = "idle" /\ loc' = NoLocals
    /\ requeue' = (requeue \/ after) /\ UNCHANGED dirty

Goto(label, l) == pc' = label /\ loc' = l /\ UNCHANGED queueVars

\* Mutant: polls without waiting for the finalizer.
BeginUnguarded ==
    /\ pc = "idle" /\ dirty
    /\ dirty' = FALSE
    /\ pc' = CASE cdisc = None                    -> "idle"
               [] cdisc # None /\ cdisc.deleting  ->
                    IF cdisc.finalizer THEN "cleanup" ELSE "idle"
               [] OTHER -> "poll"
    /\ loc' = IF pc' = "idle" THEN NoLocals ELSE [NoLocals EXCEPT !.disc = cdisc]
    /\ UNCHANGED <<apiVars, cacheVars, watchVars, requeue, budgetVars>>

\* A timer that was set stays set when another event comes first.
Begin ==
    /\ pc = "idle" /\ dirty
    /\ dirty' = FALSE
    /\ pc' = CASE cdisc = None                    -> "idle"
               [] cdisc # None /\ cdisc.deleting  ->
                    IF cdisc.finalizer THEN "cleanup" ELSE "idle"
               [] OTHER -> IF cdisc.finalizer THEN "poll" ELSE "finalize"
    /\ loc' = IF pc' = "idle" THEN NoLocals ELSE [NoLocals EXCEPT !.disc = cdisc]
    /\ UNCHANGED <<apiVars, cacheVars, watchVars, requeue, budgetVars>>

HoldsLatest == "disc" \notin stale /\ loc.disc = cdisc
SeesLatest == "disc" \notin stale /\ cdisc # None

StoreDisc(d) ==
    /\ disc' = d
    /\ stale' = IF d = disc THEN stale ELSE stale \cup {"disc"}
    /\ UNCHANGED <<uids, pipes, world, cacheVars, wakes>>

AddFinalizer ==
    /\ pc = "finalize" /\ HoldsLatest
    /\ StoreDisc([disc EXCEPT !.finalizer = TRUE])
    /\ Goto("poll", [loc EXCEPT !.disc = disc'])
    /\ UNCHANGED budgetVars

RemoveFinalizer ==
    /\ pc = "unfinalize" /\ HoldsLatest
    /\ StoreDisc(None)
    /\ Return(FALSE)
    /\ UNCHANGED budgetVars

FinalizerConflict ==
    /\ pc \in {"finalize", "unfinalize"} /\ ~ HoldsLatest
    /\ Fail
    /\ UNCHANGED <<apiVars, cacheVars, watchVars, budgetVars>>

-----------------------------------------------------------------------------
(***************************************************************************)
(* The poll, and the failure count kept in an annotation.                  *)
(***************************************************************************)
Poll ==
    /\ pc = "poll"
    /\ LET answer == IF loc.disc.spec.selects = None THEN {} ELSE Discover(loc.disc.spec)
       IN IF loc.disc.spec.selects = None THEN Return(FALSE)
          ELSE IF answer = None THEN Goto("count", loc)
          ELSE Goto(IF loc.disc.failures > 0 THEN "reset" ELSE "list",
                    [loc EXCEPT !.found = answer])
    /\ UNCHANGED <<apiVars, cacheVars, watchVars, budgetVars>>

\* RetryOnConflict: Get into the reconciler's own copy, change the annotation,
\* Update.  The copy stays replaced when the Update fails, and the failure is
\* only logged.
Recounted(failures) ==
    IF cdisc = None THEN loc.disc ELSE [cdisc EXCEPT !.failures = failures]

Recount(failures, next) ==
    LET d == Recounted(failures)
    IN /\ IF SeesLatest
          THEN /\ disc' = d
               /\ stale' = IF d = disc /\ d.failures = 0 THEN stale ELSE stale \cup {"disc"}
               /\ UNCHANGED <<uids, pipes, world, cacheVars, wakes>>
          ELSE UNCHANGED <<apiVars, cacheVars, watchVars>>
       /\ Goto(next, [loc EXCEPT !.disc = d])

incrementFailureCount == Min({cdisc.failures + 1, MaxFailures})

CountFailure ==
    /\ pc = "count"
    /\ Recount(incrementFailureCount, "reportError")
    /\ UNCHANGED budgetVars

ResetFailures ==
    /\ pc = "reset"
    /\ Recount(0, "list")
    /\ UNCHANGED budgetVars

-----------------------------------------------------------------------------
(***************************************************************************)
(* reconcilePipelines.                                                     *)
(***************************************************************************)

\* The pipelines that List with the discovery label returns.
Listed == {n \in Names : cpipes[n] # None /\ cpipes[n].labelled}

\* max(1, 20% of the pipelines, rounded up)
BatchSize(total) == Max({1, (total + 4) \div 5})

\* Mutant: the pipelines that exist are counted too.
CreationsInAll(missing) ==
    Min({Max({0, loc.disc.spec.limit - Cardinality(Listed)}), Cardinality(missing)})

\* How many pipelines a pass creates: maxCreationsPerCycle at most.
Creations(missing) == Min({loc.disc.spec.limit, Cardinality(missing)})

Stage(l) ==
    IF l.creations > 0 THEN "create" ELSE IF l.updates > 0 THEN "update" ELSE "sweep"

\* Render, List, and decide what this pass creates and updates.  Nothing is
\* updated while a pipeline of the wanted revision is Degraded or in Error.
ListChildren ==
    /\ pc = "list"
    /\ LET want     == Desired(loc.disc.spec, loc.found)
           missing  == DOMAIN want \ Listed
           current  == {n \in DOMAIN want \cap Listed : cpipes[n].hash = want[n]}
           outdated == (DOMAIN want \cap Listed) \ current
           paused   == \E n \in current : cpipes[n].unhealthy
           l == [loc EXCEPT
                   !.missing = missing,
                   !.creations = Creations(missing),
                   !.outdated = outdated,
                   !.updates = IF paused THEN 0
                               ELSE Min({BatchSize(Cardinality(Listed)), Cardinality(outdated)})]
       IN IF loc.found # {} /\ loc.disc.spec.template = "broken" THEN Fail
          ELSE Goto(Stage(l), l)
    /\ UNCHANGED <<apiVars, cacheVars, watchVars, budgetVars>>

Owned(p) == p # None /\ p.owner # 0

\* Owns: an event queues the owner named by the old or by the new version.
StorePipeline(n, p) ==
    /\ pipes' = [pipes EXCEPT ![n] = p]
    /\ stale' = IF p = pipes[n] THEN stale ELSE stale \cup {n}
    /\ wakes' = IF p # pipes[n] /\ (Owned(p) \/ Owned(pipes[n])) THEN wakes \cup {n} ELSE wakes
    /\ UNCHANGED <<disc, uids, world, cacheVars>>

\* What CreateOrUpdate makes of the cached pipeline, absent or not.
Provided(n) ==
    LET hash == Desired(loc.disc.spec, loc.found)[n]
    IN IF cpipes[n] = None
       THEN [owner |-> loc.disc.uid, labelled |-> TRUE, hash |-> hash,
             unhealthy |-> FALSE, deleting |-> FALSE]
       ELSE [cpipes[n] EXCEPT !.owner = loc.disc.uid, !.labelled = TRUE, !.hash = hash]

\* A create of what does not exist, an update computed from the latest version.
\* SetControllerReference tells owners apart by kind and name: a pipeline of a
\* predecessor of the same name is adopted, like one that has no owner.
Accepted(n) == IF cpipes[n] = None THEN pipes[n] = None ELSE n \notin stale

\* CreateOrUpdate of n, which writes nothing when nothing changes; l is how
\* Reconcile goes on when it succeeds.
Provide(n, l) ==
    IF Provided(n) = cpipes[n]
    THEN Goto(Stage(l), l) /\ UNCHANGED <<apiVars, cacheVars, watchVars>>
    ELSE IF Accepted(n)
    THEN StorePipeline(n, Provided(n)) /\ Goto(Stage(l), l)
    ELSE Fail /\ UNCHANGED <<apiVars, cacheVars, watchVars>>

\* The caches are at most MaxLag pipelines behind when Reconcile writes one.
Caught == Cardinality(stale \cap Names) < MaxLag

\* Mutant: the pipelines created are not counted.
CreateChildUncounted(n) ==
    /\ pc = "create" /\ n \in loc.missing /\ Caught
    /\ Provide(n, [loc EXCEPT !.missing = @ \ {n}])
    /\ UNCHANGED budgetVars

CreateChild(n) ==
    /\ pc = "create" /\ n \in loc.missing /\ Caught
    /\ Provide(n, [loc EXCEPT !.missing = @ \ {n}, !.creations = @ - 1])
    /\ UNCHANGED budgetVars

UpdateChild(n) ==
    /\ pc = "update" /\ n \in loc.outdated /\ Caught
    /\ Provide(n, [loc EXCEPT !.outdated = @ \ {n}, !.updates = @ - 1])
    /\ UNCHANGED budgetVars

-----------------------------------------------------------------------------
(***************************************************************************)
(* cleanupOrphans and cleanupOnDeletion.                                   *)
(***************************************************************************)
Copies(S) == [n \in S |-> cpipes[n]]

ListOrphans ==
    /\ pc = "sweep"
    /\ LET orphans == Listed \ DOMAIN Desired(loc.disc.spec, loc.found)
       IN Goto(IF orphans = {} THEN "report" ELSE "orphan", [loc EXCEPT !.list = Copies(orphans)])
    /\ UNCHANGED <<apiVars, cacheVars, watchVars, budgetVars>>

\* Mutant: waits for the pipelines to go before the discovery may go.
ListOwnedAndWait ==
    /\ pc = "cleanup"
    /\ IF Listed # {} THEN Return(FALSE) ELSE Goto("unfinalize", loc)
    /\ UNCHANGED <<apiVars, cacheVars, watchVars, budgetVars>>

\* With the Delete policy the garbage collector follows the owner references.
ListOwned ==
    /\ pc = "cleanup"
    /\ LET owned == IF loc.disc.spec.policy = "Orphan" THEN Listed ELSE {}
       IN Goto(IF owned = {} THEN "unfinalize" ELSE "release", [loc EXCEPT !.list = Copies(owned)])
    /\ UNCHANGED <<apiVars, cacheVars, watchVars, budgetVars>>

\* The copy listed is still the latest version.
StillLatest(n) == n \notin stale /\ loc.list[n] = cpipes[n]

\* Mutant: the owner reference stays.
ReleasedStillOwned(p) == [p EXCEPT !.labelled = FALSE]

Released(p) == [p EXCEPT !.labelled = FALSE, !.owner = IF @ = loc.disc.uid THEN 0 ELSE @]

Deletes == pc = "orphan" /\ loc.disc.spec.policy = "Delete"

\* What letting go of n stores, and whether the API server accepts it.
Parted(n) == IF Deletes THEN [pipes[n] EXCEPT !.deleting = TRUE] ELSE Released(loc.list[n])
MayPart(n) == n \in DOMAIN loc.list /\ IF Deletes THEN pipes[n] # None ELSE StillLatest(n)

\* Delete, or give up ownership and label of, one pipeline of the list.
LetGo(n) ==
    LET rest  == [m \in DOMAIN loc.list \ {n} |-> loc.list[m]]
        after == IF DOMAIN rest # {} THEN pc ELSE IF pc = "release" THEN "unfinalize" ELSE "report"
    IN /\ pc \in {"orphan", "release"} /\ n \in DOMAIN loc.list /\ Caught
       /\ IF MayPart(n)
          THEN StorePipeline(n, Parted(n)) /\ Goto(after, [loc EXCEPT !.list = rest])
          ELSE Fail /\ UNCHANGED <<apiVars, cacheVars, watchVars>>
       /\ UNCHANGED budgetVars

-----------------------------------------------------------------------------
(***************************************************************************)
(* buildDiscoveryStatus and updateDiscoveryStatus.  lastPollTime counts    *)
(* seconds: a status that says the same a second later is a new version.   *)
(***************************************************************************)
Persist(status) ==
    /\ disc' = [disc EXCEPT !.status = status]
    /\ stale' \in {stale \cup {"disc"}} \cup (IF disc' = disc THEN {stale} ELSE {})
    /\ UNCHANGED <<uids, pipes, world, cacheVars, wakes>>

\* Mutant: no backoff timer.
ReportErrorWithoutTimer ==
    /\ pc = "reportError"
    /\ IF SeesLatest
       THEN Persist([loc.disc.status EXCEPT !.phase = "Error", !.found = {},
                                            !.observed = loc.disc.generation])
       ELSE UNCHANGED <<apiVars, cacheVars, watchVars>>
    /\ Return(FALSE)
    /\ UNCHANGED budgetVars

\* A failure to write the status of a failed poll is only logged.
ReportError ==
    /\ pc = "reportError"
    /\ IF SeesLatest
       THEN Persist([loc.disc.status EXCEPT !.phase = "Error", !.found = {},
                                            !.observed = loc.disc.generation])
       ELSE UNCHANGED <<apiVars, cacheVars, watchVars>>
    /\ Return(TRUE)
    /\ UNCHANGED budgetVars

RunningStatus ==
    [loc.disc.status EXCEPT !.phase = "Running", !.observed = loc.disc.generation,
                            !.found = loc.found, !.updating = Cardinality(loc.outdated)]

Report ==
    /\ pc = "report" /\ SeesLatest
    /\ Persist(RunningStatus)
    /\ Return(TRUE)
    /\ UNCHANGED budgetVars

ReportFails ==
    /\ pc = "report" /\ ~ SeesLatest
    /\ Fail
    /\ UNCHANGED <<apiVars, cacheVars, watchVars, budgetVars>>

-----------------------------------------------------------------------------
(***************************************************************************)
(* Failures of the operator's surroundings, watches and timers.            *)
(***************************************************************************)

\* An API call fails without effect; where the error is logged, Reconcile goes on.
CallFails ==
    /\ faults < MaxFaults /\ faults' = faults + 1 /\ UNCHANGED changes
    /\ \/ pc \in {"finalize", "unfinalize", "create", "update", "orphan", "release", "report"}
          /\ Fail
       \/ pc = "reset" /\ Goto("list", [loc EXCEPT !.disc = Recounted(0)])
       \/ pc = "count"
          /\ Goto("reportError", [loc EXCEPT !.disc = Recounted(incrementFailureCount)])
       \/ pc = "reportError" /\ Return(TRUE)
    /\ UNCHANGED <<apiVars, cacheVars, watchVars>>

\* Or it has its effect and only the answer is lost; where that is only logged,
\* Reconcile goes on as if the call had succeeded.
AnswerLost ==
    /\ faults < MaxFaults /\ faults' = faults + 1 /\ UNCHANGED changes
    /\ \/ /\ pc = "finalize" /\ HoldsLatest
          /\ StoreDisc([disc EXCEPT !.finalizer = TRUE]) /\ Fail
       \/ pc = "unfinalize" /\ HoldsLatest /\ StoreDisc(None) /\ Fail
       \/ \E n \in Names :
             /\ \/ pc = "create" /\ n \in loc.missing
                \/ pc = "update" /\ n \in loc.outdated
             /\ Accepted(n) /\ StorePipeline(n, Provided(n)) /\ Fail
       \/ \E n \in Names :
             pc \in {"orphan", "release"} /\ MayPart(n) /\ StorePipeline(n, Parted(n)) /\ Fail
       \/ pc = "report" /\ SeesLatest /\ Persist(RunningStatus) /\ Fail

\* The successor of a dead operator lists every object, an event for each.
Restart ==
    /\ faults < MaxFaults /\ faults' = faults + 1 /\ UNCHANGED changes
    /\ cdisc' = disc /\ cpipes' = pipes /\ stale' = {} /\ wakes' = {}
    /\ dirty' = TRUE /\ requeue' = FALSE
    /\ pc' = "idle" /\ loc' = NoLocals
    /\ UNCHANGED apiVars

DeliverDisc ==
    /\ "disc" \in stale
    /\ cdisc' = disc /\ stale' = stale \ {"disc"}
    /\ dirty' = TRUE
    /\ UNCHANGED <<apiVars, cpipes, wakes, requeue, workVars, budgetVars>>

\* Mutant: no Owns, changes of pipelines wake nobody.
DeliverPipelineUnwatched(n) ==
    /\ n \in stale
    /\ cpipes' = [cpipes EXCEPT ![n] = pipes[n]]
    /\ stale' = stale \ {n} /\ wakes' = wakes \ {n}
    /\ UNCHANGED <<apiVars, cdisc, queueVars, workVars, budgetVars>>

DeliverPipeline(n) ==
    /\ n \in stale
    /\ cpipes' = [cpipes EXCEPT ![n] = pipes[n]]
    /\ stale' = stale \ {n} /\ wakes' = wakes \ {n}
    /\ dirty' = (dirty \/ n \in wakes)
    /\ UNCHANGED <<apiVars, cdisc, requeue, workVars, budgetVars>>

TimerFires ==
    /\ requeue
    /\ requeue' = FALSE /\ dirty' = TRUE
    /\ UNCHANGED <<apiVars, cacheVars, watchVars, workVars, budgetVars>>

-----------------------------------------------------------------------------
(***************************************************************************)
(* Everybody else: users, Kafka or S3, the pipeline controller and the     *)
(* garbage collector.                                                      *)
(***************************************************************************)
CreateDisc ==
    /\ disc = None /\ uids < MaxUid
    /\ uids' = uids + 1
    /\ \E spec \in DiscSpecs :
          disc' = [uid |-> uids', generation |-> 1, spec |-> spec, deleting |-> FALSE,
                   finalizer |-> FALSE, failures |-> 0, status |-> NoStatus]
    /\ stale' = stale \cup {"disc"}
    /\ UNCHANGED <<pipes, world, cacheVars, wakes, queueVars, workVars, budgetVars>>

EditDisc ==
    /\ Live(disc) /\ disc.generation < MaxGeneration
    /\ \E spec \in DiscSpecs \ {disc.spec} :
          disc' = [disc EXCEPT !.spec = spec, !.generation = @ + 1]
    /\ stale' = stale \cup {"disc"}
    /\ UNCHANGED <<uids, pipes, world, cacheVars, wakes, queueVars, workVars, budgetVars>>

DeleteDisc ==
    /\ Live(disc)
    /\ disc' = IF disc.finalizer THEN [disc EXCEPT !.deleting = TRUE] ELSE None
    /\ stale' = stale \cup {"disc"}
    /\ UNCHANGED <<uids, pipes, world, cacheVars, wakes, queueVars, workVars, budgetVars>>

\* Sources come and go, Kafka or S3 becomes unreachable and comes back.
ChangeWorld ==
    /\ changes < MaxChanges /\ changes' = changes + 1
    /\ world' \in (Worlds \cup {None}) \ {world}
    /\ UNCHANGED <<disc, uids, pipes, cacheVars, watchVars, queueVars, workVars, faults>>

\* Pipeline n becomes p by somebody else's hand.
Replace(n, p) ==
    /\ StorePipeline(n, p)
    /\ UNCHANGED <<queueVars, workVars, faults>>

\* The pipeline controller reports a change of the pipeline's phase.
PipelineReports(n) ==
    /\ Live(pipes[n])
    /\ changes < MaxChanges /\ changes' = changes + 1
    /\ Replace(n, [pipes[n] EXCEPT !.unhealthy = ~ @])

\* The pipeline controller lets go of a deleted pipeline.
PipelineGone(n) == pipes[n] # None /\ pipes[n].deleting /\ Replace(n, None)
                   /\ UNCHANGED changes

\* Pipelines whose owner no longer exists.
Collect(n) ==
    /\ Live(pipes[n]) /\ Owned(pipes[n])
    /\ disc # None => disc.uid # pipes[n].owner
    /\ Replace(n, [pipes[n] EXCEPT !.deleting = TRUE])
    /\ UNCHANGED changes

-----------------------------------------------------------------------------
Worker ==
    \/ Begin \/ AddFinalizer \/ RemoveFinalizer \/ FinalizerConflict
    \/ Poll \/ CountFailure \/ ResetFailures \/ ListChildren
    \/ ListOrphans \/ ListOwned \/ ReportError \/ Report \/ ReportFails
    \/ \E n \in Names : CreateChild(n) \/ UpdateChild(n) \/ LetGo(n)

Users ==
    \/ CreateDisc \/ EditDisc \/ DeleteDisc \/ ChangeWorld
    \/ \E n \in Names : PipelineReports(n)

Others == \E n \in Names : DeliverPipeline(n) \/ PipelineGone(n) \/ Collect(n)

Next ==
    Worker \/ DeliverDisc \/ TimerFires \/ CallFails \/ AnswerLost \/ Restart
           \/ Others \/ Users

Spec == Init /\ [][Next]_vars

\* The manager keeps its worker and its watches running, timers fire, deleted
\* pipelines go and the garbage collector runs; users and failures owe nothing.
\* The events of the pipelines are one queue: some of them is served at last.
Fairness ==
    WF_vars(Worker) /\ WF_vars(DeliverDisc) /\ WF_vars(TimerFires) /\ WF_vars(Others)

FairSpec == Spec /\ Fairness

-----------------------------------------------------------------------------
Revisions == [template : {spec.template : spec \in DiscSpecs}, source : Sources]

ChildPipelines ==
    [owner : 0 .. MaxUid, labelled : BOOLEAN, hash : Revisions, unhealthy : BOOLEAN,
     deleting : BOOLEAN]

DiscStatuses ==
    [phase : {"", "Running", "Error"}, observed : 0 .. MaxGeneration,
     found : SUBSET Sources, updating : 0 .. Cardinality(Names)]

Discoveries ==
    [uid : 1 .. MaxUid, generation : 1 .. MaxGeneration, spec : DiscSpecs,
     deleting : BOOLEAN, finalizer : BOOLEAN, failures : 0 .. MaxFailures,
     status : DiscStatuses]

ASSUME NoneIsNothing == None \notin ChildPipelines /\ None \notin Discoveries

OrNone(S) == S \cup {None}

\* Types of the API objects, the caches, the queue entry and the locals of
\* Reconcile: the API schema of the CRD and the Go types of the reconciler.
TypeOK ==
    /\ disc \in OrNone(Discoveries) /\ cdisc \in OrNone(Discoveries) /\ uids \in 0 .. MaxUid
    /\ pipes \in [Names -> OrNone(ChildPipelines)]
    /\ cpipes \in [Names -> OrNone(ChildPipelines)]
    /\ world \in OrNone(Worlds) /\ stale \subseteq Names \cup {"disc"}
    /\ wakes \subseteq stale \cap Names
    /\ dirty \in BOOLEAN /\ requeue \in BOOLEAN
    /\ changes \in 0 .. MaxChanges /\ faults \in 0 .. MaxFaults
    /\ pc \in {"idle", "finalize", "unfinalize", "cleanup", "release", "poll", "count",
              "reset", "list", "create", "update", "sweep", "orphan", "report", "reportError"}
    /\ loc.disc \in OrNone(Discoveries) /\ loc.found \subseteq Sources
    /\ loc.missing \subseteq Names /\ loc.outdated \subseteq Names
    /\ loc.creations \in 0 .. Cardinality(loc.missing)
    /\ loc.updates \in 0 .. Cardinality(loc.outdated)
    /\ DOMAIN loc.list \subseteq Names

\* Nothing but the timer will make the operator look again.
Quiet == pc = "idle" /\ ~ dirty /\ stale = {}

(***************************************************************************)
(* Between two polls the pipelines are what the last one found: when the   *)
(* status of the current generation says Running and nothing is under way, *)
(* every source it lists has a pipeline, no other pipeline is claimed, and *)
(* each has the wanted revision unless updatingPipelines is above zero.    *)
(* Creation limits, lost answers, batches and restarts in between leave    *)
(* nothing behind, since every write of Reconcile wakes it again (Owns).   *)
(* Two failed calls can: when neither the failure count nor the status of  *)
(* a failed poll is written, the status stays that of an earlier poll.     *)
(* And a discovery whose source was taken out of the spec is left alone.   *)
(***************************************************************************)
QuietMeansProvisioned ==
    Quiet /\ Live(disc) /\ disc.spec.selects # None /\ faults <= 1
          /\ disc.status.phase = "Running" /\ disc.status.observed = disc.generation =>
        LET want == Desired(disc.spec, disc.status.found)
        IN /\ \A n \in DOMAIN want :
                 /\ pipes[n] # None /\ pipes[n].labelled
                 /\ disc.status.updating = 0 => pipes[n].hash = want[n]
           /\ \A n \in Names \ DOMAIN want :
                 Live(pipes[n]) => ~ pipes[n].labelled

\* Sources that are there all the time and that every spec with a source selects.
Permanent ==
    {s \in Sources : /\ \A W \in Worlds : s \in W
                     /\ \A spec \in DiscSpecs : spec.selects # None => s \in spec.selects}

(***************************************************************************)
(* The pipeline of a source that never disappears is never deleted or let  *)
(* go of while the discovery lives: not by a poll that fails, not by one   *)
(* that ran under an older spec, not on the strength of a stale list.      *)
(***************************************************************************)
KeepsServedPipelines ==
    [][ \A s \in Permanent :
          LET n == sanitizeName[s]
          IN Live(disc) /\ Live(pipes[n]) /\ pipes[n].owner = disc.uid =>
                Live(pipes'[n]) /\ pipes'[n].labelled /\ pipes'[n].owner = disc.uid ]_vars

(***************************************************************************)
(* Polling never stops: whatever a reconcile of a discovery with a source  *)
(* ends with, a timer, a retry or an event brings the next one.            *)
(***************************************************************************)
PollingContinues ==
    Live(disc) /\ pc = "idle" /\ disc.spec.selects # None =>
        requeue \/ dirty \/ "disc" \in stale

(***************************************************************************)
(* A pipeline the Orphan policy let go of stays: neither a later sweep nor *)
(* the deletion of the discovery takes it with them.  (After a switch to   *)
(* the Delete policy a sweep with a stale list may still delete it.)       *)
(***************************************************************************)
ReleasedPipelinesStay ==
    [][ \A n \in Names :
          /\ Live(pipes[n]) /\ ~ pipes[n].labelled /\ pipes[n].owner \in {0, uids}
          /\ loc.disc # None => loc.disc.spec.policy = "Orphan"
          => Live(pipes'[n]) ]_vars

\* The object and the worker of the finalizer protocol.
FinalizerObject ==
    [uid   |-> IF disc = None THEN 0 ELSE disc.uid,
     state |-> IF disc = None THEN "absent"
               ELSE IF disc.deleting THEN "ending"
               ELSE IF disc.finalizer THEN "guarded" ELSE "fresh"]

Working == {"poll", "count", "reset", "list", "create", "update", "sweep", "orphan",
            "report", "reportError"}

FinalizerWork == IF pc \in Working THEN loc.disc.uid ELSE 0

Protocol == INSTANCE FinalizerProtocol WITH
    object <- FinalizerObject, born <- uids, work <- FinalizerWork

(***************************************************************************)
(* The discovery controller implements the finalizer protocol: it polls,   *)
(* creates, updates and sweeps only for a discovery that exists, the one   *)
(* it began with even though it reads the object again on the way, and a   *)
(* deleted discovery goes only by its hand, when all that is over.         *)
(***************************************************************************)
FinalizerHonoured == Protocol!Spec

\* The pipelines are what the sources call for.  A rollout may be paused by an
\* unhealthy pipeline of the wanted revision.
Provisioned ==
    LET want == Desired(disc.spec, Discover(disc.spec))
        paused == \E n \in DOMAIN want :
                     Live(pipes[n]) /\ pipes[n].unhealthy /\ pipes[n].hash = want[n]
    IN /\ \A n \in DOMAIN want : Live(pipes[n]) /\ pipes[n].labelled
                                /\ (pipes[n].hash = want[n] \/ paused)
       /\ \A n \in Names \ DOMAIN want : pipes[n] = None \/ ~ pipes[n].labelled

Tidy ==
    IF Live(disc)
    THEN disc.spec.selects # None /\ disc.spec.template # "broken" /\ world # None
            => Provisioned
    ELSE disc = None /\ \A n \in Names : ~ Owned(pipes[n])

(***************************************************************************)
(* Once sources, users and pipelines stop changing, every source has its   *)
(* pipeline in the current revision (or the rollout is paused), pipelines  *)
(* of vanished sources are gone or let go of, and a deleted discovery has  *)
(* disappeared with the pipelines it owned.                                *)
(***************************************************************************)
EventuallyProvisioned == <>[][~ Users]_vars => <>[]Tidy

(***************************************************************************)
(* New pipelines come in batches, and the next batch waits for the health  *)
(* of the last: reconcilePipelines goes on to create pipelines only if all *)
(* it has listed from the same template are neither Degraded nor in Error. *)
(***************************************************************************)
CreationWaitsForHealth ==
    [][ pc = "list" /\ pc' = "create" =>
          \A n \in Listed : cpipes[n].hash.template = loc.disc.spec.template
                              => ~ cpipes[n].unhealthy ]_vars
=============================================================================

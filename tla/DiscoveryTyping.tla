--------------------------- MODULE DiscoveryTyping ---------------------------
(***************************************************************************)
(* Type correctness of the source discovery controller, and what each of   *)
(* its actions does to the objects and to the worker.                      *)
(***************************************************************************)
EXTENDS DiscoveryInvariant, FiniteSetTheorems, TLAPS

-----------------------------------------------------------------------------
(***************************************************************************)
(* Finite sets of numbers and of names.                                    *)
(***************************************************************************)

\* By a smallest set without a greatest element.
LEMMA MaxIsThere ==
    ASSUME NEW S, S \subseteq Nat, IsFiniteSet(S), S # {}
    PROVE  Max(S) \in S /\ \A y \in S : Max(S) >= y
<1> DEFINE Topped(A) == \E x \in A : \A y \in A : x >= y
           C == {A \in SUBSET S : A # {} /\ ~ Topped(A)}
<1>1. IsWellFoundedOn(StrictSubsetOrdering(S), SUBSET S)
  BY FS_StrictSubsetOrderingWellFounded, FS_FiniteSubsetsOfFinite
<1>2. C = {}
  <2> SUFFICES ASSUME C # {} PROVE FALSE
    OBVIOUS
  <2>1. C \subseteq SUBSET S
    OBVIOUS
  <2>2. PICK A \in C : \A B \in C : ~ (<<B, A>> \in StrictSubsetOrdering(S))
    <3> HIDE DEF C
    <3> QED
      BY <1>1, <2>1, WFMin
  <2>3. PICK a \in A : TRUE
    OBVIOUS
  <2>4. A \ {a} \notin C
    BY <2>2, <2>3 DEF StrictSubsetOrdering
  <2>5. CASE A \ {a} = {}
    BY <2>3, <2>5
  <2>6. CASE Topped(A \ {a})
    <3>1. PICK x \in A \ {a} : \A y \in A \ {a} : x >= y
      BY <2>6
    <3>2. a \in Nat /\ x \in Nat /\ A \subseteq Nat
      BY <2>3, <3>1
    <3>3. CASE x >= a
      BY <3>1, <3>2, <3>3
    <3>4. CASE a >= x
      BY <3>1, <3>2, <3>4
    <3> QED
      BY <3>2, <3>3, <3>4
  <2> QED
    BY <2>4, <2>5, <2>6
<1>3. Topped(S)
  BY <1>2
<1> QED
  BY <1>3 DEF Max

LEMMA MinOfTwo ==
    ASSUME NEW a \in Nat, NEW b \in Nat
    PROVE  /\ Min({a, b}) \in {a, b} /\ Min({a, b}) <= a /\ Min({a, b}) <= b
<1>1. \E x \in {a, b} : \A y \in {a, b} : x =< y
  <2>1. a =< b \/ b =< a
    OBVIOUS
  <2> QED
    BY <2>1
<1> QED
  BY <1>1 DEF Min

LEMMA MaxOfTwo ==
    ASSUME NEW a \in Nat, NEW b \in Nat
    PROVE  Max({a, b}) \in {a, b}
<1>1. \E x \in {a, b} : \A y \in {a, b} : x >= y
  <2>1. a >= b \/ b >= a
    OBVIOUS
  <2> QED
    BY <2>1
<1> QED
  BY <1>1 DEF Max

LEMMA NamesFinite ==
    /\ IsFiniteSet(Names) /\ "disc" \notin Names
    /\ \A S \in SUBSET Names : IsFiniteSet(S) /\ Cardinality(S) \in Nat
                               /\ Cardinality(S) <= Cardinality(Names)
<1> DEFINE f == [s \in Sources |-> sanitizeName[s]]
<1>1. f \in Surjection(Sources, Names)
  BY DEF Surjection, Names
<1>2. IsFiniteSet(Names)
  BY <1>1, FS_Surjection, DiscoveryConstants
<1> QED
  BY <1>2, FS_Subset, FS_CardinalityType, DiscoveryConstants DEF Names

\* Each pipeline wanted has a revision.
LEMMA DesiredTyped ==
    ASSUME NEW spec \in DiscSpecs, NEW found \in SUBSET Sources
    PROVE  /\ DOMAIN Desired(spec, found) \subseteq Names
           /\ \A n \in DOMAIN Desired(spec, found) : Desired(spec, found)[n] \in Revisions
<1>1. DOMAIN Desired(spec, found) = {sanitizeName[s] : s \in found}
  BY DEF Desired
<1>2. ASSUME NEW n \in DOMAIN Desired(spec, found)
      PROVE  Desired(spec, found)[n] \in Revisions
  <2> DEFINE S == {s \in found : sanitizeName[s] = n}
  <2>1. S \subseteq Sources /\ S # {}
    BY <1>1
  <2>2. S \subseteq Nat /\ IsFiniteSet(S)
    <3> HIDE DEF S
    <3>1. S \subseteq Nat
      BY <2>1, DiscoveryConstants
    <3>2. IsFiniteSet(Sources)
      BY DiscoveryConstants
    <3>3. IsFiniteSet(S)
      BY <2>1, <3>2, FS_Subset, Zenon
    <3> QED
      BY <3>1, <3>3
  <2>3. Max(S) \in Sources
    <3> HIDE DEF S
    <3> QED
      BY <2>1, <2>2, MaxIsThere
  <2>4. Desired(spec, found)[n] = [template |-> spec.template, source |-> Max(S)]
    BY <1>1 DEF Desired, renderPipelineSpec
  <2> QED
    BY <2>3, <2>4 DEF Revisions
<1> QED
  BY <1>1, <1>2 DEF Names

-----------------------------------------------------------------------------
(***************************************************************************)
(* Types.  The objects, their caches and the worker are taken apart, as    *)
(* the actions are.                                                        *)
(***************************************************************************)
Labels == {"idle", "finalize", "unfinalize", "cleanup", "release", "poll", "count",
           "reset", "list", "create", "update", "sweep", "orphan", "report", "reportError"}

ObjectsOK ==
    /\ disc \in OrNone(Discoveries) /\ cdisc \in OrNone(Discoveries) /\ uids \in 0 .. MaxUid
    /\ pipes \in [Names -> OrNone(ChildPipelines)]
    /\ cpipes \in [Names -> OrNone(ChildPipelines)]
    /\ world \in OrNone(Worlds) /\ stale \subseteq Names \cup {"disc"}
    /\ wakes \subseteq stale \cap Names
    /\ Caches

WorkerOK ==
    /\ dirty \in BOOLEAN /\ requeue \in BOOLEAN
    /\ pc \in Labels /\ loc \in Locals
    /\ loc.creations <= Cardinality(loc.missing)
    /\ loc.updates <= Cardinality(loc.outdated)
    /\ Stages

BudgetOK == changes \in 0 .. MaxChanges /\ faults \in 0 .. MaxFaults

Sound == ObjectsOK /\ WorkerOK /\ BudgetOK

LEMMA SoundTypes == Sound => TypeOK
<1> SUFFICES ASSUME Sound PROVE TypeOK
  OBVIOUS
<1>1. loc \in Locals
  BY DEF Sound, WorkerOK
<1>2. /\ loc.disc \in OrNone(Discoveries) /\ loc.found \subseteq Sources
      /\ loc.missing \subseteq Names /\ loc.outdated \subseteq Names
      /\ loc.creations \in Nat /\ loc.updates \in Nat /\ loc.list \in Lists
  BY <1>1 DEF Locals
<1>3. DOMAIN loc.list \subseteq Names
  BY <1>2 DEF Lists
<1>4. /\ loc.creations \in 0 .. Cardinality(loc.missing)
      /\ loc.updates \in 0 .. Cardinality(loc.outdated)
  BY <1>2, NamesFinite DEF Sound, WorkerOK
<1> QED
  BY <1>2, <1>3, <1>4 DEF Sound, ObjectsOK, WorkerOK, BudgetOK, TypeOK, Labels

LEMMA ListsTyped ==
    /\ << >> \in Lists
    /\ \A S \in SUBSET Names : \A f \in [S -> ChildPipelines] : f \in Lists
    /\ \A l \in Lists : /\ DOMAIN l \subseteq Names
                        /\ l \in [DOMAIN l -> ChildPipelines]
                        /\ \A n \in DOMAIN l : l[n] \in ChildPipelines
<1>1. << >> \in [{} -> ChildPipelines]
  OBVIOUS
<1> QED
  BY <1>1 DEF Lists

LEMMA NoLocalsTyped == NoLocals \in Locals /\ NoLocals.disc = None
  BY ListsTyped DEF NoLocals, Locals, OrNone

\* A pass that ends, or has not begun.
LEMMA IdleSound ==
    ASSUME pc' = "idle", loc' = NoLocals, dirty' \in BOOLEAN, requeue' \in BOOLEAN
    PROVE  WorkerOK'
<1>1. loc'.creations = 0 /\ loc'.updates = 0 /\ loc'.missing = {} /\ loc'.outdated = {}
      /\ loc'.disc = None
  BY DEF NoLocals
<1>2. Stages'
  BY <1>1 DEF Stages
<1> QED
  BY <1>1, <1>2, NoLocalsTyped, FS_EmptySet DEF WorkerOK, Labels

LEMMA FailSound ==
    ASSUME WorkerOK, Fail
    PROVE  WorkerOK'
  BY IdleSound DEF WorkerOK, Fail

LEMMA ReturnSound ==
    ASSUME WorkerOK, NEW after \in BOOLEAN, Return(after)
    PROVE  WorkerOK'
  BY IdleSound DEF WorkerOK, Return

LEMMA SameWorker ==
    ASSUME WorkerOK, UNCHANGED <<pc, loc>>, dirty' \in BOOLEAN, requeue' \in BOOLEAN
    PROVE  WorkerOK'
  BY DEF WorkerOK, Stages, Want

\* The locals l suit label.
Suits(label, l) ==
    /\ label # "idle" /\ l.disc # None
    /\ label = "create" => l.creations > 0
    /\ label = "update" => l.updates > 0
    /\ label \in {"create", "update"} =>
          l.missing \cup l.outdated \subseteq DOMAIN Desired(l.disc.spec, l.found)
    /\ label = "finalize" => ~ l.disc.deleting /\ ~ l.disc.finalizer
    /\ label \in {"cleanup", "release", "unfinalize"} => l.disc.deleting
    /\ l.creations <= Cardinality(l.missing) /\ l.updates <= Cardinality(l.outdated)

LEMMA GotoSound ==
    ASSUME WorkerOK, NEW label \in Labels, NEW l \in Locals, Suits(label, l), Goto(label, l)
    PROVE  WorkerOK'
<1>1. pc' = label /\ loc' = l /\ UNCHANGED <<dirty, requeue>>
  BY DEF Goto, queueVars
<1> QED
  BY <1>1 DEF WorkerOK, Suits, Stages, Want

LEMMA AtWork ==
    ASSUME WorkerOK, pc # "idle"
    PROVE  Suits(pc, loc) /\ loc.disc \in Discoveries
  BY DEF WorkerOK, Suits, Stages, Want, Locals, OrNone

\* Nothing stored and nothing delivered.
LEMMA SameObjects ==
    ASSUME ObjectsOK, UNCHANGED <<apiVars, cacheVars, watchVars>>
    PROVE  ObjectsOK'
<1>1. UNCHANGED <<disc, uids, pipes, world, cdisc, cpipes, stale, wakes>>
  BY DEF apiVars, cacheVars, watchVars
<1> QED
  BY <1>1 DEF ObjectsOK, Caches

\* The discovery object is stored, or found unchanged.
DiscStored ==
    /\ UNCHANGED <<pipes, world, cdisc, cpipes, wakes>>
    /\ stale' = stale \cup {"disc"} \/ (stale' = stale /\ disc' = disc)

LEMMA DiscChanged ==
    ASSUME ObjectsOK, DiscStored, disc' \in OrNone(Discoveries), uids' \in 0 .. MaxUid
    PROVE  ObjectsOK'
<1>1. /\ "disc" \notin stale' => stale' = stale /\ disc' = disc
      /\ \A n \in Names : n \in stale' <=> n \in stale
      /\ stale' \subseteq Names \cup {"disc"}
  BY NamesFinite DEF DiscStored, ObjectsOK
<1>2. Caches'
  BY <1>1 DEF DiscStored, ObjectsOK, Caches
<1> QED
  BY <1>1, <1>2 DEF DiscStored, ObjectsOK

LEMMA StoreDiscSound ==
    ASSUME ObjectsOK, NEW d \in OrNone(Discoveries), StoreDisc(d)
    PROVE  ObjectsOK' /\ DiscStored /\ disc' = d /\ uids' = uids
<1>1. DiscStored /\ disc' = d /\ uids' = uids
  BY DEF StoreDisc, DiscStored, cacheVars
<1> QED
  BY <1>1, DiscChanged DEF ObjectsOK

LEMMA PersistSound ==
    ASSUME ObjectsOK, disc # None, NEW st \in DiscStatuses, Persist(st)
    PROVE  ObjectsOK' /\ DiscStored /\ uids' = uids /\ disc' = [disc EXCEPT !.status = st]
<1>1. DiscStored /\ disc' = [disc EXCEPT !.status = st] /\ uids' = uids
  BY DEF Persist, DiscStored, cacheVars
<1>2. disc \in Discoveries
  BY DEF ObjectsOK, OrNone
<1>3. disc' \in Discoveries
  BY <1>1, <1>2 DEF Discoveries
<1> QED
  BY <1>1, <1>3, DiscChanged DEF ObjectsOK, OrNone

LEMMA PipelineStored ==
    ASSUME ObjectsOK, NEW n \in Names, NEW p \in OrNone(ChildPipelines),
           Claimed(p) => Owned(p), StorePipeline(n, p)
    PROVE  ObjectsOK'
<1>1. /\ UNCHANGED <<disc, uids, world, cdisc, cpipes>>
      /\ pipes' = [pipes EXCEPT ![n] = p]
      /\ stale' = IF p = pipes[n] THEN stale ELSE stale \cup {n}
      /\ wakes' = IF p # pipes[n] /\ (Owned(p) \/ Owned(pipes[n])) THEN wakes \cup {n} ELSE wakes
  BY DEF StorePipeline, cacheVars
<1>2. pipes' \in [Names -> OrNone(ChildPipelines)] /\ pipes \in [Names -> OrNone(ChildPipelines)]
  BY <1>1 DEF ObjectsOK
<1>3. stale' \subseteq Names \cup {"disc"} /\ wakes' \subseteq stale' \cap Names
  BY <1>1 DEF ObjectsOK
<1>4. "disc" \notin stale' => cdisc' = disc'
  BY <1>1 DEF ObjectsOK, Caches
<1>5. ASSUME NEW m \in Names, m # n
      PROVE  pipes'[m] = pipes[m] /\ (m \in stale' <=> m \in stale) /\ (m \in wakes' <=> m \in wakes)
  BY <1>1, <1>2, <1>5
<1>6. pipes'[n] = p
  BY <1>1, <1>2
<1>7. CASE p = pipes[n]
  <2>1. pipes' = pipes /\ UNCHANGED <<stale, wakes>>
    BY <1>1, <1>2, <1>7
  <2> QED
    BY <1>1, <1>2, <1>3, <2>1 DEF ObjectsOK, Caches
<1>8. CASE p # pipes[n]
  <2>1. n \in stale' /\ (n \notin wakes' => ~ Owned(p) /\ ~ Owned(pipes[n]) /\ n \notin wakes)
    BY <1>1, <1>8
  <2>2. n \notin wakes' => ~ Owned(cpipes[n])
    BY <2>1 DEF ObjectsOK, Caches
  <2>3. Caches'
    BY <1>1, <1>4, <1>5, <1>6, <2>1, <2>2 DEF ObjectsOK, Caches
  <2> QED
    BY <1>1, <1>2, <1>3, <2>3 DEF ObjectsOK
<1> QED
  BY <1>7, <1>8

LEMMA DeliverSound ==
    ASSUME Sound, DeliverDisc \/ Restart \/ TimerFires \/ \E n \in Names : DeliverPipeline(n)
    PROVE  Sound'
<1>1. CASE DeliverDisc
  <2>1. /\ cdisc' = disc /\ stale' = stale \ {"disc"} /\ dirty' = TRUE
        /\ UNCHANGED <<disc, uids, pipes, world, cpipes, wakes, requeue, pc, loc, changes, faults>>
    BY <1>1 DEF DeliverDisc, apiVars, workVars, budgetVars
  <2>2. \A n \in Names : n \in stale' <=> n \in stale
    BY <2>1, NamesFinite
  <2>3. Caches'
    BY <2>1, <2>2 DEF Sound, ObjectsOK, Caches
  <2>4. ObjectsOK'
    BY <2>1, <2>2, <2>3 DEF Sound, ObjectsOK
  <2> QED
    BY <2>1, <2>4, SameWorker DEF Sound, WorkerOK, BudgetOK
<1>2. CASE Restart
  <2>1. /\ cdisc' = disc /\ cpipes' = pipes /\ stale' = {} /\ wakes' = {}
        /\ dirty' = TRUE /\ requeue' = FALSE /\ pc' = "idle" /\ loc' = NoLocals
        /\ UNCHANGED <<disc, uids, pipes, world, changes>>
        /\ faults' = faults + 1 /\ faults < MaxFaults
    BY <1>2 DEF Restart, apiVars
  <2>2. ObjectsOK'
    BY <2>1 DEF Sound, ObjectsOK, Caches
  <2>3. BudgetOK'
    BY <2>1, DiscoveryConstants DEF Sound, BudgetOK
  <2> QED
    BY <2>1, <2>2, <2>3, IdleSound DEF Sound
<1>3. CASE TimerFires
  <2>1. /\ requeue' = FALSE /\ dirty' = TRUE
        /\ UNCHANGED <<apiVars, cacheVars, watchVars, pc, loc, changes, faults>>
    BY <1>3 DEF TimerFires, workVars, budgetVars
  <2> QED
    BY <2>1, SameWorker, SameObjects DEF Sound, BudgetOK
<1>4. ASSUME NEW n \in Names, DeliverPipeline(n) PROVE Sound'
  <2>1. /\ n \in stale /\ cpipes' = [cpipes EXCEPT ![n] = pipes[n]]
        /\ stale' = stale \ {n} /\ wakes' = wakes \ {n} /\ dirty' = (dirty \/ n \in wakes)
        /\ UNCHANGED <<disc, uids, pipes, world, cdisc, requeue, pc, loc, changes, faults>>
    BY <1>4 DEF DeliverPipeline, apiVars, workVars, budgetVars
  <2>2. pipes[n] \in OrNone(ChildPipelines) /\ cpipes \in [Names -> OrNone(ChildPipelines)]
    BY DEF Sound, ObjectsOK
  <2>3. cpipes' \in [Names -> OrNone(ChildPipelines)] /\ cpipes'[n] = pipes[n]
        /\ \A m \in Names : m # n => cpipes'[m] = cpipes[m] /\ (m \in stale' <=> m \in stale)
                                                           /\ (m \in wakes' <=> m \in wakes)
    BY <2>1, <2>2
  <2>4. "disc" \in stale' <=> "disc" \in stale
    BY <2>1, NamesFinite
  <2>5. Caches'
    BY <2>1, <2>3, <2>4 DEF Sound, ObjectsOK, Caches
  <2>6. ObjectsOK'
    BY <2>1, <2>3, <2>5 DEF Sound, ObjectsOK
  <2>7. dirty' \in BOOLEAN
    BY <2>1
  <2> QED
    BY <2>1, <2>6, <2>7, SameWorker DEF Sound, WorkerOK, BudgetOK
<1> QED
  BY <1>1, <1>2, <1>3, <1>4

-----------------------------------------------------------------------------
LEMMA DiscFields ==
    ASSUME NEW d \in Discoveries
    PROVE  /\ d # None /\ d.spec \in DiscSpecs /\ d.uid \in 0 .. MaxUid /\ d.uid \in Nat
           /\ d.uid # 0 /\ d.deleting \in BOOLEAN /\ d.finalizer \in BOOLEAN
           /\ d.status \in DiscStatuses /\ d.failures \in 0 .. MaxFailures
           /\ d.generation \in 0 .. MaxGeneration
  BY DiscoveryConstants, NoneIsNothing DEF Discoveries

\* The pipeline that CreateOrUpdate is after.
LEMMA ProvidedTyped ==
    ASSUME Sound, pc \in {"create", "update"}, NEW n \in loc.missing \cup loc.outdated
    PROVE  /\ n \in Names /\ n \in DOMAIN Want
           /\ Provided(n) \in ChildPipelines /\ Provided(n).labelled
           /\ Provided(n).owner = loc.disc.uid /\ Provided(n).hash = Want[n]
           /\ cpipes[n] # None => Provided(n).deleting = cpipes[n].deleting
           /\ Claimed(Provided(n)) /\ Owned(Provided(n))
<1>1. loc \in Locals /\ loc.disc \in Discoveries /\ n \in DOMAIN Want
  BY AtWork DEF Sound, WorkerOK, Stages
<1>2. /\ loc.disc.spec \in DiscSpecs /\ loc.found \in SUBSET Sources
      /\ loc.disc.uid \in 0 .. MaxUid /\ loc.disc.uid # 0
  BY <1>1, DiscFields DEF Locals
<1>3. n \in Names /\ Want[n] \in Revisions
  BY <1>1, <1>2, DesiredTyped DEF Want
<1>4. cpipes[n] \in OrNone(ChildPipelines)
  BY <1>3 DEF Sound, ObjectsOK
<1>5. CASE cpipes[n] = None
  <2>1. Provided(n) = [owner |-> loc.disc.uid, labelled |-> TRUE, hash |-> Want[n],
                       unhealthy |-> FALSE, deleting |-> FALSE]
    BY <1>5 DEF Provided, Want
  <2>2. Provided(n) \in ChildPipelines
    BY <1>2, <1>3, <2>1 DEF ChildPipelines
  <2>3. /\ Provided(n).labelled /\ Provided(n).owner = loc.disc.uid
        /\ Provided(n).hash = Want[n]
    BY <2>1
  <2>4. Claimed(Provided(n)) /\ Owned(Provided(n))
    BY <1>2, <2>2, <2>3, NoneIsNothing DEF Claimed, Owned
  <2> QED
    BY <1>1, <1>3, <1>5, <2>2, <2>3, <2>4
<1>6. CASE cpipes[n] # None
  <2>1. Provided(n) = [cpipes[n] EXCEPT !.owner = loc.disc.uid, !.labelled = TRUE,
                                        !.hash = Want[n]]
    BY <1>6 DEF Provided, Want
  <2>2. cpipes[n] \in ChildPipelines
    BY <1>4, <1>6 DEF OrNone
  <2>3. /\ Provided(n) \in ChildPipelines /\ Provided(n).labelled
        /\ Provided(n).owner = loc.disc.uid /\ Provided(n).hash = Want[n]
        /\ Provided(n).deleting = cpipes[n].deleting
    BY <1>2, <1>3, <2>1, <2>2 DEF ChildPipelines
  <2> QED
    BY <1>1, <1>2, <1>3, <2>3, NoneIsNothing DEF Claimed, Owned
<1> QED
  BY <1>5, <1>6

\* The pipeline that is let go of.
LEMMA PartedTyped ==
    ASSUME Sound, pc \in {"orphan", "release"}, NEW n \in Names, MayPart(n)
    PROVE  /\ Parted(n) \in ChildPipelines /\ (Claimed(Parted(n)) => Owned(Parted(n)))
           /\ Parted(n).deleting \/ ~ Parted(n).labelled
           /\ pipes[n] \in ChildPipelines
           /\ ~ Deletes => loc.list[n] = pipes[n] /\ Parted(n) = Released(pipes[n])
<1>1. /\ pipes[n] \in OrNone(ChildPipelines) /\ loc.list \in Lists
      /\ loc.disc \in Discoveries
  BY AtWork DEF Sound, ObjectsOK, WorkerOK, Locals
<1>2. CASE Deletes
  <2>1. pipes[n] \in ChildPipelines /\ Parted(n) = [pipes[n] EXCEPT !.deleting = TRUE]
    BY <1>1, <1>2 DEF MayPart, Parted, OrNone
  <2>2. /\ Parted(n) \in ChildPipelines /\ Parted(n).deleting
        /\ Parted(n).labelled = pipes[n].labelled /\ Parted(n).owner = pipes[n].owner
    BY <2>1 DEF ChildPipelines
  <2>3. Claimed(pipes[n]) => Owned(pipes[n])
    BY DEF Sound, ObjectsOK, Caches
  <2> QED
    BY <1>2, <2>1, <2>2, <2>3, NoneIsNothing DEF Claimed, Owned
<1>3. CASE ~ Deletes
  <2>1. /\ n \in DOMAIN loc.list /\ n \notin stale /\ loc.list[n] = cpipes[n]
        /\ Parted(n) = Released(loc.list[n])
    BY <1>3 DEF MayPart, StillLatest, Parted
  <2>2. loc.list[n] \in ChildPipelines /\ loc.list[n] = pipes[n]
    BY <1>1, <2>1, ListsTyped DEF Sound, ObjectsOK, Caches
  <2>3. 0 \in 0 .. MaxUid
    BY DiscoveryConstants
  <2>4. Parted(n) \in ChildPipelines /\ ~ Parted(n).labelled
    BY <2>1, <2>2, <2>3 DEF Released, ChildPipelines
  <2> QED
    BY <2>1, <2>2, <2>4, <1>3 DEF Claimed
<1> QED
  BY <1>2, <1>3

\* The locals with which a stage is entered suit it.
LEMMA StageSuits ==
    ASSUME NEW l \in Locals, l.disc # None,
           l.missing \cup l.outdated \subseteq DOMAIN Desired(l.disc.spec, l.found),
           l.creations <= Cardinality(l.missing), l.updates <= Cardinality(l.outdated)
    PROVE  Stage(l) \in {"create", "update", "sweep"} /\ Suits(Stage(l), l)
<1>1. l.creations \in Nat /\ l.updates \in Nat
  BY DEF Locals
<1>2. CASE l.creations > 0
  BY <1>2 DEF Stage, Suits
<1>3. CASE ~ (l.creations > 0) /\ l.updates > 0
  BY <1>3 DEF Stage, Suits
<1>4. CASE ~ (l.creations > 0) /\ ~ (l.updates > 0)
  BY <1>4 DEF Stage, Suits
<1> QED
  BY <1>2, <1>3, <1>4

LEMMA OneLess ==
    ASSUME NEW S \in SUBSET Names, NEW n \in S, NEW k \in Nat, 0 < k, k <= Cardinality(S)
    PROVE  S \ {n} \in SUBSET Names /\ k - 1 \in Nat /\ k - 1 <= Cardinality(S \ {n})
  BY NamesFinite, FS_RemoveElement

LEMMA ProvideSound ==
    ASSUME Sound, NEW n \in Names, UNCHANGED budgetVars, CreateChild(n) \/ UpdateChild(n)
    PROVE  Sound'
<1>1. loc \in Locals /\ pc \in {"create", "update"} /\ loc.disc # None
  BY DEF Sound, WorkerOK, Stages, CreateChild, UpdateChild
<1>2. /\ loc.missing \cup loc.outdated \subseteq DOMAIN Want
      /\ loc.missing \in SUBSET Names /\ loc.outdated \in SUBSET Names
      /\ loc.creations \in Nat /\ loc.updates \in Nat
      /\ loc.creations <= Cardinality(loc.missing) /\ loc.updates <= Cardinality(loc.outdated)
  BY <1>1 DEF Sound, WorkerOK, Stages, Locals
<1>3. ASSUME NEW l \in Locals, Provide(n, l), n \in loc.missing \cup loc.outdated,
             l.disc = loc.disc, l.found = loc.found,
             l.missing \subseteq loc.missing, l.outdated \subseteq loc.outdated,
             l.creations <= Cardinality(l.missing), l.updates <= Cardinality(l.outdated)
      PROVE  Sound'
  <2>1. Stage(l) \in Labels /\ Suits(Stage(l), l)
    <3>1. l.missing \cup l.outdated \subseteq DOMAIN Desired(l.disc.spec, l.found)
      BY <1>2, <1>3 DEF Want
    <3> QED
      BY <1>1, <1>3, <3>1, StageSuits DEF Labels
  <2>2. CASE Goto(Stage(l), l) /\ UNCHANGED <<apiVars, cacheVars, watchVars>>
    BY <2>1, <2>2, GotoSound, SameObjects DEF Sound, BudgetOK, budgetVars
  <2>3. CASE StorePipeline(n, Provided(n)) /\ Goto(Stage(l), l)
    <3>1. Provided(n) \in OrNone(ChildPipelines) /\ Owned(Provided(n))
      BY <1>1, <1>3, ProvidedTyped DEF OrNone
    <3>2. ObjectsOK'
      BY <2>3, <3>1, PipelineStored DEF Sound
    <3> QED
      BY <2>1, <2>3, <3>2, GotoSound DEF Sound, BudgetOK, budgetVars
  <2>4. CASE Fail /\ UNCHANGED <<apiVars, cacheVars, watchVars>>
    BY <2>4, FailSound, SameObjects DEF Sound, BudgetOK, budgetVars
  <2> QED
    BY <1>3, <2>2, <2>3, <2>4 DEF Provide
<1>4. CASE CreateChild(n)
  <2> DEFINE l == [loc EXCEPT !.missing = @ \ {n}, !.creations = @ - 1]
  <2>1. n \in loc.missing /\ Provide(n, l) /\ loc.creations > 0
    BY <1>4 DEF CreateChild, Sound, WorkerOK, Stages
  <2>2. /\ loc.missing \ {n} \in SUBSET Names /\ loc.creations - 1 \in Nat
        /\ loc.creations - 1 <= Cardinality(loc.missing \ {n})
    BY <1>2, <2>1, OneLess
  <2>3. /\ l \in Locals /\ l.disc = loc.disc /\ l.found = loc.found
        /\ l.missing = loc.missing \ {n} /\ l.outdated = loc.outdated
        /\ l.creations = loc.creations - 1 /\ l.updates = loc.updates
    BY <1>1, <2>2 DEF Locals
  <2> HIDE DEF l
  <2> QED
    BY <1>2, <1>3, <2>1, <2>2, <2>3
<1>5. CASE UpdateChild(n)
  <2> DEFINE l == [loc EXCEPT !.outdated = @ \ {n}, !.updates = @ - 1]
  <2>1. n \in loc.outdated /\ Provide(n, l) /\ loc.updates > 0
    BY <1>5 DEF UpdateChild, Sound, WorkerOK, Stages
  <2>2. /\ loc.outdated \ {n} \in SUBSET Names /\ loc.updates - 1 \in Nat
        /\ loc.updates - 1 <= Cardinality(loc.outdated \ {n})
    BY <1>2, <2>1, OneLess
  <2>3. /\ l \in Locals /\ l.disc = loc.disc /\ l.found = loc.found
        /\ l.missing = loc.missing /\ l.outdated = loc.outdated \ {n}
        /\ l.creations = loc.creations /\ l.updates = loc.updates - 1
    BY <1>1, <2>2 DEF Locals
  <2> HIDE DEF l
  <2> QED
    BY <1>2, <1>3, <2>1, <2>2, <2>3
<1> QED
  BY <1>4, <1>5

LEMMA LetGoSound ==
    ASSUME Sound, NEW n \in Names, LetGo(n)
    PROVE  Sound'
<1> DEFINE rest == [m \in DOMAIN loc.list \ {n} |-> loc.list[m]]
           after == IF DOMAIN rest # {} THEN pc ELSE IF pc = "release" THEN "unfinalize" ELSE "report"
           l == [loc EXCEPT !.list = rest]
<1>1. /\ pc \in {"orphan", "release"} /\ UNCHANGED budgetVars
      /\ \/ MayPart(n) /\ StorePipeline(n, Parted(n)) /\ Goto(after, l)
         \/ Fail /\ UNCHANGED <<apiVars, cacheVars, watchVars>>
  BY DEF LetGo
<1>2. loc \in Locals /\ Suits(pc, loc)
  BY <1>1, AtWork DEF Sound, WorkerOK
<1>3. rest \in Lists
  <2>1. loc.list \in Lists
    BY <1>2 DEF Locals
  <2>2. DOMAIN loc.list \ {n} \in SUBSET Names /\ rest \in [DOMAIN loc.list \ {n} -> ChildPipelines]
    BY <2>1, ListsTyped
  <2> HIDE DEF rest
  <2> QED
    BY <2>2, ListsTyped
<1>4. /\ l \in Locals /\ l.disc = loc.disc /\ l.missing = loc.missing
      /\ l.outdated = loc.outdated /\ l.creations = loc.creations /\ l.updates = loc.updates
  BY <1>2, <1>3 DEF Locals
<1>5. after \in {"orphan", "release", "unfinalize", "report"} /\ (pc = "orphan" => after \in {"orphan", "report"})
  BY <1>1
<1> HIDE DEF l, after, rest
<1>6. Suits(after, l) /\ after \in Labels
  BY <1>1, <1>2, <1>4, <1>5 DEF Suits, Labels
<1>7. CASE MayPart(n) /\ StorePipeline(n, Parted(n)) /\ Goto(after, l)
  <2>1. Parted(n) \in OrNone(ChildPipelines) /\ (Claimed(Parted(n)) => Owned(Parted(n)))
    BY <1>1, <1>7, PartedTyped DEF OrNone
  <2>2. ObjectsOK'
    BY <1>7, <2>1, PipelineStored DEF Sound
  <2> QED
    BY <1>1, <1>4, <1>6, <1>7, <2>2, GotoSound DEF Sound, BudgetOK, budgetVars
<1>8. CASE Fail /\ UNCHANGED <<apiVars, cacheVars, watchVars>>
  BY <1>1, <1>8, FailSound, SameObjects DEF Sound, BudgetOK, budgetVars
<1> QED
  BY <1>1, <1>7, <1>8

\* What Begin takes up.
LEMMA BeginEffect ==
    ASSUME Begin
    PROVE  /\ pc = "idle" /\ dirty /\ dirty' = FALSE
           /\ UNCHANGED <<apiVars, cacheVars, watchVars, requeue, budgetVars>>
           /\ \/ /\ pc' = "idle" /\ loc' = NoLocals
                 /\ cdisc = None \/ cdisc.deleting
              \/ /\ cdisc # None /\ loc' = [NoLocals EXCEPT !.disc = cdisc]
                 /\ \/ pc' = "cleanup" /\ cdisc.deleting /\ cdisc.finalizer
                    \/ pc' = "poll" /\ ~ cdisc.deleting /\ cdisc.finalizer
                    \/ pc' = "finalize" /\ ~ cdisc.deleting /\ ~ cdisc.finalizer
<1>1. /\ pc = "idle" /\ dirty /\ dirty' = FALSE
      /\ UNCHANGED <<apiVars, cacheVars, watchVars, requeue, budgetVars>>
      /\ loc' = IF pc' = "idle" THEN NoLocals ELSE [NoLocals EXCEPT !.disc = cdisc]
  BY DEF Begin
<1>2. CASE cdisc = None
  <2>1. pc' = "idle"
    BY <1>2, Zenon DEF Begin
  <2> QED
    BY <1>1, <1>2, <2>1
<1>3. CASE cdisc # None /\ cdisc.deleting
  <2>1. pc' = IF cdisc.finalizer THEN "cleanup" ELSE "idle"
    BY <1>3, Zenon DEF Begin
  <2> QED
    BY <1>1, <1>3, <2>1
<1>4. CASE cdisc # None /\ ~ cdisc.deleting
  <2>1. pc' = IF cdisc.finalizer THEN "poll" ELSE "finalize"
    BY <1>4, Zenon DEF Begin
  <2> QED
    BY <1>1, <1>4, <2>1
<1> QED
  BY <1>2, <1>3, <1>4

LEMMA BeginSound ==
    ASSUME Sound, Begin
    PROVE  Sound'
<1>1. ObjectsOK' /\ BudgetOK'
  BY BeginEffect, SameObjects DEF Sound, BudgetOK, budgetVars
<1>2. dirty' \in BOOLEAN /\ requeue' \in BOOLEAN
  BY BeginEffect DEF Sound, WorkerOK
<1>3. CASE pc' = "idle"
  <2>1. loc' = NoLocals
    BY <1>3, BeginEffect
  <2> QED
    BY <1>1, <1>2, <1>3, <2>1, IdleSound DEF Sound
<1>4. CASE pc' # "idle"
  <2>1. /\ cdisc # None /\ loc' = [NoLocals EXCEPT !.disc = cdisc]
        /\ \/ pc' = "cleanup" /\ cdisc.deleting /\ cdisc.finalizer
           \/ pc' = "poll" /\ ~ cdisc.deleting /\ cdisc.finalizer
           \/ pc' = "finalize" /\ ~ cdisc.deleting /\ ~ cdisc.finalizer
    BY <1>4, BeginEffect
  <2>2. /\ loc' \in Locals /\ loc'.disc = cdisc /\ loc'.missing = {} /\ loc'.outdated = {}
        /\ loc'.creations = 0 /\ loc'.updates = 0
    <3>1. cdisc \in OrNone(Discoveries)
      BY DEF Sound, ObjectsOK
    <3> QED
      BY <2>1, <3>1, NoLocalsTyped DEF NoLocals, Locals
  <2>3. Cardinality({}) = 0
    BY FS_EmptySet
  <2> QED
    BY <1>1, <1>2, <2>1, <2>2, <2>3 DEF Sound, WorkerOK, Stages, Labels
<1> QED
  BY <1>3, <1>4

\* HoldsLatest and SeesLatest: the copy is the stored discovery.
LEMMA Latest ==
    ASSUME Sound
    PROVE  /\ HoldsLatest /\ pc # "idle" => loc.disc = disc /\ cdisc = disc /\ disc \in Discoveries
           /\ SeesLatest => cdisc = disc /\ disc \in Discoveries
  BY AtWork DEF Sound, ObjectsOK, Caches, HoldsLatest, SeesLatest, OrNone

LEMMA FinalizerSound ==
    ASSUME Sound, AddFinalizer \/ RemoveFinalizer \/ FinalizerConflict
    PROVE  Sound'
<1>1. CASE AddFinalizer
  <2> DEFINE d == [disc EXCEPT !.finalizer = TRUE]
             l == [loc EXCEPT !.disc = disc']
  <2>1. /\ pc = "finalize" /\ HoldsLatest /\ StoreDisc(d) /\ Goto("poll", l)
        /\ UNCHANGED budgetVars
    BY <1>1 DEF AddFinalizer
  <2>2. disc \in Discoveries /\ d \in Discoveries
    BY <2>1, Latest DEF Discoveries
  <2> HIDE DEF d
  <2>3. ObjectsOK' /\ disc' = d
    BY <2>1, <2>2, StoreDiscSound DEF Sound, OrNone
  <2>4. loc \in Locals /\ Suits(pc, loc)
    BY <2>1, AtWork DEF Sound, WorkerOK
  <2>5. /\ l \in Locals /\ l.disc = d /\ l.missing = loc.missing /\ l.outdated = loc.outdated
        /\ l.creations = loc.creations /\ l.updates = loc.updates
    BY <2>2, <2>3, <2>4 DEF Locals, OrNone
  <2> HIDE DEF l
  <2>6. Suits("poll", l) /\ "poll" \in Labels
    BY <2>2, <2>4, <2>5, DiscFields DEF Suits, Labels
  <2> QED
    BY <2>1, <2>3, <2>5, <2>6, GotoSound DEF Sound, BudgetOK, budgetVars
<1>2. CASE RemoveFinalizer
  <2>1. StoreDisc(None) /\ Return(FALSE) /\ UNCHANGED budgetVars
    BY <1>2 DEF RemoveFinalizer
  <2>2. ObjectsOK'
    BY <2>1, StoreDiscSound DEF Sound, OrNone
  <2> QED
    BY <2>1, <2>2, ReturnSound DEF Sound, BudgetOK, budgetVars
<1>3. CASE FinalizerConflict
  BY <1>3, FailSound, SameObjects DEF FinalizerConflict, Sound, BudgetOK, budgetVars
<1> QED
  BY <1>1, <1>2, <1>3

\* The copy that RetryOnConflict leaves with Reconcile, whatever becomes of the Update.
LEMMA RecountedTyped ==
    ASSUME Sound, pc # "idle", NEW f, cdisc # None => f \in 0 .. MaxFailures,
           NEW l, l = [loc EXCEPT !.disc = Recounted(f)]
    PROVE  /\ l \in Locals /\ l.disc \in Discoveries /\ l = [loc EXCEPT !.disc = l.disc]
           /\ l.disc = Recounted(f) /\ (cdisc # None => l.disc.failures = f)
           /\ IF cdisc = None THEN l.disc = loc.disc
                              ELSE l.disc = [cdisc EXCEPT !.failures = f]
<1> DEFINE d == Recounted(f)
<1>1. loc \in Locals /\ loc.disc \in Discoveries /\ cdisc \in OrNone(Discoveries)
  BY AtWork DEF Sound, ObjectsOK, WorkerOK
<1>2. d = IF cdisc = None THEN loc.disc ELSE [cdisc EXCEPT !.failures = f]
  BY DEF Recounted
<1>3. d \in Discoveries /\ (cdisc # None => d.failures = f)
  BY <1>1, <1>2 DEF Discoveries, OrNone
<1> HIDE DEF d
<1>4. l = [loc EXCEPT !.disc = d]
  BY DEF d
<1>5. l.disc = d /\ l \in Locals
  BY <1>1, <1>3, <1>4 DEF Locals, OrNone
<1>6. l.disc = Recounted(f)
  BY <1>5 DEF d
<1> QED
  BY <1>2, <1>3, <1>4, <1>5, <1>6

\* Reconcile goes on with another copy of the discovery.
LEMMA RecopySound ==
    ASSUME Sound, pc # "idle", NEW l \in Locals, l.disc \in Discoveries,
           l = [loc EXCEPT !.disc = l.disc],
           NEW next \in {"reportError", "list"}, Goto(next, l)
    PROVE  WorkerOK'
<1>1. loc \in Locals /\ Suits(pc, loc)
  BY AtWork DEF Sound, WorkerOK
<1>2. /\ l.disc # None /\ l.missing = loc.missing /\ l.outdated = loc.outdated
      /\ l.creations = loc.creations /\ l.updates = loc.updates
  BY <1>1, NoneIsNothing DEF Locals
<1>3. Suits(next, l)
  BY <1>1, <1>2 DEF Suits
<1> QED
  BY <1>2, <1>3, GotoSound DEF Labels, Sound

LEMMA RecountEffect ==
    ASSUME Sound, pc # "idle", NEW f, cdisc # None => f \in 0 .. MaxFailures, NEW next,
           Recount(f, next)
    PROVE  /\ DiscStored /\ uids' = uids /\ disc' \in OrNone(Discoveries)
           /\ pc' = next /\ UNCHANGED <<dirty, requeue>>
           /\ loc'.disc \in Discoveries /\ loc' = [loc EXCEPT !.disc = loc'.disc]
           /\ IF cdisc = None THEN loc'.disc = loc.disc
                              ELSE loc'.disc = [cdisc EXCEPT !.failures = f]
           /\ IF SeesLatest THEN disc' = loc'.disc /\ (f # 0 => "disc" \in stale')
                            ELSE disc' = disc
<1> DEFINE d == Recounted(f)
<1>1. pc' = next /\ loc' = [loc EXCEPT !.disc = d] /\ UNCHANGED <<dirty, requeue>>
  BY DEF Recount, Goto, queueVars
<1>2. /\ loc' \in Locals /\ loc'.disc \in Discoveries /\ loc' = [loc EXCEPT !.disc = loc'.disc]
      /\ loc'.disc = d /\ (cdisc # None => loc'.disc.failures = f)
      /\ IF cdisc = None THEN loc'.disc = loc.disc
                         ELSE loc'.disc = [cdisc EXCEPT !.failures = f]
  BY <1>1, RecountedTyped
<1>3. CASE SeesLatest
  <2>1. /\ disc' = d /\ UNCHANGED <<uids, pipes, world, cacheVars, wakes>>
        /\ stale' = IF d = disc /\ d.failures = 0 THEN stale ELSE stale \cup {"disc"}
    BY <1>3 DEF Recount
  <2> HIDE DEF d
  <2>2. DiscStored /\ (d.failures # 0 => "disc" \in stale')
    BY <2>1 DEF DiscStored, cacheVars
  <2>3. cdisc # None
    BY <1>3 DEF SeesLatest
  <2> QED
    BY <1>1, <1>2, <1>3, <2>1, <2>2, <2>3 DEF OrNone
<1>4. CASE ~ SeesLatest
  <2>1. UNCHANGED <<disc, uids, pipes, world, cdisc, cpipes, stale, wakes>>
    BY <1>4 DEF Recount, apiVars, cacheVars, watchVars
  <2>2. DiscStored /\ disc \in OrNone(Discoveries)
    BY <2>1 DEF DiscStored, Sound, ObjectsOK
  <2> HIDE DEF d
  <2> QED
    BY <1>1, <1>2, <1>4, <2>1, <2>2
<1> QED
  BY <1>3, <1>4

LEMMA RecountSound ==
    ASSUME Sound, pc # "idle", NEW f, cdisc # None => f \in 0 .. MaxFailures,
           NEW next \in {"reportError", "list"}, Recount(f, next), UNCHANGED budgetVars
    PROVE  Sound'
<1>1. ObjectsOK'
  BY RecountEffect, DiscChanged DEF Sound, ObjectsOK
<1>2. loc' \in Locals /\ Goto(next, loc')
  <2>1. loc' = [loc EXCEPT !.disc = Recounted(f)]
    BY DEF Recount, Goto
  <2> QED
    BY <2>1, RecountedTyped, RecountEffect DEF Goto, queueVars
<1> QED
  BY <1>1, <1>2, RecountEffect, RecopySound DEF Sound, BudgetOK, budgetVars

\* A count that is written is above zero.
LEMMA CountTyped ==
    ASSUME Sound, cdisc # None
    PROVE  incrementFailureCount \in 0 .. MaxFailures /\ incrementFailureCount # 0
<1>1. cdisc.failures \in Nat
  BY DiscFields, DiscoveryConstants DEF Sound, ObjectsOK, OrNone
<1>2. MaxFailures \in Nat /\ MaxFailures # 0
  BY DiscoveryConstants
<1> QED
  BY <1>1, <1>2, MinOfTwo DEF incrementFailureCount

\* What the poll comes to.
LEMMA PollEffect ==
    ASSUME Sound, Poll
    PROVE  /\ pc = "poll" /\ UNCHANGED <<apiVars, cacheVars, watchVars, budgetVars>>
           /\ \/ loc.disc.spec.selects = None /\ Return(FALSE)
              \/ loc.disc.spec.selects # None /\ Goto("count", loc)
              \/ /\ loc.disc.spec.selects # None /\ world # None
                 /\ \E label \in {"reset", "list"} :
                       Goto(label, [loc EXCEPT !.found = Selected(loc.disc.spec, world)])
  BY DEF Poll, Discover

LEMMA PollSound ==
    ASSUME Sound, Poll
    PROVE  Sound'
<1>1. ObjectsOK' /\ BudgetOK' /\ pc = "poll"
  BY PollEffect, SameObjects DEF Sound, BudgetOK, budgetVars
<1>2. loc \in Locals /\ Suits(pc, loc)
  BY <1>1, AtWork DEF Sound, WorkerOK
<1>3. CASE Return(FALSE)
  BY <1>1, <1>3, ReturnSound DEF Sound
<1>4. CASE Goto("count", loc)
  BY <1>1, <1>2, <1>4, GotoSound DEF Sound, Suits, Labels
<1>5. ASSUME world # None, loc.disc.spec.selects # None, NEW label \in {"reset", "list"},
             Goto(label, [loc EXCEPT !.found = Selected(loc.disc.spec, world)])
      PROVE  Sound'
  <2> DEFINE l == [loc EXCEPT !.found = Selected(loc.disc.spec, world)]
  <2>1. Selected(loc.disc.spec, world) \in SUBSET Sources
    BY <1>5, DiscoveryConstants DEF Sound, ObjectsOK, OrNone, Selected
  <2>2. /\ l \in Locals /\ l.disc = loc.disc /\ l.missing = loc.missing
        /\ l.outdated = loc.outdated /\ l.creations = loc.creations /\ l.updates = loc.updates
    BY <1>2, <2>1 DEF Locals
  <2> HIDE DEF l
  <2>3. Suits(label, l)
    BY <1>2, <2>2 DEF Suits
  <2>4. Goto(label, l)
    BY <1>5 DEF l
  <2> QED
    BY <1>1, <2>2, <2>3, <2>4, GotoSound DEF Sound, Labels
<1> QED
  BY <1>3, <1>4, <1>5, PollEffect

\* What ListChildren decides to do.
LEMMA ListEffect ==
    ASSUME Sound, ListChildren
    PROVE  /\ pc = "list" /\ UNCHANGED <<apiVars, cacheVars, watchVars, budgetVars>>
           /\ \/ Fail
              \/ \E l \in Locals :
                    /\ Goto(Stage(l), l) /\ l.disc = loc.disc /\ l.found = loc.found
                    /\ l.missing = DOMAIN Want \ Listed
                    /\ l.outdated = {n \in DOMAIN Want \cap Listed : cpipes[n].hash # Want[n]}
                    /\ l.creations <= Cardinality(l.missing)
                    /\ l.updates <= Cardinality(l.outdated)
                    /\ l.creations = 0 => l.missing = {}
<1> DEFINE missing  == DOMAIN Want \ Listed
           current  == {n \in DOMAIN Want \cap Listed : cpipes[n].hash = Want[n]}
           outdated == (DOMAIN Want \cap Listed) \ current
           paused   == \E n \in current : cpipes[n].unhealthy
           creations == Creations(missing)
           batch    == Min({BatchSize(Cardinality(Listed)), Cardinality(outdated)})
           updates  == IF paused THEN 0 ELSE batch
           l == [loc EXCEPT !.missing = missing, !.creations = creations,
                            !.outdated = outdated, !.updates = updates]
<1>1. /\ pc = "list" /\ UNCHANGED <<apiVars, cacheVars, watchVars, budgetVars>>
      /\ \/ Fail
         \/ Goto(Stage(l), l)
  BY DEF ListChildren, Want
<1>2. loc \in Locals /\ loc.disc \in Discoveries
  BY <1>1, AtWork DEF Sound, WorkerOK
<1>3. loc.disc.spec \in DiscSpecs /\ loc.found \in SUBSET Sources
  BY <1>2, DiscFields DEF Locals
<1>4. /\ DOMAIN Want \subseteq Names /\ Listed \subseteq Names
      /\ loc.disc.spec.limit \in Nat /\ loc.disc.spec.limit # 0
  BY <1>3, DesiredTyped, DiscoveryConstants DEF Want, Listed
<1>5. missing \in SUBSET Names /\ outdated \in SUBSET Names
  BY <1>4
<1>6. /\ Cardinality(missing) \in Nat /\ IsFiniteSet(missing)
      /\ Cardinality(outdated) \in Nat /\ Cardinality(Listed) \in Nat
  BY <1>4, <1>5, NamesFinite
<1>7. creations \in Nat /\ creations <= Cardinality(missing) /\ (creations = 0 => missing = {})
  <2>1. creations \in {loc.disc.spec.limit, Cardinality(missing)} /\ creations <= Cardinality(missing)
    BY <1>4, <1>6, MinOfTwo DEF Creations
  <2>2. Cardinality(missing) = 0 => missing = {}
    BY <1>6, FS_EmptySet
  <2> QED
    BY <1>4, <1>6, <2>1, <2>2
<1>8. updates \in Nat /\ updates <= Cardinality(outdated)
  <2> DEFINE c == Cardinality(Listed)
             q == (c + 4) \div 5
  <2>1. q \in Nat
    BY <1>6
  <2>2. BatchSize(c) \in Nat
    <3>1. Max({1, q}) \in {1, q}
      BY <2>1, MaxOfTwo
    <3> QED
      BY <2>1, <3>1 DEF BatchSize
  <2>3. batch \in {BatchSize(c), Cardinality(outdated)} /\ batch <= Cardinality(outdated)
    BY <1>6, <2>2, MinOfTwo
  <2> HIDE DEF batch, outdated, paused
  <2> QED
    BY <1>6, <2>2, <2>3
<1>9. outdated = {n \in DOMAIN Want \cap Listed : cpipes[n].hash # Want[n]}
  OBVIOUS
<1> HIDE DEF missing, outdated, creations, updates
<1>10. /\ l \in Locals /\ l.disc = loc.disc /\ l.found = loc.found /\ l.missing = missing
       /\ l.outdated = outdated /\ l.creations = creations /\ l.updates = updates
  BY <1>2, <1>5, <1>7, <1>8 DEF Locals
<1> HIDE DEF l
<1>11. missing = DOMAIN Want \ Listed
  BY DEF missing
<1> QED
  BY <1>1, <1>7, <1>8, <1>9, <1>10, <1>11

LEMMA ListSound ==
    ASSUME Sound, ListChildren
    PROVE  Sound'
<1>1. ObjectsOK' /\ BudgetOK' /\ pc = "list"
  BY ListEffect, SameObjects DEF Sound, BudgetOK, budgetVars
<1>2. CASE Fail
  BY <1>1, <1>2, FailSound DEF Sound
<1>3. CASE ~ Fail
  <2>1. PICK l \in Locals :
          /\ Goto(Stage(l), l) /\ l.disc = loc.disc /\ l.found = loc.found
          /\ l.missing \cup l.outdated \subseteq DOMAIN Want
          /\ l.creations <= Cardinality(l.missing) /\ l.updates <= Cardinality(l.outdated)
    BY <1>3, ListEffect
  <2>2. loc.disc # None
    BY <1>1 DEF Sound, WorkerOK, Stages
  <2>3. Stage(l) \in Labels /\ Suits(Stage(l), l)
    BY <2>1, <2>2, StageSuits DEF Want, Labels
  <2> QED
    BY <1>1, <2>1, <2>3, GotoSound DEF Sound
<1> QED
  BY <1>2, <1>3

\* The two lists of pipelines to let go of.
LEMMA SweepEffect ==
    ASSUME Sound, ListOrphans \/ ListOwned
    PROVE  /\ UNCHANGED <<apiVars, cacheVars, watchVars, budgetVars>>
           /\ UNCHANGED <<dirty, requeue>>
           /\ loc' \in Locals /\ loc' = [loc EXCEPT !.list = loc'.list]
           /\ \/ /\ pc = "sweep" /\ DOMAIN loc'.list = Listed \ DOMAIN Want
                 /\ pc' = IF Listed \subseteq DOMAIN Want THEN "report" ELSE "orphan"
              \/ pc = "cleanup" /\ pc' \in {"unfinalize", "release"}
<1>1. ASSUME NEW S \in SUBSET Listed, NEW label, pc # "idle",
             Goto(label, [loc EXCEPT !.list = Copies(S)])
      PROVE  /\ UNCHANGED <<dirty, requeue>> /\ pc' = label
             /\ loc' \in Locals /\ loc' = [loc EXCEPT !.list = loc'.list]
             /\ DOMAIN loc'.list = S
  <2>1. Copies(S) \in [S -> ChildPipelines] /\ S \in SUBSET Names
    BY DEF Copies, Listed, Sound, ObjectsOK, OrNone
  <2>2. Copies(S) \in Lists /\ DOMAIN Copies(S) = S
    BY <2>1, ListsTyped
  <2>3. loc \in Locals
    BY DEF Sound, WorkerOK
  <2>4. /\ pc' = label /\ UNCHANGED <<dirty, requeue>>
        /\ loc' = [loc EXCEPT !.list = Copies(S)]
    BY <1>1 DEF Goto, queueVars
  <2> QED
    BY <2>2, <2>3, <2>4 DEF Locals
<1>2. CASE ListOrphans
  <2> DEFINE S == Listed \ DOMAIN Want
  <2>1. /\ pc = "sweep" /\ UNCHANGED <<apiVars, cacheVars, watchVars, budgetVars>>
        /\ Goto(IF S = {} THEN "report" ELSE "orphan", [loc EXCEPT !.list = Copies(S)])
    BY <1>2 DEF ListOrphans, Want
  <2>2. S \in SUBSET Listed /\ (S = {} <=> Listed \subseteq DOMAIN Want)
    OBVIOUS
  <2> QED
    BY <1>1, <2>1, <2>2
<1>3. CASE ListOwned
  <2> DEFINE S == IF loc.disc.spec.policy = "Orphan" THEN Listed ELSE {}
  <2>1. /\ pc = "cleanup" /\ UNCHANGED <<apiVars, cacheVars, watchVars, budgetVars>>
        /\ Goto(IF S = {} THEN "unfinalize" ELSE "release", [loc EXCEPT !.list = Copies(S)])
    BY <1>3 DEF ListOwned
  <2>2. S \in SUBSET Listed
    OBVIOUS
  <2> HIDE DEF S
  <2> QED
    BY <1>1, <2>1, <2>2
<1> QED
  BY <1>2, <1>3

LEMMA SweepSound ==
    ASSUME Sound, ListOrphans \/ ListOwned
    PROVE  Sound'
<1>1. ObjectsOK' /\ BudgetOK'
  BY SweepEffect, SameObjects DEF Sound, BudgetOK, budgetVars
<1>2. pc \in {"sweep", "cleanup"} /\ pc' \in {"report", "orphan", "unfinalize", "release"}
      /\ (pc' \in {"unfinalize", "release"} => pc = "cleanup")
  BY SweepEffect
<1>3. loc \in Locals /\ Suits(pc, loc)
  BY <1>2, AtWork DEF Sound, WorkerOK
<1>4. /\ loc' \in Locals /\ loc'.disc = loc.disc /\ loc'.missing = loc.missing
      /\ loc'.outdated = loc.outdated /\ loc'.creations = loc.creations
      /\ loc'.updates = loc.updates
  <2>1. loc' \in Locals /\ loc' = [loc EXCEPT !.list = loc'.list]
    BY SweepEffect
  <2> QED
    BY <1>3, <2>1 DEF Locals
<1>5. Suits(pc', loc') /\ pc' \in Labels
  BY <1>2, <1>3, <1>4 DEF Suits, Labels
<1>6. Goto(pc', loc')
  BY SweepEffect DEF Goto, queueVars
<1> QED
  BY <1>1, <1>4, <1>5, <1>6, GotoSound DEF Sound

\* The status Reconcile reports.
LEMMA StatusTyped ==
    ASSUME Sound, pc # "idle"
    PROVE  /\ RunningStatus \in DiscStatuses /\ RunningStatus.phase = "Running"
           /\ RunningStatus.found = loc.found
           /\ RunningStatus.updating = Cardinality(loc.outdated)
           /\ LET st == [loc.disc.status EXCEPT !.phase = "Error", !.found = {},
                                                !.observed = loc.disc.generation]
              IN st \in DiscStatuses /\ st.phase = "Error"
<1>1. loc \in Locals /\ loc.disc \in Discoveries
  BY AtWork DEF Sound, WorkerOK
<1>2. /\ loc.disc.status \in DiscStatuses /\ loc.disc.generation \in 0 .. MaxGeneration
      /\ loc.found \in SUBSET Sources /\ loc.outdated \in SUBSET Names
  BY <1>1, DiscFields DEF Locals
<1>3. Cardinality(loc.outdated) \in 0 .. Cardinality(Names)
  BY <1>2, NamesFinite
<1> QED
  BY <1>2, <1>3 DEF RunningStatus, DiscStatuses

LEMMA ReportSound ==
    ASSUME Sound, ReportError \/ Report \/ ReportFails
    PROVE  Sound'
<1>1. CASE ReportError
  <2> DEFINE st == [loc.disc.status EXCEPT !.phase = "Error", !.found = {},
                                           !.observed = loc.disc.generation]
  <2>1. /\ pc = "reportError" /\ Return(TRUE) /\ UNCHANGED budgetVars
        /\ IF SeesLatest THEN Persist(st) ELSE UNCHANGED <<apiVars, cacheVars, watchVars>>
    BY <1>1 DEF ReportError
  <2>2. st \in DiscStatuses
    BY <2>1, StatusTyped
  <2> HIDE DEF st
  <2>3. ObjectsOK'
    BY <2>1, <2>2, Latest, PersistSound, SameObjects, DiscFields DEF Sound
  <2> QED
    BY <2>1, <2>3, ReturnSound DEF Sound, BudgetOK, budgetVars
<1>2. CASE Report
  <2>1. pc = "report" /\ Return(TRUE) /\ UNCHANGED budgetVars /\ SeesLatest /\ Persist(RunningStatus)
    BY <1>2 DEF Report
  <2>2. RunningStatus \in DiscStatuses
    BY <2>1, StatusTyped
  <2>3. ObjectsOK'
    BY <2>1, <2>2, Latest, PersistSound, DiscFields DEF Sound
  <2> QED
    BY <2>1, <2>3, ReturnSound DEF Sound, BudgetOK, budgetVars
<1>3. CASE ReportFails
  BY <1>3, FailSound, SameObjects DEF ReportFails, Sound, BudgetOK, budgetVars
<1> QED
  BY <1>1, <1>2, <1>3

-----------------------------------------------------------------------------
\* The calls that fail, and those whose answer is lost.
LEMMA RecallEffect ==
    ASSUME Sound, CallFails, pc \in {"reset", "count"}
    PROVE  /\ UNCHANGED <<apiVars, cacheVars, watchVars>>
           /\ pc' = IF pc = "reset" THEN "list" ELSE "reportError"
           /\ loc' \in Locals /\ Goto(pc', loc')
           /\ loc'.disc \in Discoveries /\ loc' = [loc EXCEPT !.disc = loc'.disc]
           /\ IF cdisc = None THEN loc'.disc = loc.disc
                              ELSE \E f : loc'.disc = [cdisc EXCEPT !.failures = f]
<1> DEFINE f == IF pc = "reset" THEN 0 ELSE incrementFailureCount
<1>1. cdisc # None => f \in 0 .. MaxFailures
  BY CountTyped, DiscoveryConstants
<1>2. /\ UNCHANGED <<apiVars, cacheVars, watchVars>>
      /\ pc' = IF pc = "reset" THEN "list" ELSE "reportError"
      /\ loc' = [loc EXCEPT !.disc = Recounted(f)] /\ Goto(pc', loc')
  BY DEF CallFails, Goto
<1> HIDE DEF f
<1> QED
  BY <1>1, <1>2, RecountedTyped

LEMMA CallFailsSound ==
    ASSUME Sound, CallFails
    PROVE  Sound'
<1>1. /\ UNCHANGED <<apiVars, cacheVars, watchVars>>
      /\ faults < MaxFaults /\ faults' = faults + 1 /\ UNCHANGED changes
      /\ \/ Fail
         \/ pc \in {"reset", "count"}
         \/ pc = "reportError" /\ Return(TRUE)
  BY DEF CallFails
<1>2. ObjectsOK' /\ BudgetOK'
  BY <1>1, SameObjects, DiscoveryConstants DEF Sound, BudgetOK
<1>3. CASE Fail
  BY <1>2, <1>3, FailSound DEF Sound
<1>4. CASE pc \in {"reset", "count"}
  BY <1>2, <1>4, RecallEffect, RecopySound DEF Sound
<1>5. CASE Return(TRUE)
  BY <1>2, <1>5, ReturnSound DEF Sound
<1> QED
  BY <1>1, <1>3, <1>4, <1>5

LEMMA LostEffect ==
    ASSUME Sound, AnswerLost
    PROVE  /\ Fail /\ faults < MaxFaults /\ faults' = faults + 1 /\ UNCHANGED changes
           /\ \/ /\ pc = "finalize" /\ HoldsLatest
                 /\ StoreDisc([disc EXCEPT !.finalizer = TRUE])
              \/ pc = "unfinalize" /\ HoldsLatest /\ StoreDisc(None)
              \/ \E n \in Names :
                    /\ pc \in {"create", "update"} /\ n \in loc.missing \cup loc.outdated
                    /\ Accepted(n) /\ StorePipeline(n, Provided(n))
              \/ \E n \in Names :
                    pc \in {"orphan", "release"} /\ MayPart(n) /\ StorePipeline(n, Parted(n))
              \/ pc = "report" /\ SeesLatest /\ Persist(RunningStatus)
  BY DEF AnswerLost

LEMMA AnswerLostSound ==
    ASSUME Sound, AnswerLost
    PROVE  Sound'
<1>1. WorkerOK' /\ BudgetOK'
  BY LostEffect, FailSound, DiscoveryConstants DEF Sound, BudgetOK
<1>2. CASE pc = "finalize" /\ HoldsLatest /\ StoreDisc([disc EXCEPT !.finalizer = TRUE])
  <2> DEFINE d == [disc EXCEPT !.finalizer = TRUE]
  <2>1. d \in Discoveries
    BY <1>2, Latest DEF Discoveries
  <2> HIDE DEF d
  <2>2. StoreDisc(d)
    BY <1>2 DEF d
  <2> QED
    BY <1>1, <2>1, <2>2, StoreDiscSound DEF Sound, OrNone
<1>3. CASE StoreDisc(None)
  BY <1>1, <1>3, StoreDiscSound DEF Sound, OrNone
<1>4. ASSUME NEW n \in Names, pc \in {"create", "update"}, n \in loc.missing \cup loc.outdated,
             StorePipeline(n, Provided(n))
      PROVE  Sound'
  <2>1. Provided(n) \in OrNone(ChildPipelines) /\ Owned(Provided(n))
    BY <1>4, ProvidedTyped DEF OrNone
  <2> QED
    BY <1>1, <1>4, <2>1, PipelineStored DEF Sound
<1>5. ASSUME NEW n \in Names, pc \in {"orphan", "release"}, MayPart(n),
             StorePipeline(n, Parted(n))
      PROVE  Sound'
  <2>1. Parted(n) \in OrNone(ChildPipelines) /\ (Claimed(Parted(n)) => Owned(Parted(n)))
    BY <1>5, PartedTyped DEF OrNone
  <2> QED
    BY <1>1, <1>5, <2>1, PipelineStored DEF Sound
<1>6. CASE pc = "report" /\ SeesLatest /\ Persist(RunningStatus)
  <2>1. RunningStatus \in DiscStatuses
    BY <1>6, StatusTyped
  <2> QED
    BY <1>1, <1>6, <2>1, Latest, PersistSound, DiscFields DEF Sound
<1> QED
  BY <1>2, <1>3, <1>4, <1>5, <1>6, LostEffect

\* What users and the others do to a pipeline.
LEMMA ReplaceEffect ==
    ASSUME Sound, NEW n \in Names, PipelineReports(n) \/ PipelineGone(n) \/ Collect(n)
    PROVE  \E p \in OrNone(ChildPipelines) :
              /\ StorePipeline(n, p) /\ UNCHANGED <<dirty, requeue, pc, loc, faults>>
              /\ pipes[n] \in ChildPipelines
              /\ \/ /\ ~ pipes[n].deleting /\ p = [pipes[n] EXCEPT !.unhealthy = ~ @]
                 \/ pipes[n].deleting /\ p = None
                 \/ /\ ~ pipes[n].deleting /\ Owned(pipes[n])
                    /\ disc # None => disc.uid # pipes[n].owner
                    /\ p = [pipes[n] EXCEPT !.deleting = TRUE]
              /\ p # None => /\ p.labelled = pipes[n].labelled /\ p.owner = pipes[n].owner
                             /\ p.hash = pipes[n].hash
<1>1. pipes[n] \in ChildPipelines
  BY DEF Sound, ObjectsOK, PipelineReports, PipelineGone, Collect, Live, OrNone
<1>2. CASE PipelineReports(n)
  <2> DEFINE p == [pipes[n] EXCEPT !.unhealthy = ~ @]
  <2>1. StorePipeline(n, p) /\ UNCHANGED <<dirty, requeue, pc, loc, faults>> /\ ~ pipes[n].deleting
    BY <1>2 DEF PipelineReports, Replace, Live, queueVars, workVars
  <2>2. p \in ChildPipelines /\ p.labelled = pipes[n].labelled /\ p.owner = pipes[n].owner
        /\ p.hash = pipes[n].hash
    BY <1>1 DEF ChildPipelines
  <2> QED
    BY <1>1, <2>1, <2>2 DEF OrNone
<1>3. CASE PipelineGone(n)
  <2>1. StorePipeline(n, None) /\ UNCHANGED <<dirty, requeue, pc, loc, faults>> /\ pipes[n].deleting
    BY <1>3 DEF PipelineGone, Replace, queueVars, workVars
  <2> QED
    BY <1>1, <2>1 DEF OrNone
<1>4. CASE Collect(n)
  <2> DEFINE p == [pipes[n] EXCEPT !.deleting = TRUE]
  <2>1. /\ StorePipeline(n, p) /\ UNCHANGED <<dirty, requeue, pc, loc, faults>>
        /\ ~ pipes[n].deleting /\ Owned(pipes[n])
        /\ disc # None => disc.uid # pipes[n].owner
    BY <1>4 DEF Collect, Replace, Live, queueVars, workVars
  <2>2. p \in ChildPipelines /\ p.labelled = pipes[n].labelled /\ p.owner = pipes[n].owner
        /\ p.hash = pipes[n].hash
    BY <1>1 DEF ChildPipelines
  <2> QED
    BY <1>1, <2>1, <2>2 DEF OrNone
<1> QED
  BY <1>2, <1>3, <1>4

LEMMA ReplaceSound ==
    ASSUME Sound, NEW n \in Names, PipelineReports(n) \/ PipelineGone(n) \/ Collect(n)
    PROVE  Sound'
<1>1. PICK p \in OrNone(ChildPipelines) :
         /\ StorePipeline(n, p) /\ UNCHANGED <<dirty, requeue, pc, loc, faults>>
         /\ pipes[n] \in ChildPipelines
         /\ p # None => p.labelled = pipes[n].labelled /\ p.owner = pipes[n].owner
  BY ReplaceEffect
<1>2. Claimed(p) => Owned(p)
  <2>1. Claimed(pipes[n]) => Owned(pipes[n])
    BY DEF Sound, ObjectsOK, Caches
  <2> QED
    BY <1>1, <2>1, NoneIsNothing DEF Claimed, Owned
<1>3. ObjectsOK'
  BY <1>1, <1>2, PipelineStored DEF Sound
<1>4. changes' \in 0 .. MaxChanges
  <2>1. changes' = changes \/ (changes < MaxChanges /\ changes' = changes + 1)
    BY DEF PipelineReports, PipelineGone, Collect
  <2> QED
    BY <2>1, DiscoveryConstants DEF Sound, BudgetOK
<1> QED
  BY <1>1, <1>3, <1>4, SameWorker DEF Sound, WorkerOK, BudgetOK

\* What users do to the discovery.
LEMMA UserEffect ==
    ASSUME Sound, CreateDisc \/ EditDisc \/ DeleteDisc
    PROVE  /\ UNCHANGED <<pipes, world, cdisc, cpipes, wakes, dirty, requeue, pc, loc,
                          changes, faults>>
           /\ stale' = stale \cup {"disc"}
           /\ \/ /\ disc = None /\ uids' = uids + 1 /\ uids' \in 0 .. MaxUid
                 /\ disc' \in Discoveries /\ disc'.uid = uids'
                 /\ ~ disc'.deleting /\ ~ disc'.finalizer
              \/ /\ disc \in Discoveries /\ disc' \in Discoveries /\ uids' = uids
                 /\ disc'.uid = disc.uid /\ disc'.finalizer = disc.finalizer
                 /\ ~ disc.deleting /\ (disc'.deleting => disc.finalizer)
              \/ /\ disc \in Discoveries /\ uids' = uids
                 /\ ~ disc.deleting /\ ~ disc.finalizer /\ disc' = None
<1>1. /\ UNCHANGED <<pipes, world, cdisc, cpipes, wakes, dirty, requeue, pc, loc,
                     changes, faults>>
      /\ stale' = stale \cup {"disc"}
  BY DEF CreateDisc, EditDisc, DeleteDisc, cacheVars, queueVars, workVars, budgetVars
<1>2. CASE CreateDisc
  <2>1. PICK spec \in DiscSpecs :
          disc' = [uid |-> uids', generation |-> 1, spec |-> spec, deleting |-> FALSE,
                   finalizer |-> FALSE, failures |-> 0, status |-> NoStatus]
    BY <1>2 DEF CreateDisc
  <2>2. disc = None /\ uids' = uids + 1 /\ uids' \in 0 .. MaxUid /\ uids' \in 1 .. MaxUid
    <3>1. disc = None /\ uids < MaxUid /\ uids' = uids + 1
      BY <1>2 DEF CreateDisc
    <3>2. uids \in 0 .. MaxUid /\ MaxUid \in Nat
      BY DiscoveryConstants DEF Sound, ObjectsOK
    <3> QED
      BY <3>1, <3>2
  <2>3. 1 \in 1 .. MaxGeneration /\ 0 \in 0 .. MaxFailures /\ NoStatus \in DiscStatuses
    BY DiscoveryConstants, NamesFinite DEF NoStatus, DiscStatuses
  <2>4. disc' \in Discoveries /\ disc'.uid = uids' /\ ~ disc'.deleting /\ ~ disc'.finalizer
    BY <2>1, <2>2, <2>3 DEF Discoveries
  <2> QED
    BY <1>1, <2>2, <2>4
<1>3. CASE EditDisc
  <2>1. /\ disc \in Discoveries /\ ~ disc.deleting /\ uids' = uids
        /\ disc.generation < MaxGeneration
    BY <1>3 DEF EditDisc, Live, Sound, ObjectsOK, OrNone
  <2>2. PICK spec \in DiscSpecs : disc' = [disc EXCEPT !.spec = spec, !.generation = @ + 1]
    BY <1>3 DEF EditDisc
  <2>3. disc.generation + 1 \in 1 .. MaxGeneration
    BY <2>1, DiscoveryConstants DEF Discoveries
  <2>4. disc' \in Discoveries /\ disc'.uid = disc.uid /\ disc'.finalizer = disc.finalizer
        /\ disc'.deleting = disc.deleting
    BY <2>1, <2>2, <2>3 DEF Discoveries
  <2> QED
    BY <1>1, <2>1, <2>4
<1>4. CASE DeleteDisc
  <2>1. /\ disc \in Discoveries /\ ~ disc.deleting /\ uids' = uids
        /\ disc' = IF disc.finalizer THEN [disc EXCEPT !.deleting = TRUE] ELSE None
    BY <1>4 DEF DeleteDisc, Live, Sound, ObjectsOK, OrNone
  <2>2. LET d == [disc EXCEPT !.deleting = TRUE]
        IN d \in Discoveries /\ d.uid = disc.uid /\ d.finalizer = disc.finalizer
    BY <2>1 DEF Discoveries
  <2> QED
    BY <1>1, <2>1, <2>2
<1> QED
  BY <1>2, <1>3, <1>4

LEMMA UserSound ==
    ASSUME Sound, CreateDisc \/ EditDisc \/ DeleteDisc \/ ChangeWorld
    PROVE  Sound'
<1>1. CASE CreateDisc \/ EditDisc \/ DeleteDisc
  <2>1. DiscStored /\ disc' \in OrNone(Discoveries) /\ uids' \in 0 .. MaxUid
    BY <1>1, UserEffect DEF DiscStored, OrNone, Sound, ObjectsOK
  <2>2. UNCHANGED <<dirty, requeue, pc, loc, changes, faults>>
    BY <1>1, UserEffect
  <2> QED
    BY <2>1, <2>2, DiscChanged, SameWorker DEF Sound, WorkerOK, BudgetOK
<1>2. CASE ChangeWorld
  <2>1. /\ UNCHANGED <<disc, uids, pipes, cdisc, cpipes, stale, wakes, dirty, requeue, pc, loc, faults>>
        /\ world' \in OrNone(Worlds) /\ changes < MaxChanges /\ changes' = changes + 1
    BY <1>2 DEF ChangeWorld, cacheVars, watchVars, queueVars, workVars, OrNone
  <2>2. ObjectsOK'
    BY <2>1 DEF Sound, ObjectsOK, Caches
  <2>3. BudgetOK'
    BY <2>1, DiscoveryConstants, SMTT(30) DEF Sound, BudgetOK
  <2> QED
    BY <2>1, <2>2, <2>3, SameWorker DEF Sound, WorkerOK
<1> QED
  BY <1>1, <1>2

LEMMA SoundStep ==
    ASSUME Sound, [Next]_vars
    PROVE  Sound'
<1>1. CASE CountFailure
  BY <1>1, RecountSound, CountTyped DEF CountFailure
<1>2. CASE ResetFailures
  <2>1. 0 \in 0 .. MaxFailures
    BY DiscoveryConstants
  <2> QED
    BY <1>2, <2>1, RecountSound DEF ResetFailures
<1>3. ASSUME NEW n \in Names, CreateChild(n) \/ UpdateChild(n) PROVE Sound'
  BY <1>3, ProvideSound DEF CreateChild, UpdateChild
<1>4. CASE UNCHANGED vars
  <2>1. UNCHANGED <<apiVars, cacheVars, watchVars, dirty, requeue, pc, loc, changes, faults>>
    BY <1>4 DEF vars, apiVars, cacheVars, watchVars, queueVars, workVars, budgetVars
  <2> QED
    BY <2>1, SameObjects, SameWorker DEF Sound, WorkerOK, BudgetOK
<1> QED
  BY <1>1, <1>2, <1>3, <1>4, BeginSound, FinalizerSound, PollSound, ListSound, SweepSound,
     ReportSound, LetGoSound, DeliverSound, CallFailsSound, AnswerLostSound, ReplaceSound,
     UserSound
     DEF Next, Worker, Users, Others

LEMMA SoundInit == Init => Sound
<1> SUFFICES ASSUME Init PROVE Sound
  OBVIOUS
<1>1. /\ disc = None /\ cdisc = None /\ uids = 0 /\ pipes = [n \in Names |-> None]
      /\ cpipes = pipes /\ stale = {} /\ wakes = {} /\ world \in OrNone(Worlds)
      /\ dirty = FALSE /\ requeue = FALSE /\ pc = "idle" /\ loc = NoLocals
      /\ changes = 0 /\ faults = 0
  BY DEF Init, OrNone
<1>2. 0 \in 0 .. MaxUid /\ 0 \in 0 .. MaxChanges /\ 0 \in 0 .. MaxFaults
  BY DiscoveryConstants
<1>3. ObjectsOK
  BY <1>1, <1>2 DEF ObjectsOK, Caches, OrNone, Claimed
<1>4. WorkerOK
  <2>1. loc.creations = 0 /\ loc.updates = 0 /\ loc.missing = {} /\ loc.outdated = {}
        /\ loc.disc = None
    BY <1>1 DEF NoLocals
  <2>2. Stages
    BY <1>1, <2>1 DEF Stages
  <2>3. dirty \in BOOLEAN /\ requeue \in BOOLEAN
    BY <1>1
  <2>4. loc.creations <= Cardinality(loc.missing) /\ loc.updates <= Cardinality(loc.outdated)
    BY <2>1, FS_EmptySet
  <2>5. pc \in Labels /\ loc \in Locals
    BY <1>1, NoLocalsTyped DEF Labels
  <2> QED
    BY <2>2, <2>3, <2>4, <2>5 DEF WorkerOK
<1> QED
  BY <1>1, <1>2, <1>3, <1>4 DEF Sound, BudgetOK

LEMMA SoundAlways == Spec => []Sound
  BY SoundInit, SoundStep, PTL DEF Spec

(***************************************************************************)
(* The objects, caches, locals and counters of the discovery controller    *)
(* keep their types whatever interleaving of reconcile, watch events,      *)
(* failures and users there is: no nil dereference of the discovery it     *)
(* reads again, no counter below zero, no pipeline of an unknown name.     *)
(***************************************************************************)
THEOREM DiscoveryTypes == Spec => []TypeOK
  BY SoundAlways, SoundTypes, PTL
=============================================================================

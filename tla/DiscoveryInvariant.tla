-------------------------- MODULE DiscoveryInvariant --------------------------
(***************************************************************************)
(* What holds at every point of a reconcile of a source discovery, and why *)
(* its invariants do.                                                      *)
(***************************************************************************)
EXTENDS SourceDiscovery

\* The locals of Reconcile.
Lists == UNION {[S -> ChildPipelines] : S \in SUBSET Names}

Locals ==
    [disc : OrNone(Discoveries), found : SUBSET Sources, missing : SUBSET Names,
     creations : Nat, outdated : SUBSET Names, updates : Nat, list : Lists]

Claimed(p) == p # None /\ p.labelled

\* The pipelines of the sources found.
Want == Desired(loc.disc.spec, loc.found)

Stages ==
    /\ pc = "idle" <=> loc.disc = None
    /\ pc = "idle" => loc = NoLocals
    /\ pc = "create" => loc.creations > 0
    /\ pc = "update" => loc.updates > 0
    /\ pc \in {"create", "update"} => loc.missing \cup loc.outdated \subseteq DOMAIN Want
    /\ pc = "finalize" => ~ loc.disc.deleting /\ ~ loc.disc.finalizer
    /\ pc \in {"cleanup", "release", "unfinalize"} => loc.disc.deleting

\* A cached object without an undelivered event is the latest version; an
\* event that wakes nobody is one of a pipeline that nobody owned or owns.
Caches ==
    /\ "disc" \notin stale => cdisc = disc
    /\ \A n \in Names :
          /\ n \notin stale => cpipes[n] = pipes[n]
          /\ n \in stale /\ n \notin wakes => ~ Owned(cpipes[n]) /\ ~ Owned(pipes[n])
          /\ Claimed(pipes[n]) => Owned(pipes[n])
          /\ Claimed(cpipes[n]) => Owned(cpipes[n])

\* c is a copy of the discovery or of one before it.
Former(c) ==
    c # None =>
        /\ c.uid <= uids
        /\ disc # None /\ c.uid = disc.uid =>
              (c.deleting => disc.deleting) /\ (c.finalizer => disc.finalizer)

\* The discovery Reconcile works for exists and keeps its finalizer; a cached
\* discovery with the finalizer that is not being deleted does as well.
Guarded ==
    /\ disc # None => disc.uid = uids
    /\ Former(cdisc) /\ Former(loc.disc)
    /\ Live(cdisc) /\ cdisc.finalizer => disc # None /\ disc.uid = cdisc.uid
    /\ pc \in Working =>
          /\ disc # None /\ disc.finalizer /\ loc.disc.uid = disc.uid
          /\ cdisc # None /\ cdisc.uid = disc.uid

\* No pipeline of a discovery exists before the operator has seen it, and one
\* of the present discovery carries the label.
Owners ==
    /\ \A n \in Names :
          pipes[n] # None => /\ pipes[n].owner <= uids
                             /\ uids # 0 /\ pipes[n].owner = uids => pipes[n].labelled
    /\ \A c \in {cdisc, loc.disc} :
          c # None /\ c.uid # uids =>
              \A n \in Names : pipes[n] # None => pipes[n].owner # uids

\* Nothing has happened to the discovery since Reconcile began.
Current == ~ dirty /\ "disc" \notin stale

\* A failure count that could not be written stays in the copy.
Held == Current /\ pc # "idle" => loc.disc = [disc EXCEPT !.failures = loc.disc.failures]

\* After a poll every source that is always there has been found.
Found ==
    /\ pc \in {"reset", "list", "create", "update", "sweep", "orphan"} =>
          Permanent \subseteq loc.found
    /\ pc = "orphan" => DOMAIN loc.list \cap DOMAIN Want = {}

\* The part of QuietMeansProvisioned about the pipelines.
Matches(want, updating) ==
    /\ \A n \in DOMAIN want :
          Claimed(pipes[n]) /\ (updating = 0 => pipes[n].hash = want[n])
    /\ \A n \in Names \ DOMAIN want : Live(pipes[n]) => ~ pipes[n].labelled

\* What the worker knows of the pipelines at each stage of a pass: those to
\* create are not there, the others are and have the wanted revision unless
\* they are to be updated; those nobody wants are listed and then gone; and
\* what the status says between two passes is so.
Seen ==
    /\ pc = "create" => \A n \in loc.missing : ~ Claimed(pipes[n])
    /\ pc \in {"update", "sweep", "orphan", "report"} =>
          \A n \in DOMAIN Want :
              Claimed(pipes[n]) /\ (n \notin loc.outdated => pipes[n].hash = Want[n])
    /\ pc = "update" => \A n \in loc.outdated : n \in DOMAIN Want /\ pipes[n].hash # Want[n]
    /\ pc = "orphan" =>
          \A n \in Names \ DOMAIN Want :
              Live(pipes[n]) /\ pipes[n].labelled => n \in DOMAIN loc.list
    /\ pc = "report" => \A n \in Names \ DOMAIN Want : Live(pipes[n]) => ~ pipes[n].labelled
    /\ pc = "reportError" => faults >= 1
    /\ /\ pc = "idle" /\ Live(disc) /\ disc.spec.selects # None /\ faults <= 1
       /\ disc.status.phase = "Running" /\ disc.status.observed = disc.generation
       => Matches(Desired(disc.spec, disc.status.found), disc.status.updating)

(***************************************************************************)
(* While nothing has happened that wakes the worker, what Reconcile has    *)
(* seen of the pipelines is so, and it has changed nothing that matters.   *)
(***************************************************************************)
Pass == Current /\ wakes = {} => Seen

(***************************************************************************)
(* The inductive invariant of the discovery controller.                    *)
(***************************************************************************)
Discovering ==
    TypeOK /\ loc \in Locals /\ Stages /\ Caches /\ Guarded /\ Owners /\ Held /\ Found /\ Pass
=============================================================================

--------------------------- MODULE DiscoveryProofs ---------------------------
(***************************************************************************)
(* The source discovery controller keeps the finalizer protocol, goes on   *)
(* polling, and leaves the pipelines as its status says.                   *)
(***************************************************************************)
EXTENDS DiscoveryTyping

-----------------------------------------------------------------------------
(***************************************************************************)
(* How the actions move the discovery, its copies and the worker.          *)
(***************************************************************************)

\* Two versions of a discovery with the same finalizer and deletion mark.
Alike(d, e) == d.uid = e.uid /\ d.deleting = e.deleting /\ d.finalizer = e.finalizer

Idles == pc' = "idle" /\ loc' = NoLocals

\* On to another part of the same reconcile, for the same copy of the discovery.
Proceeds ==
    /\ pc # "idle" /\ pc' # "idle" /\ loc'.disc = loc.disc
    /\ \/ pc \in Working /\ pc' \in Working
       \/ pc \in {"cleanup", "release"} /\ pc' \in {"release", "unfinalize"}

Stays == UNCHANGED <<disc, cdisc, uids>> /\ (UNCHANGED <<pc, loc>> \/ Idles \/ Proceeds)

Begins ==
    /\ UNCHANGED <<disc, cdisc, uids>> /\ pc = "idle" /\ cdisc # None /\ loc'.disc = cdisc
    /\ \/ pc' = "cleanup" /\ cdisc.deleting /\ cdisc.finalizer
       \/ pc' = "poll" /\ ~ cdisc.deleting /\ cdisc.finalizer
       \/ pc' = "finalize" /\ ~ cdisc.deleting /\ ~ cdisc.finalizer

Adds ==
    /\ pc = "finalize" /\ loc.disc = disc /\ cdisc = disc /\ UNCHANGED <<cdisc, uids>>
    /\ disc \in Discoveries /\ disc' \in Discoveries
    /\ ~ disc.deleting /\ ~ disc.finalizer
    /\ disc'.uid = disc.uid /\ ~ disc'.deleting /\ disc'.finalizer
    /\ (pc' = "poll" /\ loc'.disc = disc') \/ Idles

Removes ==
    /\ pc = "unfinalize" /\ loc.disc = disc /\ cdisc = disc /\ UNCHANGED <<cdisc, uids>>
    /\ disc \in Discoveries /\ disc.deleting /\ disc' = None /\ Idles

\* The copy is read anew with another count, which is written or is not.
Recounts ==
    /\ pc \in Working /\ pc' \in Working /\ UNCHANGED <<cdisc, uids>>
    /\ loc'.disc \in Discoveries
    /\ IF cdisc = None THEN loc'.disc = loc.disc
                       ELSE /\ Alike(loc'.disc, cdisc)
                            /\ loc'.disc = [cdisc EXCEPT !.failures = loc'.disc.failures]
    /\ \/ cdisc = disc /\ disc \in Discoveries /\ disc' = loc'.disc
       \/ UNCHANGED disc

Reports ==
    /\ UNCHANGED <<cdisc, uids>> /\ Idles
    /\ disc \in Discoveries /\ disc' \in Discoveries /\ Alike(disc', disc)

Delivers ==
    /\ cdisc' = disc /\ UNCHANGED <<disc, uids>>
    /\ UNCHANGED <<pc, loc>> \/ Idles

Edited ==
    /\ UNCHANGED <<cdisc, pc, loc>>
    /\ \/ /\ disc = None /\ uids' = uids + 1 /\ disc' \in Discoveries /\ disc'.uid = uids'
          /\ ~ disc'.deleting /\ ~ disc'.finalizer
       \/ /\ disc \in Discoveries /\ disc' \in Discoveries /\ uids' = uids
          /\ disc'.uid = disc.uid /\ disc'.finalizer = disc.finalizer
          /\ ~ disc.deleting /\ (disc'.deleting => disc.finalizer)
       \/ /\ disc \in Discoveries /\ uids' = uids
          /\ ~ disc.deleting /\ ~ disc.finalizer /\ disc' = None

LEMMA StoredPipelineAside ==
    ASSUME NEW n, NEW p, StorePipeline(n, p)
    PROVE  UNCHANGED <<disc, cdisc, uids>>
  BY DEF StorePipeline, cacheVars

LEMMA RecountAlike ==
    ASSUME Sound, cdisc # None, NEW f, NEW d \in Discoveries, d = [cdisc EXCEPT !.failures = f]
    PROVE  Alike(d, cdisc) /\ d = [cdisc EXCEPT !.failures = d.failures]
<1>1. cdisc \in Discoveries
  BY DEF Sound, ObjectsOK, OrNone
<1> QED
  BY <1>1 DEF Alike, Discoveries

LEMMA ReturnsIdle ==
    ASSUME Fail \/ Return(TRUE) \/ Return(FALSE)
    PROVE  Idles
  BY DEF Fail, Return, Idles

LEMMA WorkerMoves ==
    ASSUME Sound, Worker
    PROVE  Stays \/ Begins \/ Adds \/ Removes \/ Recounts \/ Reports
<1> USE DEF apiVars, cacheVars
<1>1. CASE Begin
  <2>1. UNCHANGED <<disc, cdisc, uids>>
    BY <1>1, BeginEffect
  <2>2. CASE pc' = "idle"
    BY <1>1, <2>1, <2>2, BeginEffect DEF Stays, Idles
  <2>3. CASE pc' # "idle"
    <3>1. cdisc # None /\ loc' = [NoLocals EXCEPT !.disc = cdisc]
      BY <1>1, <2>3, BeginEffect
    <3>2. loc'.disc = cdisc
      BY <3>1 DEF NoLocals
    <3> QED
      BY <1>1, <2>1, <2>3, <3>1, <3>2, BeginEffect DEF Begins
  <2> QED
    BY <2>2, <2>3
<1>2. CASE AddFinalizer
  <2>1. /\ pc = "finalize" /\ HoldsLatest /\ StoreDisc([disc EXCEPT !.finalizer = TRUE])
        /\ Goto("poll", [loc EXCEPT !.disc = disc'])
    BY <1>2 DEF AddFinalizer
  <2>2. loc.disc = disc /\ cdisc = disc /\ disc \in Discoveries /\ loc \in Locals
        /\ ~ loc.disc.deleting /\ ~ loc.disc.finalizer
    BY <2>1, Latest DEF Sound, WorkerOK, Stages
  <2>3. disc' = [disc EXCEPT !.finalizer = TRUE] /\ UNCHANGED <<uids, cdisc>>
    BY <2>1 DEF StoreDisc
  <2>4. disc' \in Discoveries /\ disc'.uid = disc.uid /\ disc'.deleting = disc.deleting
        /\ disc'.finalizer
    BY <2>2, <2>3 DEF Discoveries
  <2>5. pc' = "poll" /\ loc'.disc = disc'
    BY <2>1, <2>2 DEF Goto, Locals
  <2> QED
    BY <2>1, <2>2, <2>3, <2>4, <2>5 DEF Adds
<1>3. CASE RemoveFinalizer
  <2>1. pc = "unfinalize" /\ HoldsLatest /\ StoreDisc(None) /\ Return(FALSE)
    BY <1>3 DEF RemoveFinalizer
  <2>2. loc.disc = disc /\ cdisc = disc /\ disc \in Discoveries /\ loc.disc.deleting
    BY <2>1, Latest DEF Sound, WorkerOK, Stages
  <2>3. disc' = None /\ UNCHANGED <<uids, cdisc>>
    BY <2>1 DEF StoreDisc
  <2> QED
    BY <2>1, <2>2, <2>3, ReturnsIdle DEF Removes
<1>4. CASE FinalizerConflict \/ ReportFails
  BY <1>4, ReturnsIdle DEF FinalizerConflict, ReportFails, Stays
<1>5. CASE Poll
  <2>1. UNCHANGED <<disc, cdisc, uids>> /\ pc = "poll" /\ loc \in Locals
    BY <1>5, PollEffect DEF Sound, WorkerOK
  <2>2. CASE Return(FALSE)
    BY <2>1, <2>2, ReturnsIdle DEF Stays
  <2>3. ASSUME NEW l \in {"count", "reset", "list"}, NEW f, Goto(l, loc) \/ Goto(l, [loc EXCEPT !.found = f])
        PROVE  Stays
    BY <2>1, <2>3 DEF Stays, Proceeds, Goto, Working, Locals
  <2> QED
    BY <1>5, <2>2, <2>3, PollEffect
<1>6. CASE CountFailure \/ ResetFailures
  <2>1. PICK f, next :
          /\ Recount(f, next) /\ (cdisc # None => f \in 0 .. MaxFailures)
          /\ pc \in {"count", "reset"} /\ next \in {"reportError", "list"}
    <3>1. 0 \in 0 .. MaxFailures
      BY DiscoveryConstants
    <3> QED
      BY <1>6, <3>1, CountTyped DEF CountFailure, ResetFailures
  <2>2. /\ pc' = next /\ uids' = uids /\ loc'.disc \in Discoveries /\ cdisc' = cdisc
        /\ IF cdisc = None THEN loc'.disc = loc.disc
                           ELSE loc'.disc = [cdisc EXCEPT !.failures = f]
        /\ IF SeesLatest THEN disc' = loc'.disc ELSE disc' = disc
    BY <2>1, RecountEffect DEF DiscStored
  <2>3. cdisc # None => /\ Alike(loc'.disc, cdisc)
                        /\ loc'.disc = [cdisc EXCEPT !.failures = loc'.disc.failures]
    BY <2>2, RecountAlike
  <2>4. SeesLatest => cdisc = disc /\ disc \in Discoveries
    BY Latest
  <2> QED
    BY <2>1, <2>2, <2>3, <2>4 DEF Recounts, Working
<1>7. CASE ListChildren
  <2>1. UNCHANGED <<disc, cdisc, uids>> /\ pc = "list"
    BY <1>7, ListEffect
  <2>2. CASE Fail
    BY <2>1, <2>2, ReturnsIdle DEF Stays
  <2>3. CASE ~ Fail
    <3>1. PICK l \in Locals : Goto(Stage(l), l) /\ l.disc = loc.disc
      BY <1>7, <2>3, ListEffect
    <3>2. Stage(l) \in {"create", "update", "sweep"}
      BY DEF Stage
    <3> QED
      BY <2>1, <3>1, <3>2 DEF Stays, Proceeds, Goto, Working
  <2> QED
    BY <2>2, <2>3
<1>8. CASE ListOrphans \/ ListOwned
  <2>1. UNCHANGED <<disc, cdisc, uids>> /\ loc \in Locals
    BY <1>8, SweepEffect DEF Sound, WorkerOK
  <2>2. loc'.disc = loc.disc
    <3>1. loc' = [loc EXCEPT !.list = loc'.list]
      BY <1>8, SweepEffect
    <3> QED
      BY <2>1, <3>1 DEF Locals
  <2>3. \/ pc = "sweep" /\ pc' \in {"report", "orphan"}
        \/ pc = "cleanup" /\ pc' \in {"unfinalize", "release"}
    BY <1>8, SweepEffect
  <2> QED
    BY <2>1, <2>2, <2>3 DEF Stays, Proceeds, Working
<1>9. CASE ReportError \/ Report
  <2>1. pc # "idle" /\ Idles
    BY <1>9, ReturnsIdle DEF ReportError, Report
  <2>2. CASE UNCHANGED <<apiVars, cacheVars, watchVars>>
    BY <2>1, <2>2 DEF Stays
  <2>3. CASE \E st \in DiscStatuses : SeesLatest /\ Persist(st)
    <3>1. PICK st \in DiscStatuses : SeesLatest /\ Persist(st)
      BY <2>3
    <3>2. cdisc = disc /\ disc \in Discoveries
      BY <3>1, Latest
    <3>3. UNCHANGED <<uids, cdisc>> /\ disc' = [disc EXCEPT !.status = st]
      BY <3>1 DEF Persist
    <3>4. disc' \in Discoveries /\ Alike(disc', disc)
      BY <3>2, <3>3 DEF Discoveries, Alike
    <3> QED
      BY <2>1, <3>2, <3>3, <3>4 DEF Reports
  <2> QED
    BY <1>9, <2>1, <2>2, <2>3, StatusTyped DEF ReportError, Report
<1>10. ASSUME NEW n \in Names, CreateChild(n) \/ UpdateChild(n) PROVE Stays
  <2>1. PICK l : /\ Provide(n, l) /\ l.disc = loc.disc /\ pc \in {"create", "update"}
    <3>1. loc \in Locals
      BY DEF Sound, WorkerOK
    <3> QED
      BY <1>10, <3>1 DEF CreateChild, UpdateChild, Locals
  <2>2. Stage(l) \in {"create", "update", "sweep"}
    BY DEF Stage
  <2>3. UNCHANGED <<disc, cdisc, uids>>
    BY <2>1, StoredPipelineAside DEF Provide
  <2>4. Idles \/ (pc' = Stage(l) /\ loc' = l)
    BY <2>1, ReturnsIdle DEF Provide, Goto
  <2> QED
    BY <2>1, <2>2, <2>3, <2>4 DEF Stays, Proceeds, Working
<1>11. ASSUME NEW n \in Names, LetGo(n) PROVE Stays
  <2>1. /\ pc \in {"orphan", "release"} /\ UNCHANGED <<disc, cdisc, uids>>
    BY <1>11, StoredPipelineAside DEF LetGo
  <2>2. CASE Fail
    BY <2>1, <2>2, ReturnsIdle DEF Stays
  <2>3. CASE ~ Fail
    <3>1. \E f : loc' = [loc EXCEPT !.list = f]
      BY <1>11, <2>3 DEF LetGo, Goto
    <3>2. loc'.disc = loc.disc
      BY <3>1 DEF Sound, WorkerOK, Locals
    <3>3. pc' \in {pc, IF pc = "release" THEN "unfinalize" ELSE "report"}
      BY <1>11, <2>3 DEF LetGo, Goto
    <3> QED
      BY <2>1, <3>2, <3>3 DEF Stays, Proceeds, Working
  <2> QED
    BY <2>2, <2>3
<1> QED
  BY <1>1, <1>2, <1>3, <1>4, <1>5, <1>6, <1>7, <1>8, <1>9, <1>10, <1>11 DEF Worker

LEMMA Moves ==
    ASSUME Sound, [Next]_vars
    PROVE  \/ Stays \/ Begins \/ Adds \/ Removes \/ Recounts \/ Reports \/ Delivers \/ Edited
<1> USE DEF apiVars, cacheVars
<1>1. CASE DeliverDisc \/ Restart
  BY <1>1 DEF DeliverDisc, Restart, workVars, Delivers, Idles
<1>2. CASE TimerFires
  BY <1>2 DEF TimerFires, workVars, Stays
<1>3. CASE CallFails
  <2>1. UNCHANGED <<disc, cdisc, uids>>
    BY <1>3 DEF CallFails
  <2>2. CASE Fail \/ Return(TRUE)
    BY <2>1, <2>2, ReturnsIdle DEF Stays
  <2>3. CASE pc \in {"reset", "count"}
    <3>1. pc' \in {"list", "reportError"} /\ loc'.disc \in Discoveries
          /\ IF cdisc = None THEN loc'.disc = loc.disc
                             ELSE \E f : loc'.disc = [cdisc EXCEPT !.failures = f]
      BY <1>3, <2>3, RecallEffect
    <3>2. cdisc # None => /\ Alike(loc'.disc, cdisc)
                          /\ loc'.disc = [cdisc EXCEPT !.failures = loc'.disc.failures]
      BY <3>1, RecountAlike
    <3> QED
      BY <2>1, <2>3, <3>1, <3>2 DEF Recounts, Working
  <2> QED
    BY <1>3, <2>2, <2>3 DEF CallFails
<1>4. CASE AnswerLost
  <2>1. Idles
    BY <1>4, LostEffect, ReturnsIdle
  <2>2. CASE pc = "finalize" /\ HoldsLatest /\ StoreDisc([disc EXCEPT !.finalizer = TRUE])
    <3>1. loc.disc = disc /\ cdisc = disc /\ disc \in Discoveries
          /\ ~ loc.disc.deleting /\ ~ loc.disc.finalizer
      BY <2>2, Latest DEF Sound, WorkerOK, Stages
    <3>2. disc' = [disc EXCEPT !.finalizer = TRUE] /\ UNCHANGED <<uids, cdisc>>
      BY <2>2 DEF StoreDisc
    <3>3. disc' \in Discoveries /\ disc'.uid = disc.uid /\ disc'.deleting = disc.deleting
          /\ disc'.finalizer
      BY <3>1, <3>2 DEF Discoveries
    <3> QED
      BY <2>1, <2>2, <3>1, <3>2, <3>3 DEF Adds
  <2>3. CASE pc = "unfinalize" /\ HoldsLatest /\ StoreDisc(None)
    <3>1. loc.disc = disc /\ cdisc = disc /\ disc \in Discoveries /\ loc.disc.deleting
      BY <2>3, Latest DEF Sound, WorkerOK, Stages
    <3>2. disc' = None /\ UNCHANGED <<uids, cdisc>>
      BY <2>3 DEF StoreDisc
    <3> QED
      BY <2>1, <2>3, <3>1, <3>2 DEF Removes
  <2>4. CASE \E n \in Names : StorePipeline(n, Provided(n)) \/ StorePipeline(n, Parted(n))
    BY <2>1, <2>4, StoredPipelineAside DEF Stays
  <2>5. CASE pc = "report" /\ SeesLatest /\ Persist(RunningStatus)
    <3>1. disc \in Discoveries /\ RunningStatus \in DiscStatuses
      BY <2>5, Latest, StatusTyped
    <3>2. UNCHANGED <<uids, cdisc>> /\ disc' = [disc EXCEPT !.status = RunningStatus]
      BY <2>5 DEF Persist
    <3>3. disc' \in Discoveries /\ Alike(disc', disc)
      BY <3>1, <3>2 DEF Discoveries, Alike
    <3> QED
      BY <2>1, <3>1, <3>2, <3>3 DEF Reports
  <2> QED
    BY <1>4, <2>2, <2>3, <2>4, <2>5, LostEffect
<1>5. CASE Others
  <2>1. ASSUME NEW n \in Names, DeliverPipeline(n) PROVE Stays
    BY <2>1 DEF DeliverPipeline, workVars, Stays
  <2>2. ASSUME NEW n \in Names, PipelineGone(n) \/ Collect(n) PROVE Stays
    BY <2>2, ReplaceEffect, StoredPipelineAside DEF Stays
  <2> QED
    BY <1>5, <2>1, <2>2 DEF Others
<1>6. CASE Users
  <2>1. CASE CreateDisc \/ EditDisc \/ DeleteDisc
    BY <2>1, UserEffect DEF Edited
  <2>2. CASE ChangeWorld
    BY <2>2 DEF ChangeWorld, workVars, Stays
  <2>3. ASSUME NEW n \in Names, PipelineReports(n) PROVE Stays
    BY <2>3, ReplaceEffect, StoredPipelineAside DEF Stays
  <2> QED
    BY <1>6, <2>1, <2>2, <2>3 DEF Users
<1>7. CASE UNCHANGED vars
  BY <1>7 DEF vars, workVars, Stays
<1> QED
  BY <1>1, <1>2, <1>3, <1>4, <1>5, <1>6, <1>7, WorkerMoves DEF Next

-----------------------------------------------------------------------------
(***************************************************************************)
(* The finalizer: what the worker holds is never ahead of the object.      *)
(***************************************************************************)
LEMMA UidsOrdered ==
    ASSUME ObjectsOK
    PROVE  uids \in Nat /\ (disc # None => disc \in Discoveries /\ disc.uid \in Nat /\ disc.uid # 0)
           /\ (cdisc # None => cdisc \in Discoveries /\ cdisc.uid \in Nat /\ cdisc.uid # 0)
<1>1. uids \in Nat
  BY DiscoveryConstants DEF ObjectsOK
<1> QED
  BY <1>1, DiscFields DEF ObjectsOK, OrNone

LEMMA GuardedStep ==
    ASSUME Sound, Sound', Guarded, [Next]_vars
    PROVE  Guarded'
<1> USE DEF Guarded, Former, Live
<1>1. /\ uids \in Nat
      /\ disc # None => disc \in Discoveries /\ disc.uid \in Nat
      /\ cdisc # None => cdisc \in Discoveries /\ cdisc.uid \in Nat
      /\ loc.disc # None => loc.disc \in Discoveries /\ loc.disc.uid \in Nat
      /\ None \notin Discoveries
  <2>1. loc.disc \in OrNone(Discoveries)
    BY DEF Sound, WorkerOK, Locals
  <2> QED
    BY <2>1, UidsOrdered, DiscFields, NoneIsNothing DEF Sound, OrNone
<1>2. pc \in Working => pc # "idle"
  BY DEF Working
<1>3. Idles => loc'.disc = None /\ pc' \notin Working
  BY NoLocalsTyped DEF Idles, Working
<1>4. CASE Stays
  <2>1. CASE UNCHANGED <<pc, loc>> \/ Idles
    BY <1>3, <1>4, <2>1 DEF Stays
  <2>2. CASE Proceeds
    <3>1. pc' \in Working => pc \in Working
      BY <2>2 DEF Proceeds, Working
    <3> QED
      BY <1>4, <2>2, <3>1 DEF Stays, Proceeds
  <2> QED
    BY <1>4, <2>1, <2>2 DEF Stays
<1>5. CASE Begins
  <2>1. pc' \in Working => Live(cdisc) /\ cdisc.finalizer
    BY <1>5 DEF Begins, Working
  <2> QED
    BY <1>1, <1>5, <2>1 DEF Begins
<1>6. CASE Adds
  BY <1>1, <1>3, <1>6 DEF Adds
<1>7. CASE Removes
  BY <1>1, <1>3, <1>7 DEF Removes
<1>8. CASE Recounts
  BY <1>1, <1>8 DEF Recounts, Alike
<1>9. CASE Reports
  BY <1>1, <1>3, <1>9 DEF Reports, Alike
<1>10. CASE Delivers
  BY <1>1, <1>3, <1>10 DEF Delivers
<1>11. CASE Edited
  BY <1>1, <1>11 DEF Edited
<1> QED
  BY <1>4, <1>5, <1>6, <1>7, <1>8, <1>9, <1>10, <1>11, Moves

LEMMA GuardedInit == Init => Guarded
<1>1. ASSUME Init PROVE disc = None /\ cdisc = None /\ loc.disc = None /\ pc \notin Working
  BY <1>1, NoLocalsTyped DEF Init, Working
<1> QED
  BY <1>1 DEF Guarded, Former, Live

LEMMA GuardedAlways == Spec => []Guarded
<1>1. Sound /\ Guarded /\ [Next]_vars => Sound' /\ Guarded'
  BY SoundStep, GuardedStep
<1> QED
  BY <1>1, SoundInit, GuardedInit, PTL DEF Spec


\* A step or a stutter of the finalizer protocol.
Simulates == [Protocol!Next]_<<FinalizerObject, uids, FinalizerWork>>

LEMMA ObjectStates ==
    ASSUME NEW o, o # None
    PROVE  /\ disc = o => /\ FinalizerObject.uid = o.uid
                          /\ FinalizerObject = [uid |-> o.uid, state |-> FinalizerObject.state]
                          /\ o.deleting => FinalizerObject.state = "ending"
                          /\ ~ o.deleting /\ o.finalizer => FinalizerObject.state = "guarded"
                          /\ ~ o.deleting /\ ~ o.finalizer => FinalizerObject.state = "fresh"
           /\ disc = None => FinalizerObject = Protocol!Absent
  BY DEF FinalizerObject, Protocol!Absent

LEMMA SameObject ==
    ASSUME disc # None, disc' # None, Alike(disc', disc)
    PROVE  FinalizerObject' = FinalizerObject
  BY DEF FinalizerObject, Alike

\* The worker stops, or was not at work.
LEMMA Rests ==
    ASSUME Sound, UNCHANGED <<FinalizerObject, uids>>, Idles
    PROVE  Simulates
<1>1. FinalizerWork' = 0
  BY DEF FinalizerWork, Idles, Working
<1>2. CASE FinalizerWork = 0
  BY <1>1, <1>2 DEF Simulates
<1>3. CASE FinalizerWork # 0
  BY <1>1, <1>3 DEF Simulates, Protocol!Next, Protocol!Stop
<1> QED
  BY <1>2, <1>3

LEMMA ProtocolStep ==
    ASSUME Sound, Sound', Guarded, [Next]_vars
    PROVE  Simulates
<1>1. CASE Stays
  <2>1. UNCHANGED <<FinalizerObject, uids>>
    BY <1>1 DEF Stays, FinalizerObject
  <2>2. CASE UNCHANGED <<pc, loc>>
    BY <2>1, <2>2 DEF Simulates, FinalizerWork
  <2>3. CASE Proceeds
    BY <2>1, <2>3 DEF Simulates, FinalizerWork, Proceeds, Working
  <2> QED
    BY <1>1, <2>1, <2>2, <2>3, Rests DEF Stays
<1>2. CASE Begins
  <2>1. UNCHANGED <<FinalizerObject, uids>> /\ FinalizerWork = 0
    BY <1>2 DEF Begins, FinalizerObject, FinalizerWork, Working
  <2>2. CASE pc' = "poll"
    <3>1. Live(cdisc) /\ cdisc.finalizer /\ loc'.disc = cdisc
      BY <1>2, <2>2 DEF Begins, Live
    <3>2. disc # None /\ disc.uid = cdisc.uid /\ disc.finalizer
      BY <3>1 DEF Guarded, Former, Live
    <3>3. FinalizerObject.uid = disc.uid /\ FinalizerObject.state \in {"guarded", "ending"}
      BY <3>2, ObjectStates
    <3>4. FinalizerWork' = disc.uid
      BY <2>2, <3>1, <3>2 DEF FinalizerWork, Working
    <3> QED
      BY <2>1, <3>3, <3>4 DEF Simulates, Protocol!Next, Protocol!Start
  <2>3. CASE pc' # "poll"
    <3>1. FinalizerWork' = 0
      BY <1>2, <2>3 DEF Begins, FinalizerWork, Working
    <3> QED
      BY <2>1, <3>1 DEF Simulates
  <2> QED
    BY <2>2, <2>3
<1>3. CASE Adds
  <2>1. disc # None /\ disc' # None
    BY <1>3, NoneIsNothing DEF Adds
  <2>2. /\ FinalizerObject = [uid |-> disc.uid, state |-> "fresh"]
        /\ FinalizerObject' = [uid |-> disc.uid, state |-> "guarded"]
    BY <1>3, <2>1 DEF Adds, FinalizerObject
  <2>3. FinalizerObject' = [FinalizerObject EXCEPT !.state = "guarded"]
    BY <2>2
  <2>4. FinalizerWork = 0 /\ FinalizerWork' \in {0, disc.uid}
    BY <1>3 DEF Adds, FinalizerWork, Idles, Working
  <2> QED
    BY <1>3, <2>2, <2>3, <2>4 DEF Adds, Simulates, Protocol!Next, Protocol!Guard
<1>4. CASE Removes
  <2>1. disc # None
    BY <1>4, NoneIsNothing DEF Removes
  <2>2. FinalizerObject.state = "ending" /\ FinalizerObject' = Protocol!Absent
    BY <1>4, <2>1 DEF Removes, FinalizerObject, Protocol!Absent
  <2>3. FinalizerWork = 0 /\ FinalizerWork' = 0
    BY <1>4 DEF Removes, FinalizerWork, Idles, Working
  <2> QED
    BY <1>4, <2>2, <2>3 DEF Removes, Simulates, Protocol!Next, Protocol!Release
<1>5. CASE Recounts
  <2>1. disc # None /\ cdisc # None /\ cdisc.uid = disc.uid /\ loc.disc.uid = disc.uid
    BY <1>5 DEF Recounts, Guarded
  <2>2. loc'.disc.uid = loc.disc.uid /\ Alike(loc'.disc, cdisc)
    BY <1>5, <2>1 DEF Recounts, Alike
  <2>3. UNCHANGED FinalizerWork
    BY <1>5, <2>2 DEF Recounts, FinalizerWork
  <2>4. UNCHANGED FinalizerObject
    <3>1. CASE UNCHANGED disc
      BY <3>1 DEF FinalizerObject
    <3>2. CASE cdisc = disc /\ disc' = loc'.disc
      <4>1. disc' # None
        BY <1>5, <3>2, NoneIsNothing DEF Recounts
      <4> QED
        BY <2>1, <2>2, <3>2, <4>1, SameObject
    <3> QED
      BY <1>5, <3>1, <3>2 DEF Recounts
  <2> QED
    BY <1>5, <2>3, <2>4 DEF Recounts, Simulates
<1>6. CASE Reports
  <2>1. UNCHANGED FinalizerObject
    BY <1>6, NoneIsNothing, SameObject DEF Reports
  <2> QED
    BY <1>6, <2>1, Rests DEF Reports
<1>7. CASE Delivers
  <2>1. UNCHANGED <<FinalizerObject, uids>>
    BY <1>7 DEF Delivers, FinalizerObject
  <2>2. CASE UNCHANGED <<pc, loc>>
    BY <2>1, <2>2 DEF Simulates, FinalizerWork
  <2> QED
    BY <1>7, <2>1, <2>2, Rests DEF Delivers
<1>8. CASE Edited
  <2>1. UNCHANGED FinalizerWork
    BY <1>8 DEF Edited, FinalizerWork
  <2>2. CASE disc = None
    <3>1. /\ uids' = uids + 1 /\ disc' # None /\ disc'.uid = uids'
          /\ ~ disc'.deleting /\ ~ disc'.finalizer
      BY <1>8, <2>2, NoneIsNothing DEF Edited
    <3>2. FinalizerObject = Protocol!Absent /\ FinalizerObject' = [uid |-> uids', state |-> "fresh"]
      BY <2>2, <3>1 DEF FinalizerObject, Protocol!Absent
    <3> QED
      BY <2>1, <3>1, <3>2 DEF Simulates, Protocol!Next, Protocol!Create
  <2>3. CASE disc # None /\ disc' = None
    <3>1. uids' = uids /\ ~ disc.deleting /\ ~ disc.finalizer
      BY <1>8, <2>3, NoneIsNothing DEF Edited
    <3>2. FinalizerObject.state = "fresh" /\ FinalizerObject' = Protocol!Absent
      BY <2>3, <3>1 DEF FinalizerObject, Protocol!Absent
    <3> QED
      BY <2>1, <3>1, <3>2 DEF Simulates, Protocol!Next, Protocol!MarkDeleted
  <2>4. CASE disc # None /\ disc' # None
    <3>1. /\ uids' = uids /\ disc'.uid = disc.uid /\ disc'.finalizer = disc.finalizer
          /\ ~ disc.deleting /\ (disc'.deleting => disc.finalizer)
      BY <1>8, <2>4 DEF Edited
    <3>2. CASE disc'.deleting
      <4>1. /\ FinalizerObject = [uid |-> disc.uid, state |-> "guarded"]
            /\ FinalizerObject' = [uid |-> disc.uid, state |-> "ending"]
        BY <2>4, <3>1, <3>2 DEF FinalizerObject
      <4>2. FinalizerObject' = [FinalizerObject EXCEPT !.state = "ending"]
        BY <4>1
      <4> QED
        BY <2>1, <3>1, <4>1, <4>2 DEF Simulates, Protocol!Next, Protocol!MarkDeleted
    <3>3. CASE ~ disc'.deleting
      <4>1. UNCHANGED FinalizerObject
        BY <2>4, <3>1, <3>3 DEF FinalizerObject
      <4> QED
        BY <2>1, <3>1, <4>1 DEF Simulates
    <3> QED
      BY <3>2, <3>3
  <2> QED
    BY <2>2, <2>3, <2>4
<1> QED
  BY <1>1, <1>2, <1>3, <1>4, <1>5, <1>6, <1>7, <1>8, Moves

(***************************************************************************)
(* The discovery controller implements the finalizer protocol: whatever it *)
(* reads from stale caches, and although RetryOnConflict replaces its copy *)
(* half way through, it polls, creates, updates and sweeps only for the    *)
(* discovery it began with, which exists and carries the finalizer; and a  *)
(* deleted discovery goes only when nothing of the kind is under way.      *)
(***************************************************************************)
THEOREM ImplementsFinalizerProtocol == Spec => FinalizerHonoured
<1>1. Init => Protocol!Init
  BY DEF Init, Protocol!Init, FinalizerObject, FinalizerWork, Working, Protocol!Absent
<1>2. Sound /\ Sound' /\ Guarded /\ [Next]_vars => Simulates
  BY ProtocolStep
<1> QED
  BY <1>1, <1>2, SoundAlways, GuardedAlways, PTL
     DEF Spec, Simulates, FinalizerHonoured, Protocol!Spec

-----------------------------------------------------------------------------
(***************************************************************************)
(* What the actions do to the pipelines, the watch events and the queue.   *)
(***************************************************************************)
Provides(n) ==
    /\ pc \in {"create", "update"} /\ n \in loc.missing \cup loc.outdated
    /\ Accepted(n) /\ StorePipeline(n, Provided(n))

Parts(n) == pc \in {"orphan", "release"} /\ MayPart(n) /\ StorePipeline(n, Parted(n))

\* By the pipeline controller or the garbage collector.
Changes(n) ==
    /\ pipes[n] \in ChildPipelines /\ UNCHANGED <<pc, loc, dirty, faults>>
    /\ \E p \in OrNone(ChildPipelines) :
          /\ StorePipeline(n, p)
          /\ \/ ~ pipes[n].deleting /\ p = [pipes[n] EXCEPT !.unhealthy = ~ @]
             \/ pipes[n].deleting /\ p = None
             \/ /\ ~ pipes[n].deleting /\ Owned(pipes[n])
                /\ disc # None => disc.uid # pipes[n].owner
                /\ p = [pipes[n] EXCEPT !.deleting = TRUE]
          /\ p # None => /\ p.labelled = pipes[n].labelled /\ p.owner = pipes[n].owner
                         /\ p.hash = pipes[n].hash

Untouched == UNCHANGED <<disc, pipes, cdisc, cpipes, stale, wakes>>

Queued == (dirty => dirty') /\ (requeue => requeue' \/ dirty')

LEMMA QueueEffects ==
    /\ Fail => Queued /\ dirty'
    /\ \A after \in BOOLEAN : Return(after) => Queued
    /\ \A l, label : Goto(label, l) => Queued
    /\ UNCHANGED <<dirty, requeue>> => Queued
<1>1. Fail => Queued /\ dirty'
  BY DEF Fail, Queued
<1>2. ASSUME NEW after \in BOOLEAN, Return(after) PROVE Queued
  <2>1. requeue' = (requeue \/ after) /\ dirty' = dirty
    BY <1>2 DEF Return
  <2>2. requeue => requeue'
    BY <2>1, Zenon
  <2> QED
    BY <2>1, <2>2 DEF Queued
<1>3. UNCHANGED <<dirty, requeue>> => Queued
  BY DEF Queued
<1> QED
  BY <1>1, <1>2, <1>3 DEF Goto, queueVars

LEMMA WorkerEffects ==
    ASSUME Sound, Worker
    PROVE  \/ Begin
           \/ Queued /\ (Untouched \/ DiscStored \/ \E n \in Names : Provides(n) \/ Parts(n))
<1> USE DEF apiVars, cacheVars, watchVars, queueVars
<1>1. CASE AddFinalizer \/ RemoveFinalizer
  <2>1. Queued
    BY <1>1, QueueEffects DEF AddFinalizer, RemoveFinalizer
  <2>2. \A d : StoreDisc(d) => DiscStored
    BY DEF StoreDisc, DiscStored
  <2> QED
    BY <1>1, <2>1, <2>2 DEF AddFinalizer, RemoveFinalizer
<1>2. CASE FinalizerConflict \/ ReportFails
  BY <1>2, QueueEffects DEF FinalizerConflict, ReportFails, Untouched
<1>3. CASE Poll
  BY <1>3, PollEffect, QueueEffects DEF Untouched
<1>4. CASE CountFailure
  BY <1>4, RecountEffect, CountTyped, QueueEffects DEF CountFailure
<1>5. CASE ResetFailures
  <2>1. 0 \in 0 .. MaxFailures
    BY DiscoveryConstants
  <2> QED
    BY <1>5, <2>1, RecountEffect, QueueEffects DEF ResetFailures
<1>6. CASE ListChildren
  BY <1>6, ListEffect, QueueEffects DEF Untouched
<1>7. CASE ListOrphans \/ ListOwned
  BY <1>7, SweepEffect, QueueEffects DEF Untouched
<1>8. CASE ReportError \/ Report
  <2>1. \A st : Persist(st) => DiscStored
    BY DEF Persist, DiscStored
  <2> QED
    BY <1>8, <2>1, QueueEffects DEF ReportError, Report, Untouched
<1>9. ASSUME NEW n \in Names, CreateChild(n) \/ UpdateChild(n)
      PROVE  Queued /\ (Untouched \/ Provides(n))
  <2>1. PICK l : Provide(n, l)
    BY <1>9 DEF CreateChild, UpdateChild
  <2>2. pc \in {"create", "update"} /\ n \in loc.missing \cup loc.outdated
    BY <1>9 DEF CreateChild, UpdateChild
  <2> QED
    BY <2>1, <2>2, QueueEffects DEF Provide, Provides, Untouched
<1>10. ASSUME NEW n \in Names, LetGo(n)
       PROVE  Queued /\ (Untouched \/ Parts(n))
  BY <1>10, QueueEffects DEF LetGo, Parts, Untouched
<1> QED
  BY <1>1, <1>2, <1>3, <1>4, <1>5, <1>6, <1>7, <1>8, <1>9, <1>10 DEF Worker

LEMMA Effects ==
    ASSUME Sound, [Next]_vars
    PROVE  \/ Begin
           \/ /\ Queued
              /\ \/ Untouched \/ DiscStored
                 \/ \E n \in Names : Provides(n) \/ Parts(n) \/ Changes(n) \/ DeliverPipeline(n)
           \/ DeliverDisc \/ Restart
<1> USE DEF apiVars, cacheVars, watchVars, queueVars
<1>1. CASE TimerFires \/ UNCHANGED vars
  BY <1>1 DEF TimerFires, vars, Untouched, Queued
<1>2. CASE CallFails
  BY <1>2, QueueEffects DEF CallFails, Untouched
<1>3. CASE AnswerLost
  <2>1. Queued
    BY <1>3, LostEffect, QueueEffects
  <2>2. \A d : StoreDisc(d) \/ Persist(d) => DiscStored
    BY DEF StoreDisc, Persist, DiscStored
  <2> QED
    BY <1>3, <2>1, <2>2, LostEffect DEF Provides, Parts
<1>4. CASE CreateDisc \/ EditDisc \/ DeleteDisc
  BY <1>4, UserEffect, QueueEffects DEF DiscStored
<1>5. CASE ChangeWorld
  BY <1>5, QueueEffects DEF ChangeWorld, Untouched
<1>6. ASSUME NEW n \in Names, PipelineReports(n) \/ PipelineGone(n) \/ Collect(n)
      PROVE  Queued /\ Changes(n)
  BY <1>6, ReplaceEffect, QueueEffects DEF Changes
<1>7. ASSUME NEW n \in Names, DeliverPipeline(n) PROVE Queued
  BY <1>7 DEF DeliverPipeline, Queued
<1> QED
  BY <1>1, <1>2, <1>3, <1>4, <1>5, <1>6, <1>7, WorkerEffects DEF Next, Users, Others

-----------------------------------------------------------------------------
(***************************************************************************)
(* While no event of the discovery is on its way and the worker is not     *)
(* queued, the worker holds the latest version.                            *)
(***************************************************************************)
LEMMA StaysCurrent ==
    ASSUME Sound, Sound', [Next]_vars, Current'
    PROVE  /\ "disc" \notin stale /\ cdisc = disc /\ disc' = disc /\ cdisc' = disc
           /\ Begin \/ (Current /\ ~ Restart /\ ~ DeliverDisc)
           /\ requeue => requeue'
<1>1. ~ dirty' /\ "disc" \notin stale'
  BY DEF Current
<1>2. ~ Restart /\ ~ DeliverDisc
  BY <1>1 DEF Restart, DeliverDisc
<1>3. CASE Begin
  <2>1. UNCHANGED <<disc, cdisc, stale, requeue>>
    BY <1>3, BeginEffect DEF apiVars, cacheVars, watchVars
  <2> QED
    BY <1>1, <1>3, <2>1 DEF Sound, ObjectsOK, Caches
<1>4. CASE Queued /\ Untouched
  BY <1>1, <1>2, <1>4 DEF Queued, Untouched, Current, Sound, ObjectsOK, Caches
<1>5. CASE Queued /\ DiscStored
  BY <1>1, <1>2, <1>5 DEF Queued, DiscStored, Current, Sound, ObjectsOK, Caches
<1>6. ASSUME NEW n \in Names, NEW p, StorePipeline(n, p), Queued
      PROVE  /\ "disc" \notin stale /\ cdisc = disc /\ disc' = disc /\ cdisc' = disc
             /\ Current /\ (requeue => requeue')
  <2>1. UNCHANGED <<disc, cdisc>> /\ stale \subseteq stale'
    BY <1>6 DEF StorePipeline, cacheVars
  <2> QED
    BY <1>1, <1>6, <2>1 DEF Queued, Current, Sound, ObjectsOK, Caches
<1>7. ASSUME NEW n \in Names, DeliverPipeline(n)
      PROVE  /\ "disc" \notin stale /\ cdisc = disc /\ disc' = disc /\ cdisc' = disc
             /\ Current /\ (requeue => requeue')
  <2>1. UNCHANGED <<disc, cdisc, requeue>> /\ stale' = stale \ {n} /\ (dirty => dirty')
    BY <1>7 DEF DeliverPipeline, apiVars
  <2>2. "disc" # n
    BY NamesFinite
  <2> QED
    BY <1>1, <2>1, <2>2 DEF Current, Sound, ObjectsOK, Caches
<1> QED
  BY <1>2, <1>3, <1>4, <1>5, <1>6, <1>7, Effects DEF Provides, Parts, Changes

LEMMA HeldStep ==
    ASSUME Sound, Sound', Guarded, Held, [Next]_vars
    PROVE  Held'
<1> SUFFICES ASSUME Current', pc' # "idle"
             PROVE  loc'.disc = [disc' EXCEPT !.failures = loc'.disc.failures]
  BY DEF Held
<1>1. /\ "disc" \notin stale /\ cdisc = disc /\ disc' = disc /\ cdisc' = disc
      /\ Begin \/ (Current /\ ~ Restart /\ ~ DeliverDisc)
  BY StaysCurrent
<1>2. CASE Begin
  <2>1. loc' = [NoLocals EXCEPT !.disc = cdisc] /\ cdisc # None
    BY <1>2, BeginEffect
  <2>2. loc'.disc = disc' /\ disc' \in Discoveries
    BY <1>1, <2>1 DEF NoLocals, Sound, ObjectsOK, OrNone
  <2> QED
    BY <2>2 DEF Discoveries
<1>3. CASE ~ Begin /\ Current
  <2>1. pc # "idle" => loc.disc = [disc EXCEPT !.failures = loc.disc.failures]
    BY <1>3 DEF Held
  <2>2. CASE Stays
    BY <1>1, <2>1, <2>2 DEF Stays, Idles, Proceeds
  <2>3. CASE Begins
    <3>1. loc'.disc = disc' /\ disc' \in Discoveries
      BY <1>1, <2>3 DEF Begins, Sound, ObjectsOK, OrNone
    <3> QED
      BY <3>1 DEF Discoveries
  <2>4. CASE Adds
    BY <1>1, <2>4 DEF Adds
  <2>5. CASE Removes \/ Reports
    BY <2>5 DEF Removes, Reports, Idles
  <2>6. CASE Recounts
    <3>1. cdisc # None
      BY <1>1, <2>6 DEF Recounts, Guarded
    <3> QED
      BY <1>1, <2>6, <3>1 DEF Recounts
  <2>7. CASE Delivers
    BY <1>1, <2>1, <2>7 DEF Delivers, Idles
  <2>8. CASE Edited
    BY <1>1, <2>1, <2>8 DEF Edited
  <2> QED
    BY <2>2, <2>3, <2>4, <2>5, <2>6, <2>7, <2>8, Moves
<1> QED
  BY <1>1, <1>2, <1>3

\* How a reconcile ends that does not queue the name again.
LEMMA Concludes ==
    ASSUME Sound, [Next]_vars, pc # "idle", pc' = "idle", ~ dirty'
    PROVE  \/ disc' = None
           \/ pc = "poll" /\ loc.disc.spec.selects = None
           \/ ReportError \/ Report
           \/ pc = "reportError" /\ faults' = faults + 1 /\ Return(TRUE)
<1>1. ~ Fail
  BY DEF Fail
<1>2. ASSUME NEW l, NEW label, Goto(label, l) PROVE label = "idle"
  BY <1>2 DEF Goto
<1>3. CASE Worker
  <2>1. CASE RemoveFinalizer
    BY <2>1 DEF RemoveFinalizer, StoreDisc
  <2>2. CASE Poll
    BY <1>2, <2>2, PollEffect
  <2>3. CASE AddFinalizer \/ CountFailure \/ ResetFailures
    BY <1>2, <2>3 DEF AddFinalizer, CountFailure, ResetFailures, Recount
  <2>4. \A l : Stage(l) # "idle"
    BY DEF Stage
  <2>5. CASE ListChildren
    BY <1>1, <1>2, <2>4, <2>5 DEF ListChildren
  <2>6. CASE ListOrphans \/ ListOwned
    BY <2>6 DEF ListOrphans, ListOwned, Goto
  <2>7. ASSUME NEW n \in Names, CreateChild(n) \/ UpdateChild(n) PROVE FALSE
    <3>1. PICK l : Provide(n, l)
      BY <2>7 DEF CreateChild, UpdateChild
    <3> QED
      BY <1>1, <1>2, <2>4, <3>1 DEF Provide
  <2>8. ASSUME NEW n \in Names, LetGo(n) PROVE FALSE
    BY <1>1, <2>8 DEF LetGo, Goto
  <2> QED
    BY <1>1, <1>3, <2>1, <2>2, <2>3, <2>5, <2>6, <2>7, <2>8
       DEF Worker, Begin, FinalizerConflict, ReportFails
<1>4. CASE CallFails
  BY <1>1, <1>2, <1>4 DEF CallFails
<1>5. CASE AnswerLost \/ Restart
  BY <1>1, <1>5, LostEffect DEF Restart
<1>6. CASE Others \/ Users
  BY <1>6, ReplaceEffect, UserEffect DEF Others, Users, DeliverPipeline, ChangeWorld, workVars
<1> QED
  BY <1>3, <1>4, <1>5, <1>6 DEF Next, DeliverDisc, TimerFires, workVars, vars

LEMMA PollingStep ==
    ASSUME Sound, Sound', Held, PollingContinues, [Next]_vars
    PROVE  PollingContinues'
<1> SUFFICES ASSUME Live(disc)', pc' = "idle", disc'.spec.selects # None, Current' PROVE requeue'
  BY DEF PollingContinues, Current
<1>1. /\ "disc" \notin stale /\ cdisc = disc /\ disc' = disc
      /\ Begin \/ Current
      /\ requeue => requeue'
  BY StaysCurrent
<1>2. ~ Begin
  BY <1>1, BeginEffect DEF Live
<1>3. CASE pc = "idle"
  BY <1>1, <1>2, <1>3 DEF PollingContinues, Current, Live
<1>4. CASE pc # "idle"
  <2>1. disc \in Discoveries /\ loc.disc = [disc EXCEPT !.failures = loc.disc.failures]
    BY <1>1, <1>2, <1>4 DEF Held, Live, Sound, ObjectsOK, OrNone
  <2>2. loc.disc.spec = disc.spec
    BY <2>1 DEF Discoveries
  <2>3. Return(TRUE) => requeue'
    BY Zenon DEF Return
  <2> QED
    BY <1>1, <1>4, <2>2, <2>3, Concludes DEF Current, Live, ReportError, Report
<1> QED
  BY <1>3, <1>4

LEMMA HeldAlways == Spec => []Held
<1>1. Init => Held
  BY DEF Init, Held
<1>2. Sound /\ Sound' /\ Guarded /\ Held /\ [Next]_vars => Held'
  BY HeldStep
<1> QED
  BY <1>1, <1>2, SoundAlways, GuardedAlways, PTL DEF Spec

(***************************************************************************)
(* Polling never stops.  A reconcile that ends without a timer or a retry  *)
(* is one of a discovery that has changed or has no source: had nothing    *)
(* happened, the copy it held would be the latest version, but for the     *)
(* failure count (Held), of which every other return path of Reconcile     *)
(* asks for the next poll.                                                 *)
(***************************************************************************)
THEOREM PollingNeverStops == Spec => []PollingContinues
<1>1. Init => PollingContinues
  BY DEF Init, PollingContinues, Live
<1>2. Sound /\ Sound' /\ Held /\ PollingContinues /\ [Next]_vars => PollingContinues'
  BY PollingStep
<1> QED
  BY <1>1, <1>2, SoundAlways, HeldAlways, PTL DEF Spec

-----------------------------------------------------------------------------
(***************************************************************************)
(* Who owns the pipelines.                                                 *)
(***************************************************************************)
LEMMA CopiesMove ==
    ASSUME Sound, [Next]_vars
    PROVE  /\ \A c \in {cdisc', loc'.disc} : c # None =>
                 \E b \in {disc, cdisc, loc.disc} : b # None /\ c.uid = b.uid
           /\ uids' = uids \/ (uids' = uids + 1 /\ UNCHANGED <<cdisc, loc>>)
<1>1. Idles => loc'.disc = None
  BY NoLocalsTyped DEF Idles
<1>2. CASE Stays \/ Begins \/ Removes \/ Reports \/ Delivers \/ Edited
  BY <1>1, <1>2 DEF Stays, Proceeds, Begins, Removes, Reports, Delivers, Edited
<1>3. CASE Adds
  <2>1. disc # None /\ disc' # None /\ disc'.uid = disc.uid
    BY <1>3, NoneIsNothing DEF Adds
  <2> QED
    BY <1>1, <1>3, <2>1 DEF Adds
<1>4. CASE Recounts
  BY <1>4, NoneIsNothing DEF Recounts, Alike
<1> QED
  BY <1>2, <1>3, <1>4, Moves

\* The pipelines but for one are left alone.
LEMMA OnePipeline ==
    ASSUME Sound, NEW n \in Names, NEW p, StorePipeline(n, p)
    PROVE  /\ pipes'[n] = p /\ UNCHANGED <<disc, uids, cdisc, cpipes>>
           /\ \A m \in Names : m # n => pipes'[m] = pipes[m]
  BY DEF StorePipeline, cacheVars, Sound, ObjectsOK

LEMMA PipesMove ==
    ASSUME Sound, [Next]_vars
    PROVE  UNCHANGED pipes \/ \E n \in Names : Provides(n) \/ Parts(n) \/ Changes(n)
<1> QED
  BY Effects DEF Untouched, DiscStored, Begin, DeliverDisc, Restart, DeliverPipeline, apiVars

LEMMA PipelineFields ==
    ASSUME NEW p \in ChildPipelines
    PROVE  p # None /\ p.owner \in Nat /\ p.labelled \in BOOLEAN /\ p.deleting \in BOOLEAN
  BY DiscoveryConstants, NoneIsNothing DEF ChildPipelines

\* What a write of Reconcile does to the owner and the label.
LEMMA ProvidesEffect ==
    ASSUME Sound, Guarded, NEW n \in Names, Provides(n)
    PROVE  /\ pipes'[n] # None /\ pipes'[n].labelled /\ pipes'[n].owner = uids
           /\ disc # None /\ disc.uid = uids /\ loc.disc.uid = uids
           /\ cdisc # None /\ cdisc.uid = uids
           /\ Live(pipes[n]) => Live(pipes'[n])
<1>1. /\ Provided(n) \in ChildPipelines /\ Provided(n).labelled
      /\ Provided(n).owner = loc.disc.uid
      /\ cpipes[n] # None => Provided(n).deleting = cpipes[n].deleting
  BY ProvidedTyped DEF Provides
<1>2. pipes'[n] = Provided(n)
  BY OnePipeline DEF Provides
<1>3. pc \in Working
  BY DEF Provides, Working
<1>4. disc # None /\ disc.uid = uids /\ loc.disc.uid = uids /\ cdisc # None /\ cdisc.uid = uids
  BY <1>3 DEF Guarded
<1>5. ASSUME Live(pipes[n]) PROVE Live(pipes'[n])
  <2>1. cpipes[n] # None /\ n \notin stale
    BY <1>5 DEF Provides, Accepted, Live
  <2>2. cpipes[n] = pipes[n]
    BY <2>1 DEF Sound, ObjectsOK, Caches
  <2> QED
    BY <1>1, <1>2, <1>5, <2>1, <2>2, NoneIsNothing DEF Live
<1> QED
  BY <1>1, <1>2, <1>4, <1>5, NoneIsNothing

LEMMA PartsEffect ==
    ASSUME Sound, NEW n \in Names, Parts(n)
    PROVE  /\ pipes[n] \in ChildPipelines /\ pipes'[n] \in ChildPipelines
           /\ IF Deletes
              THEN /\ pipes'[n].owner = pipes[n].owner /\ pipes'[n].labelled = pipes[n].labelled
              ELSE /\ pipes'[n].owner = IF pipes[n].owner = loc.disc.uid THEN 0 ELSE pipes[n].owner
                   /\ pipes'[n].deleting = pipes[n].deleting
<1>1. /\ Parted(n) \in ChildPipelines /\ pipes[n] \in ChildPipelines
      /\ ~ Deletes => loc.list[n] = pipes[n] /\ Parted(n) = Released(pipes[n])
  BY PartedTyped DEF Parts
<1>2. pipes'[n] = Parted(n)
  BY OnePipeline DEF Parts
<1>3. CASE Deletes
  BY <1>1, <1>2, <1>3 DEF Parted, ChildPipelines
<1>4. CASE ~ Deletes
  BY <1>1, <1>2, <1>4 DEF Released, ChildPipelines
<1> QED
  BY <1>1, <1>2, <1>3, <1>4

LEMMA ChangesEffect ==
    ASSUME Sound, NEW n \in Names, Changes(n)
    PROVE  /\ pipes'[n] # None => /\ pipes'[n].owner = pipes[n].owner
                                  /\ pipes'[n].labelled = pipes[n].labelled
           /\ \/ ~ Live(pipes[n]) \/ Live(pipes'[n])
              \/ Owned(pipes[n]) /\ (disc # None => disc.uid # pipes[n].owner)
           /\ pipes[n] # None
           /\ UNCHANGED <<disc, uids, cdisc>>
<1>1. PICK p \in OrNone(ChildPipelines) :
          /\ StorePipeline(n, p)
          /\ \/ ~ pipes[n].deleting /\ p = [pipes[n] EXCEPT !.unhealthy = ~ @]
             \/ pipes[n].deleting /\ p = None
             \/ /\ ~ pipes[n].deleting /\ Owned(pipes[n])
                /\ disc # None => disc.uid # pipes[n].owner
                /\ p = [pipes[n] EXCEPT !.deleting = TRUE]
          /\ p # None => /\ p.labelled = pipes[n].labelled /\ p.owner = pipes[n].owner
                         /\ p.hash = pipes[n].hash
  BY DEF Changes
<1>2. pipes'[n] = p /\ UNCHANGED <<disc, uids, cdisc>> /\ pipes[n] \in ChildPipelines
  BY <1>1, OnePipeline DEF Changes
<1>3. ASSUME p = [pipes[n] EXCEPT !.unhealthy = ~ @]
      PROVE  p \in ChildPipelines /\ p.deleting = pipes[n].deleting
  BY <1>2, <1>3 DEF ChildPipelines
<1> QED
  BY <1>1, <1>2, <1>3, NoneIsNothing DEF Live

LEMMA OwnersStep ==
    ASSUME Sound, Sound', Guarded, Owners, [Next]_vars
    PROVE  Owners'
<1>1. uids \in Nat /\ uids' \in Nat
  BY DiscoveryConstants DEF Sound, ObjectsOK
<1>2. \A n \in Names : pipes[n] # None => pipes[n] \in ChildPipelines /\ pipes[n].owner \in Nat
  BY PipelineFields DEF Sound, ObjectsOK, OrNone
<1>3. CASE uids' = uids
  <2> DEFINE Far == \E c \in {cdisc, loc.disc} : c # None /\ c.uid # uids
  <2>1. ASSUME NEW c \in {cdisc', loc'.disc}, c # None, c.uid # uids PROVE Far
    BY <2>1, CopiesMove DEF Guarded
  <2>2. Far => \A n \in Names : pipes[n] # None => pipes[n].owner # uids
    BY DEF Owners
  <2>3. ASSUME NEW n \in Names, pipes'[n] # None
        PROVE  /\ pipes'[n].owner <= uids
               /\ uids # 0 /\ pipes'[n].owner = uids => pipes'[n].labelled
               /\ Far => pipes'[n].owner # uids
    <3> HIDE DEF Far
    <3>1. CASE pipes'[n] = pipes[n]
      BY <2>2, <2>3, <3>1 DEF Owners
    <3>2. CASE Provides(n)
      <4>1. ~ Far
        BY <3>2, ProvidesEffect DEF Far
      <4> QED
        BY <1>1, <3>2, <4>1, ProvidesEffect
    <3>3. CASE Parts(n)
      <4>1. pipes[n] # None /\ pipes[n].owner \in Nat
        BY <3>3, PartsEffect, PipelineFields
      <4>2. pipes[n].owner <= uids /\ (uids # 0 /\ pipes[n].owner = uids => pipes[n].labelled)
            /\ (Far => pipes[n].owner # uids)
        BY <2>2, <4>1 DEF Owners
      <4>3. CASE Deletes
        BY <3>3, <4>2, <4>3, PartsEffect
      <4>4. CASE ~ Deletes
        <5>1. pipes'[n].owner = IF pipes[n].owner = loc.disc.uid THEN 0 ELSE pipes[n].owner
          BY <3>3, <4>4, PartsEffect
        <5>2. loc.disc # None
          BY <3>3 DEF Parts, Sound, WorkerOK, Stages
        <5>3. ASSUME pipes'[n].owner = uids, uids # 0 PROVE FALSE
          <6>1. loc.disc.uid # uids
            BY <5>1, <5>3
          <6> QED
            BY <4>2, <5>1, <5>2, <5>3, <6>1 DEF Far
        <5>4. ASSUME Far, uids = 0 PROVE pipes'[n].owner # uids
          <6>1. pipes[n].owner # 0
            BY <4>2, <5>4
          <6> QED
            BY <1>1, <4>1, <4>2, <5>4, <6>1
        <5> QED
          BY <1>1, <4>1, <4>2, <5>1, <5>3, <5>4
      <4> QED
        BY <4>3, <4>4
    <3>4. CASE Changes(n)
      <4>1. pipes[n] # None /\ pipes'[n].owner = pipes[n].owner
            /\ pipes'[n].labelled = pipes[n].labelled
        BY <2>3, <3>4, ChangesEffect
      <4> QED
        BY <2>2, <4>1 DEF Owners
    <3>5. ASSUME NEW m \in Names, m # n, Provides(m) \/ Parts(m) \/ Changes(m)
          PROVE  pipes'[n] = pipes[n]
      BY <3>5, OnePipeline DEF Provides, Parts, Changes
    <3> QED
      BY <3>1, <3>2, <3>3, <3>4, <3>5, PipesMove
  <2> HIDE DEF Far
  <2> QED
    BY <1>3, <2>1, <2>3 DEF Owners
<1>4. CASE uids' = uids + 1 /\ UNCHANGED <<cdisc, loc>> /\ UNCHANGED pipes
  <2>1. ASSUME NEW n \in Names, pipes[n] # None
        PROVE  pipes[n].owner <= uids' /\ pipes[n].owner # uids'
    BY <1>1, <1>2, <1>4, <2>1 DEF Owners
  <2> QED
    BY <1>4, <2>1 DEF Owners
<1>5. UNCHANGED pipes \/ uids' = uids
  BY PipesMove, OnePipeline DEF Provides, Parts, Changes
<1>6. uids' = uids + 1 => uids' # uids
  BY <1>1
<1> QED
  BY <1>3, <1>4, <1>5, <1>6, CopiesMove

LEMMA OwnersAlways == Spec => []Owners
<1>1. ASSUME Init PROVE Owners
  <2>1. cdisc = None /\ loc.disc = None /\ \A n \in Names : pipes[n] = None
    BY <1>1, NoLocalsTyped DEF Init
  <2> QED
    BY <2>1 DEF Owners
<1>2. Sound /\ Sound' /\ Guarded /\ Owners /\ [Next]_vars => Owners'
  BY OwnersStep
<1> QED
  BY <1>1, <1>2, SoundAlways, GuardedAlways, PTL DEF Spec

LEMMA ReleasedStep ==
    ASSUME Sound, Guarded, Owners, [Next]_vars, NEW n \in Names,
           Live(pipes[n]), ~ pipes[n].labelled, pipes[n].owner \in {0, uids},
           loc.disc # None => loc.disc.spec.policy = "Orphan"
    PROVE  Live(pipes'[n])
<1>1. pipes[n].owner = 0
  BY DEF Owners, Live
<1>2. CASE Provides(n)
  BY <1>2, ProvidesEffect
<1>3. CASE Parts(n)
  <2>1. ~ Deletes
    BY <1>3 DEF Deletes, Parts, Sound, WorkerOK, Stages
  <2> QED
    BY <1>3, <2>1, PartsEffect, NoneIsNothing DEF Live
<1>4. CASE Changes(n)
  BY <1>1, <1>4, ChangesEffect DEF Owned
<1>5. ASSUME NEW m \in Names, m # n, Provides(m) \/ Parts(m) \/ Changes(m)
      PROVE  pipes'[n] = pipes[n]
  BY <1>5, OnePipeline DEF Provides, Parts, Changes
<1> QED
  BY <1>2, <1>3, <1>4, <1>5, PipesMove DEF Live

(***************************************************************************)
(* A pipeline the Orphan policy let go of stays: no later write of the     *)
(* controller and no run of the garbage collector deletes it, since what   *)
(* the present discovery owns carries its label (Owners) and what nobody   *)
(* owns is not collected.                                                  *)
(***************************************************************************)
THEOREM ReleasedAreKept == Spec => ReleasedPipelinesStay
<1>1. Sound /\ Guarded /\ Owners /\ [Next]_vars =>
        \A n \in Names :
          /\ Live(pipes[n]) /\ ~ pipes[n].labelled /\ pipes[n].owner \in {0, uids}
          /\ loc.disc # None => loc.disc.spec.policy = "Orphan"
          => Live(pipes'[n])
  BY ReleasedStep
<1> QED
  BY <1>1, SoundAlways, GuardedAlways, OwnersAlways, PTL DEF Spec, ReleasedPipelinesStay

-----------------------------------------------------------------------------
(***************************************************************************)
(* What the poll has found.                                                *)
(***************************************************************************)

\* The steps on which Reconcile goes on.
LEMMA GoesOn ==
    ASSUME Sound, [Next]_vars
    PROVE  \/ UNCHANGED <<pc, loc>> \/ pc' = "idle"
           \/ Begin \/ AddFinalizer \/ Poll \/ CountFailure \/ ResetFailures \/ ListChildren
           \/ ListOrphans \/ ListOwned
           \/ \E n \in Names : CreateChild(n) \/ UpdateChild(n) \/ LetGo(n)
           \/ /\ CallFails /\ loc'.found = loc.found
              /\ \/ pc = "reset" /\ pc' = "list"
                 \/ pc = "count" /\ pc' = "reportError"
<1>1. Fail \/ Return(TRUE) \/ Return(FALSE) => pc' = "idle"
  BY DEF Fail, Return
<1>2. CASE RemoveFinalizer \/ FinalizerConflict \/ ReportError \/ Report \/ ReportFails
  BY <1>1, <1>2 DEF RemoveFinalizer, FinalizerConflict, ReportError, Report, ReportFails
<1>3. CASE CallFails
  <2>1. CASE pc \in {"reset", "count"}
    <3>1. loc \in Locals /\ loc' = [loc EXCEPT !.disc = loc'.disc]
          /\ pc' = IF pc = "reset" THEN "list" ELSE "reportError"
      BY <1>3, <2>1, RecallEffect DEF Sound, WorkerOK
    <3>2. loc'.found = loc.found
      BY <3>1 DEF Locals
    <3> QED
      BY <1>3, <2>1, <3>1, <3>2
  <2> QED
    BY <1>1, <1>3, <2>1 DEF CallFails
<1>4. CASE AnswerLost
  BY <1>1, <1>4, LostEffect
<1>5. CASE DeliverDisc \/ TimerFires \/ Restart \/ UNCHANGED vars
  BY <1>5 DEF DeliverDisc, TimerFires, Restart, vars, workVars
<1>6. CASE Others \/ Users
  BY <1>6, ReplaceEffect, UserEffect DEF Others, Users, DeliverPipeline, ChangeWorld, workVars
<1> QED
  BY <1>2, <1>3, <1>4, <1>5, <1>6 DEF Next, Worker

\* CreateOrUpdate of a pipeline after which Reconcile goes on.
LEMMA ChildEffect ==
    ASSUME Sound, NEW n \in Names, CreateChild(n) \/ UpdateChild(n), pc' # "idle"
    PROVE  /\ loc'.disc = loc.disc /\ loc'.found = loc.found /\ pc' = Stage(loc')
           /\ Provided(n) = cpipes[n] \/ Provides(n)
           /\ pc = "create" => /\ n \in loc.missing /\ loc'.missing = loc.missing \ {n}
                               /\ loc'.outdated = loc.outdated
           /\ pc = "update" => n \in loc.outdated
           /\ pc \in {"create", "update"} /\ n \in loc.missing \cup loc.outdated
<1>1. loc \in Locals
  BY DEF Sound, WorkerOK
<1>2. CASE CreateChild(n)
  <2> DEFINE l == [loc EXCEPT !.missing = @ \ {n}, !.creations = @ - 1]
  <2>1. pc = "create" /\ n \in loc.missing /\ Provide(n, l)
    BY <1>2 DEF CreateChild
  <2>2. /\ l.disc = loc.disc /\ l.found = loc.found /\ l.missing = loc.missing \ {n}
        /\ l.outdated = loc.outdated
    BY <1>1 DEF Locals
  <2> HIDE DEF l
  <2> QED
    BY <2>1, <2>2 DEF Provide, Provides, Goto, Fail
<1>3. CASE UpdateChild(n)
  <2> DEFINE l == [loc EXCEPT !.outdated = @ \ {n}, !.updates = @ - 1]
  <2>1. pc = "update" /\ n \in loc.outdated /\ Provide(n, l)
    BY <1>3 DEF UpdateChild
  <2>2. l.disc = loc.disc /\ l.found = loc.found
    BY <1>1 DEF Locals
  <2> HIDE DEF l
  <2> QED
    BY <2>1, <2>2 DEF Provide, Provides, Goto, Fail
<1> QED
  BY <1>2, <1>3

\* Letting go of a pipeline after which Reconcile goes on.
LEMMA LetGoEffect ==
    ASSUME Sound, NEW n \in Names, LetGo(n), pc' # "idle"
    PROVE  /\ loc'.disc = loc.disc /\ loc'.found = loc.found /\ loc'.outdated = loc.outdated
           /\ DOMAIN loc'.list = DOMAIN loc.list \ {n} /\ Parts(n) /\ n \in DOMAIN loc.list
           /\ pc' = IF DOMAIN loc'.list # {} THEN pc
                    ELSE IF pc = "release" THEN "unfinalize" ELSE "report"
<1> DEFINE rest == [m \in DOMAIN loc.list \ {n} |-> loc.list[m]]
           after == IF DOMAIN rest # {} THEN pc ELSE IF pc = "release" THEN "unfinalize" ELSE "report"
<1>1. loc \in Locals
  BY DEF Sound, WorkerOK
<1>2. /\ pc \in {"orphan", "release"} /\ n \in DOMAIN loc.list /\ MayPart(n)
      /\ StorePipeline(n, Parted(n)) /\ pc' = after /\ loc' = [loc EXCEPT !.list = rest]
  BY DEF LetGo, Fail, Goto
<1>3. loc'.list = rest /\ loc'.disc = loc.disc /\ loc'.found = loc.found
      /\ loc'.outdated = loc.outdated
  BY <1>1, <1>2 DEF Locals
<1>4. DOMAIN rest = DOMAIN loc.list \ {n}
  OBVIOUS
<1> HIDE DEF rest
<1> QED
  BY <1>2, <1>3, <1>4 DEF Parts

Polled == {"reset", "list", "create", "update", "sweep", "orphan"}

LEMMA FoundStep ==
    ASSUME Sound, Found, [Next]_vars
    PROVE  Found'
<1> SUFFICES ASSUME pc' # "idle" PROVE Found'
  BY DEF Found
<1>1. loc \in Locals
  BY DEF Sound, WorkerOK
<1>2. Found <=> /\ pc \in Polled => Permanent \subseteq loc.found
                /\ pc = "orphan" => DOMAIN loc.list \cap DOMAIN Want = {}
  BY DEF Found, Polled
<1>3. ASSUME pc' \in Polled => Permanent \subseteq loc'.found,
             pc' = "orphan" => DOMAIN loc'.list \cap DOMAIN Want' = {}
      PROVE  Found'
  BY <1>3 DEF Found, Polled, Permanent
<1>4. ASSUME loc'.disc = loc.disc, loc'.found = loc.found PROVE Want' = Want
  BY <1>4 DEF Want
<1>5. CASE UNCHANGED <<pc, loc>>
  BY <1>2, <1>3, <1>5 DEF Want
<1>6. CASE Begin
  BY <1>3, <1>6, BeginEffect DEF Polled
<1>7. CASE AddFinalizer
  BY <1>3, <1>7 DEF AddFinalizer, Goto, Polled
<1>8. CASE Poll
  <2>1. CASE Goto("count", loc)
    BY <1>3, <2>1 DEF Goto, Polled
  <2>2. CASE ~ Goto("count", loc)
    <3>1. /\ loc.disc.spec.selects # None /\ world # None
          /\ loc' = [loc EXCEPT !.found = Selected(loc.disc.spec, world)]
          /\ pc' \in {"reset", "list"}
      BY <1>8, <2>2, PollEffect DEF Return, Goto
    <3>2. loc'.found = world \cap loc.disc.spec.selects
      BY <1>1, <3>1 DEF Locals, Selected
    <3>3. world \in Worlds /\ loc.disc.spec \in DiscSpecs
      BY <1>8, <3>1, AtWork, DiscFields DEF Sound, ObjectsOK, OrNone, Poll
    <3>4. Permanent \subseteq loc'.found
      BY <3>1, <3>2, <3>3 DEF Permanent
    <3> QED
      BY <1>3, <3>1, <3>4
  <2> QED
    BY <2>1, <2>2
<1>9. CASE CountFailure
  BY <1>3, <1>9 DEF CountFailure, Recount, Goto, Polled
<1>10. CASE ResetFailures
  <2>1. pc = "reset" /\ pc' = "list" /\ loc'.found = loc.found
    BY <1>1, <1>10 DEF ResetFailures, Recount, Goto, Locals
  <2> QED
    BY <1>2, <1>3, <2>1 DEF Polled
<1>11. CASE ListChildren
  <2>1. PICK l \in Locals : Goto(Stage(l), l) /\ l.found = loc.found
    BY <1>11, ListEffect DEF Fail
  <2>2. pc = "list" /\ loc' = l /\ pc' \in {"create", "update", "sweep"}
    BY <1>11, <2>1 DEF ListChildren, Goto, Stage
  <2> QED
    BY <1>2, <1>3, <2>1, <2>2 DEF Polled
<1>12. CASE ListOrphans \/ ListOwned
  <2>1. loc' = [loc EXCEPT !.list = loc'.list]
    BY <1>12, SweepEffect
  <2>2. loc'.disc = loc.disc /\ loc'.found = loc.found
    BY <1>1, <2>1 DEF Locals
  <2>3. \/ pc = "sweep" /\ DOMAIN loc'.list = Listed \ DOMAIN Want
        \/ pc' \notin Polled
    BY <1>12, SweepEffect DEF Polled
  <2> QED
    BY <1>2, <1>3, <1>4, <2>2, <2>3 DEF Polled
<1>13. ASSUME NEW n \in Names, CreateChild(n) \/ UpdateChild(n) PROVE Found'
  <2>1. loc'.found = loc.found /\ pc \in {"create", "update"} /\ pc' = Stage(loc')
    BY <1>13, ChildEffect
  <2>2. pc' # "orphan"
    BY <2>1 DEF Stage
  <2> QED
    BY <1>2, <1>3, <2>1, <2>2 DEF Polled
<1>14. ASSUME NEW n \in Names, LetGo(n) PROVE Found'
  <2>1. /\ loc'.disc = loc.disc /\ loc'.found = loc.found
        /\ DOMAIN loc'.list = DOMAIN loc.list \ {n}
        /\ pc' \in Polled => pc' = "orphan" /\ pc = "orphan"
    BY <1>14, LetGoEffect DEF LetGo, Polled
  <2> QED
    BY <1>2, <1>3, <1>4, <2>1 DEF Polled
<1>15. CASE loc'.found = loc.found /\ pc' \in {"list", "reportError"} /\ (pc' = "list" => pc = "reset")
  BY <1>2, <1>3, <1>15 DEF Polled
<1> QED
  BY <1>5, <1>6, <1>7, <1>8, <1>9, <1>10, <1>11, <1>12, <1>13, <1>14, <1>15, GoesOn

LEMMA FoundAlways == Spec => []Found
<1>1. Init => Found
  BY DEF Init, Found
<1>2. Sound /\ Found /\ [Next]_vars => Found'
  BY FoundStep
<1> QED
  BY <1>1, <1>2, SoundAlways, PTL DEF Spec

LEMMA ServedStep ==
    ASSUME Sound, Guarded, Owners, Found, [Next]_vars, NEW s \in Permanent,
           Live(disc), Live(pipes[sanitizeName[s]]), pipes[sanitizeName[s]].owner = disc.uid
    PROVE  /\ Live(pipes'[sanitizeName[s]]) /\ pipes'[sanitizeName[s]].labelled
           /\ pipes'[sanitizeName[s]].owner = disc.uid
<1> DEFINE n == sanitizeName[s]
<1>1. n \in Names
  BY DEF Permanent, Names
<1>2. disc # None /\ disc.uid = uids /\ uids # 0 /\ pipes[n] # None
  <2>1. disc # None /\ disc.uid = uids /\ pipes[n] # None
    BY DEF Live, Guarded
  <2> QED
    BY <2>1, UidsOrdered DEF Sound
<1>3. pipes[n].labelled
  BY <1>1, <1>2 DEF Owners
<1>4. CASE Provides(n)
  BY <1>1, <1>2, <1>4, ProvidesEffect
<1>5. ~ Parts(n)
  <2>1. SUFFICES ASSUME Parts(n) PROVE FALSE
    OBVIOUS
  <2>2. CASE pc = "orphan"
    <3>1. n \in DOMAIN loc.list
      BY <2>1 DEF Parts, MayPart
    <3>2. s \in loc.found /\ n \notin DOMAIN Want
      BY <2>2, <3>1 DEF Found
    <3> QED
      BY <3>2 DEF Want, Desired
  <2>3. CASE pc = "release"
    <3>1. loc.disc # None /\ loc.disc.deleting
      BY <2>3 DEF Sound, WorkerOK, Stages
    <3>2. loc.disc.uid # disc.uid
      BY <1>2, <3>1 DEF Guarded, Former, Live
    <3> QED
      BY <1>1, <1>2, <3>1, <3>2 DEF Owners
  <2> QED
    BY <2>1, <2>2, <2>3 DEF Parts
<1>6. CASE Changes(n)
  <2>1. Live(pipes'[n])
    BY <1>1, <1>2, <1>6, ChangesEffect
  <2> QED
    BY <1>1, <1>3, <1>6, <2>1, ChangesEffect DEF Live
<1>7. ASSUME NEW m \in Names, m # n, Provides(m) \/ Parts(m) \/ Changes(m)
      PROVE  pipes'[n] = pipes[n]
  BY <1>1, <1>7, OnePipeline DEF Provides, Parts, Changes
<1>8. CASE pipes'[n] = pipes[n]
  BY <1>3, <1>8 DEF Live
<1> QED
  BY <1>4, <1>5, <1>6, <1>7, <1>8, PipesMove

(***************************************************************************)
(* The pipeline of a source that is always there is never deleted or let   *)
(* go of while its discovery lives.  A sweep works on what a poll of the   *)
(* same pass has found, a failed poll sweeps nothing (Found), a cleanup is *)
(* one of a discovery that is going or of one before it, whose pipelines   *)
(* are not the present one's (Owners), and an update keeps what it finds.  *)
(***************************************************************************)
THEOREM ServedAreKept == Spec => KeepsServedPipelines
<1>1. Sound /\ Guarded /\ Owners /\ Found /\ [Next]_vars =>
        \A s \in Permanent :
          LET n == sanitizeName[s]
          IN Live(disc) /\ Live(pipes[n]) /\ pipes[n].owner = disc.uid =>
                Live(pipes'[n]) /\ pipes'[n].labelled /\ pipes'[n].owner = disc.uid
  BY ServedStep
<1> QED
  BY <1>1, SoundAlways, GuardedAlways, OwnersAlways, FoundAlways, PTL
     DEF Spec, KeepsServedPipelines

-----------------------------------------------------------------------------
(***************************************************************************)
(* What the pipelines are while nothing wakes the worker.                  *)
(***************************************************************************)

\* The pipelines that somebody claims are the same.
Alter(n) == pipes'[n] = pipes[n] \/ (~ Claimed(pipes'[n]) /\ ~ Claimed(pipes[n]))

LEMMA Unwoken ==
    ASSUME Sound, Sound', NEW n \in Names, NEW p, StorePipeline(n, p), wakes' = {}
    PROVE  /\ wakes = {} /\ (p = pipes[n] \/ (~ Owned(p) /\ ~ Owned(pipes[n])))
           /\ \A m \in Names : Alter(m)
<1>1. wakes = {} /\ (p = pipes[n] \/ (~ Owned(p) /\ ~ Owned(pipes[n])))
  BY DEF StorePipeline
<1>2. pipes'[n] = p /\ \A m \in Names : m # n => pipes'[m] = pipes[m]
  BY OnePipeline
<1>3. Claimed(pipes[n]) => Owned(pipes[n])
  BY DEF Sound, ObjectsOK, Caches
<1>4. Claimed(pipes'[n]) => Owned(pipes'[n])
  BY DEF Sound, ObjectsOK, Caches, Claimed, Owned
<1> QED
  BY <1>1, <1>2, <1>3, <1>4 DEF Alter

LEMMA CalmBefore ==
    ASSUME Sound, Sound', [Next]_vars, Current', wakes' = {}
    PROVE  wakes = {} /\ \A n \in Names : Alter(n)
<1>1. ~ dirty' /\ ~ Restart /\ ~ DeliverDisc
  BY DEF Current, Restart, DeliverDisc
<1>2. CASE UNCHANGED <<pipes, wakes>>
  BY <1>2 DEF Alter
<1>3. CASE Begin \/ Untouched \/ DiscStored
  BY <1>2, <1>3 DEF Begin, apiVars, watchVars, Untouched, DiscStored
<1>4. ASSUME NEW n \in Names, Provides(n) \/ Parts(n) \/ Changes(n)
      PROVE  wakes = {} /\ \A m \in Names : Alter(m)
  BY <1>4, Unwoken DEF Provides, Parts, Changes
<1>5. ASSUME NEW n \in Names, DeliverPipeline(n) PROVE wakes = {} /\ \A m \in Names : Alter(m)
  <2>1. UNCHANGED pipes /\ wakes' = wakes \ {n} /\ n \notin wakes
    BY <1>1, <1>5 DEF DeliverPipeline, apiVars
  <2> QED
    BY <2>1 DEF Alter
<1> QED
  BY <1>1, <1>3, <1>4, <1>5, Effects

\* What the cache shows of the pipelines that somebody claims is so.
LEMMA CacheIsRight ==
    ASSUME Sound, wakes = {}, NEW n \in Names
    PROVE  cpipes[n] = pipes[n] \/ (~ Claimed(cpipes[n]) /\ ~ Claimed(pipes[n]))
  BY DEF Sound, ObjectsOK, Caches

LEMMA FaultsGrow ==
    ASSUME Sound, Sound', [Next]_vars
    PROVE  faults \in Nat /\ faults' \in Nat /\ faults <= faults'
<1>1. faults \in Nat /\ faults' \in Nat
  BY DiscoveryConstants DEF Sound, BudgetOK
<1>2. faults' = faults \/ faults' = faults + 1
  <2>1. CASE Worker
    BY <2>1, BeginEffect DEF budgetVars, Worker, AddFinalizer, RemoveFinalizer, FinalizerConflict,
       Poll, CountFailure, ResetFailures, ListChildren, ListOrphans, ListOwned, ReportError,
       Report, ReportFails, CreateChild, UpdateChild, LetGo
  <2>2. CASE Users \/ Others
    BY <2>2, UserEffect, ReplaceEffect DEF Users, Others, ChangeWorld, DeliverPipeline, budgetVars
  <2>3. CASE DeliverDisc \/ TimerFires \/ CallFails \/ AnswerLost \/ Restart \/ UNCHANGED vars
    BY <2>3 DEF DeliverDisc, TimerFires, CallFails, AnswerLost, Restart, vars, budgetVars
  <2> QED
    BY <2>1, <2>2, <2>3 DEF Next
<1> QED
  BY <1>1, <1>2

\* Nothing that wakes the worker happens, and neither it nor the wanted
\* pipelines change.
LEMMA SeenStays ==
    ASSUME Sound, Seen, UNCHANGED <<disc, pc, loc>>, \A n \in Names : Alter(n),
           faults \in Nat, faults' \in Nat, faults <= faults'
    PROVE  Seen'
<1>1. Want' = Want /\ DOMAIN Want \subseteq Names /\ loc.missing \subseteq Names
      /\ Names' = Names
  <2>1. loc.found \subseteq Sources /\ loc.missing \subseteq Names
    BY DEF Sound, WorkerOK, Locals
  <2> QED
    BY <2>1 DEF Want, Desired, Names
<1>2. ASSUME pc' = "create" PROVE \A n \in loc'.missing : ~ Claimed(pipes'[n])
  BY <1>1, <1>2 DEF Seen, Alter
<1>3. ASSUME pc' \in {"update", "sweep", "orphan", "report"}, NEW n \in DOMAIN Want
      PROVE  /\ pipes'[n] = pipes[n] /\ Claimed(pipes'[n])
             /\ n \notin loc'.outdated => pipes'[n].hash = Want[n]
  BY <1>1, <1>3 DEF Seen, Alter
<1>4. ASSUME pc' = "update", NEW n \in loc'.outdated
      PROVE  n \in DOMAIN Want /\ pipes'[n].hash # Want[n]
  <2>1. n \in DOMAIN Want /\ pipes[n].hash # Want[n]
    BY <1>4 DEF Seen
  <2> QED
    BY <1>3, <1>4, <2>1
<1>5. ASSUME NEW n \in Names, Live(pipes'[n]), pipes'[n].labelled
      PROVE  Live(pipes[n]) /\ pipes[n].labelled
  BY <1>5 DEF Alter, Claimed, Live
<1>6. ASSUME Matches(Desired(disc.spec, disc.status.found), disc.status.updating),
             disc # None
      PROVE  Matches(Desired(disc.spec, disc.status.found), disc.status.updating)'
  <2> DEFINE want == Desired(disc.spec, disc.status.found)
  <2>1. DOMAIN want \subseteq Names
    <3>1. disc.status \in DiscStatuses
      BY <1>6, DiscFields DEF Sound, ObjectsOK, OrNone
    <3>2. disc.status.found \subseteq Sources
      BY <3>1 DEF DiscStatuses
    <3> QED
      BY <3>2 DEF Desired, Names
  <2>2. want' = want
    OBVIOUS
  <2>3. \A n \in DOMAIN want :
          Claimed(pipes'[n]) /\ (disc.status.updating = 0 => pipes'[n].hash = want[n])
    BY <1>6, <2>1 DEF Matches, Alter
  <2> HIDE DEF want
  <2>4. \A n \in Names \ DOMAIN want : Live(pipes'[n]) => ~ pipes'[n].labelled
    BY <1>5, <1>6 DEF Matches, want
  <2>5. Matches(want, disc.status.updating)'
    BY <1>1, <2>2, <2>3, <2>4 DEF Matches
  <2> QED
    BY <2>5 DEF want
<1>7. ASSUME pc' = "reportError" PROVE faults' >= 1
  <2>1. pc = "reportError"
    BY <1>7
  <2>2. faults >= 1
    BY <2>1, Zenon DEF Seen
  <2> QED
    BY <2>2
<1>8. faults' <= 1 => faults <= 1
  OBVIOUS
<1>9. ASSUME pc' = "orphan", NEW n \in Names \ DOMAIN Want, Live(pipes'[n]), pipes'[n].labelled
      PROVE  n \in DOMAIN loc'.list
  BY <1>5, <1>9 DEF Seen
<1>10. ASSUME pc' = "report", NEW n \in Names \ DOMAIN Want, Live(pipes'[n])
       PROVE  ~ pipes'[n].labelled
  BY <1>5, <1>10 DEF Seen
<1>11. ASSUME pc' = "idle", Live(disc'), disc'.spec.selects # None, faults' <= 1,
              disc'.status.phase = "Running", disc'.status.observed = disc'.generation
       PROVE  Matches(Desired(disc.spec, disc.status.found), disc.status.updating)'
  BY <1>6, <1>8, <1>11 DEF Seen, Live
<1> QED
  BY <1>1, <1>2, <1>3, <1>4, <1>7, <1>9, <1>10, <1>11 DEF Seen, Claimed, Live

\* Where Seen has little to say.
LEMMA NothingSeen ==
    ASSUME pc' \in {"finalize", "unfinalize", "cleanup", "release", "poll", "count", "reset", "list"}
    PROVE  Seen'
  BY DEF Seen

LEMMA ListSees ==
    ASSUME Sound, wakes = {}, ListChildren, pc' # "idle", \A n \in Names : Alter(n)
    PROVE  Seen'
<1>1. PICK l \in Locals :
          /\ Goto(Stage(l), l) /\ l.disc = loc.disc /\ l.found = loc.found
          /\ l.missing = DOMAIN Want \ Listed
          /\ l.outdated = {n \in DOMAIN Want \cap Listed : cpipes[n].hash # Want[n]}
          /\ l.creations = 0 => l.missing = {}
  BY ListEffect DEF Fail
<1>2. loc' = l /\ pc' = Stage(l) /\ UNCHANGED pipes /\ Want' = Want
  BY <1>1, ListEffect DEF Goto, apiVars, Want
<1>3. loc.found \subseteq Sources /\ l.creations \in Nat
  BY <1>1 DEF Sound, WorkerOK, Locals
<1>4. DOMAIN Want \subseteq Names
  BY <1>3 DEF Want, Desired, Names
<1>5. \A n \in Names : n \in Listed <=> Claimed(cpipes[n])
  BY DEF Listed, Claimed
<1>6. CASE l.creations > 0
  <2>1. \A n \in loc'.missing : ~ Claimed(pipes'[n])
    <3> SUFFICES ASSUME NEW n \in loc'.missing PROVE ~ Claimed(pipes'[n])
      OBVIOUS
    <3>1. n \in Names /\ ~ Claimed(cpipes[n]) /\ pipes'[n] = pipes[n]
      BY <1>1, <1>2, <1>4, <1>5
    <3> QED
      BY <3>1, CacheIsRight
  <2>2. pc' = "create"
    BY <1>2, <1>6 DEF Stage
  <2> QED
    BY <2>1, <2>2 DEF Seen
<1>7. CASE ~ (l.creations > 0)
  <2>0. l.creations = 0
    BY <1>3, <1>7
  <2>1. l.missing = {} /\ pc' \in {"update", "sweep"}
    <3>1. l.missing = {}
      BY <1>1, <2>0
    <3>2. Stage(l) \in {"update", "sweep"}
      BY <1>7 DEF Stage
    <3> QED
      BY <1>2, <3>1, <3>2
  <2>2. \A n \in DOMAIN Want : n \in Listed /\ Claimed(pipes[n]) /\ cpipes[n] = pipes[n]
    BY <1>1, <1>4, <1>5, <2>1, CacheIsRight
  <2>3. \A n \in DOMAIN Want :
          Claimed(pipes'[n]) /\ (n \notin loc'.outdated => pipes'[n].hash = Want[n])
    BY <1>1, <1>2, <2>2
  <2>4. \A n \in loc'.outdated : n \in DOMAIN Want /\ pipes'[n].hash # Want[n]
    BY <1>1, <1>2, <2>2
  <2> QED
    BY <1>2, <2>1, <2>3, <2>4 DEF Seen, Claimed
<1> QED
  BY <1>6, <1>7

LEMMA SweepSees ==
    ASSUME Sound, wakes = {}, Seen, ListOrphans
    PROVE  Seen'
<1>1. /\ UNCHANGED pipes /\ pc = "sweep" /\ DOMAIN loc'.list = Listed \ DOMAIN Want
      /\ pc' = IF Listed \subseteq DOMAIN Want THEN "report" ELSE "orphan"
      /\ loc' = [loc EXCEPT !.list = loc'.list]
  BY SweepEffect DEF ListOrphans, apiVars
<1>2. loc'.disc = loc.disc /\ loc'.found = loc.found /\ loc'.outdated = loc.outdated
  BY <1>1 DEF Sound, WorkerOK, Locals
<1>3. Want' = Want
  BY <1>2 DEF Want
<1>4. \A n \in DOMAIN Want :
        Claimed(pipes'[n]) /\ (n \notin loc'.outdated => pipes'[n].hash = Want[n])
  BY <1>1, <1>2 DEF Seen
<1>5. ASSUME NEW n \in Names, Live(pipes[n]), pipes[n].labelled PROVE n \in Listed
  BY <1>5, CacheIsRight DEF Listed, Claimed, Live
<1>6. \A n \in Names \ DOMAIN Want :
        Live(pipes'[n]) /\ pipes'[n].labelled => n \in DOMAIN loc'.list
  BY <1>1, <1>5
<1>7. Listed \subseteq DOMAIN Want =>
        \A n \in Names \ DOMAIN Want : Live(pipes'[n]) => ~ pipes'[n].labelled
  BY <1>1, <1>5
<1> QED
  BY <1>1, <1>3, <1>4, <1>6, <1>7 DEF Seen, Claimed, Live

\* A create or an update that wakes nobody has found the pipeline as it should
\* be, which it was not.
LEMMA ChildWakes ==
    ASSUME Sound, Sound', wakes = {}, Seen, NEW n \in Names, CreateChild(n) \/ UpdateChild(n),
           pc' # "idle", wakes' = {}
    PROVE  FALSE
<1>1. /\ n \in DOMAIN Want /\ Claimed(Provided(n)) /\ Owned(Provided(n))
      /\ Provided(n).hash = Want[n]
  BY ChildEffect, ProvidedTyped
<1>2. CASE Provided(n) = cpipes[n]
  <2>1. pipes[n] = cpipes[n] /\ Claimed(pipes[n]) /\ pipes[n].hash = Want[n]
    BY <1>1, <1>2, CacheIsRight
  <2>2. \/ pc = "create" /\ n \in loc.missing
        \/ pc = "update" /\ n \in loc.outdated
    BY ChildEffect
  <2> QED
    BY <2>1, <2>2 DEF Seen
<1>3. CASE Provided(n) # cpipes[n] /\ Provides(n)
  <2>1. Provided(n) = pipes[n]
    BY <1>1, <1>3, Unwoken DEF Provides
  <2>2. cpipes[n] # None
    BY <1>1, <1>3, <2>1 DEF Provides, Accepted, Claimed
  <2>3. cpipes[n] = pipes[n]
    BY <1>3, <2>2 DEF Provides, Accepted, Sound, ObjectsOK, Caches
  <2> QED
    BY <1>3, <2>1, <2>3
<1> QED
  BY <1>2, <1>3, ChildEffect

LEMMA LetGoSees ==
    ASSUME Sound, Seen, NEW n \in Names, LetGo(n), pc' # "idle", \A m \in Names : Alter(m)
    PROVE  Seen'
<1>1. /\ loc'.disc = loc.disc /\ loc'.found = loc.found /\ loc'.outdated = loc.outdated
      /\ DOMAIN loc'.list = DOMAIN loc.list \ {n} /\ Parts(n)
      /\ pc' = IF DOMAIN loc'.list # {} THEN pc
               ELSE IF pc = "release" THEN "unfinalize" ELSE "report"
  BY LetGoEffect
<1>2. CASE pc = "release"
  BY <1>1, <1>2, NothingSeen
<1>3. CASE pc = "orphan"
  <2>1. Want' = Want
    BY <1>1 DEF Want
  <2>2. DOMAIN Want \subseteq Names
    BY DEF Want, Desired, Names, Sound, WorkerOK, Locals
  <2>3. \A m \in DOMAIN Want :
          Claimed(pipes'[m]) /\ (m \notin loc'.outdated => pipes'[m].hash = Want[m])
    BY <1>1, <1>3, <2>2 DEF Seen, Alter
  <2>4. pipes'[n] = Parted(n) /\ (Parted(n).deleting \/ ~ Parted(n).labelled)
    BY <1>1, OnePipeline, PartedTyped DEF Parts
  <2>5. ASSUME NEW m \in Names \ DOMAIN Want, Live(pipes'[m]), pipes'[m].labelled
        PROVE  m \in DOMAIN loc'.list
    <3>1. m # n
      BY <2>4, <2>5 DEF Live
    <3>2. pipes'[m] = pipes[m]
      BY <2>5 DEF Alter, Claimed, Live
    <3> QED
      BY <1>1, <1>3, <2>5, <3>1, <3>2 DEF Seen
  <2>6. pc' = "report" => DOMAIN loc'.list = {}
    BY <1>1, <1>3
  <2>7. pc' \in {"orphan", "report"}
    BY <1>1, <1>3
  <2> QED
    BY <2>1, <2>3, <2>5, <2>6, <2>7 DEF Seen, Claimed, Live
<1> QED
  BY <1>1, <1>2, <1>3 DEF Parts

\* A failed call after another one makes two.
LEMMA SecondFault ==
    ASSUME NEW m \in Nat, NEW n, m >= 1, n <= 1
    PROVE  n # m + 1
  OBVIOUS

LEMMA ConcludedSees ==
    ASSUME Sound, Guarded, Held, Seen, Current, [Next]_vars, pc # "idle", pc' = "idle",
           ~ dirty', UNCHANGED disc, faults \in Nat, \A n \in Names : Alter(n)
    PROVE  Seen'
<1>1. loc.disc = [disc EXCEPT !.failures = loc.disc.failures] /\ cdisc = disc /\ loc \in Locals
  BY DEF Held, Current, Sound, ObjectsOK, Caches, WorkerOK
<1> SUFFICES ASSUME Live(disc'), disc'.spec.selects # None, faults' <= 1,
                    disc'.status.phase = "Running", disc'.status.observed = disc'.generation
             PROVE  Matches(Desired(disc.spec, disc.status.found), disc.status.updating)'
  BY DEF Seen, Live
<1>2. disc # None /\ SeesLatest /\ disc \in Discoveries
  BY <1>1, Latest DEF Live, SeesLatest, Current
<1>3. loc.disc.spec = disc.spec /\ loc.disc.status = disc.status
  BY <1>1, <1>2 DEF Discoveries
<1>4. ~ ReportError
  <2>1. SUFFICES ASSUME ReportError PROVE FALSE
    OBVIOUS
  <2> DEFINE st == [loc.disc.status EXCEPT !.phase = "Error", !.found = {},
                                           !.observed = loc.disc.generation]
  <2>2. disc' = [disc EXCEPT !.status = st]
    BY <1>2, <2>1 DEF ReportError, Persist
  <2>3. st.phase = "Error"
    <3>1. loc.disc.status \in DiscStatuses
      BY <1>3, <1>2, DiscFields
    <3> QED
      BY <3>1 DEF DiscStatuses
  <2> HIDE DEF st
  <2>4. disc'.status.phase = "Error"
    BY <1>2, <2>2, <2>3 DEF Discoveries
  <2> QED
    BY <2>4
<1>5. CASE pc = "reportError"
  <2>1. faults >= 1
    BY <1>5 DEF Seen
  <2>2. faults' # faults + 1
    BY <2>1, SecondFault, Zenon
  <2> QED
    BY <1>3, <1>4, <1>5, <2>2, Concludes DEF Live, Report
<1>6. CASE Report
  <2>1. pc = "report" /\ Persist(RunningStatus)
    BY <1>6 DEF Report
  <2>2. disc' = [disc EXCEPT !.status = RunningStatus] /\ UNCHANGED pipes
    BY <2>1 DEF Persist
  <2>3. disc'.status = RunningStatus /\ disc'.spec = loc.disc.spec
    BY <1>3, <1>2, <2>2 DEF Discoveries
  <2>4. disc'.status.found = loc.found /\ disc'.status.updating = Cardinality(loc.outdated)
    BY <2>1, <2>3, StatusTyped
  <2>5. Desired(disc.spec, disc.status.found)' = Want
    BY <2>3, <2>4 DEF Want, Desired, renderPipelineSpec
  <2>6. disc'.status.updating = 0 => loc.outdated = {}
    <3>1. IsFiniteSet(loc.outdated)
      BY <1>1, NamesFinite, FS_Subset DEF Locals
    <3> QED
      BY <2>4, <3>1, FS_EmptySet
  <2>7. \A n \in DOMAIN Want :
          Claimed(pipes[n]) /\ (disc'.status.updating = 0 => pipes[n].hash = Want[n])
    BY <2>1, <2>6 DEF Seen
  <2>8. \A n \in Names \ DOMAIN Want : Live(pipes[n]) => ~ pipes[n].labelled
    BY <2>1 DEF Seen
  <2> QED
    BY <2>2, <2>5, <2>7, <2>8 DEF Matches, Claimed, Live
<1> QED
  BY <1>3, <1>4, <1>5, <1>6, Concludes DEF Live

LEMMA PassStep ==
    ASSUME Sound, Sound', Guarded, Held, Pass, [Next]_vars
    PROVE  Pass'
<1> SUFFICES ASSUME Current', wakes' = {} PROVE Seen'
  BY DEF Pass
<1>1. /\ "disc" \notin stale /\ cdisc = disc /\ disc' = disc /\ ~ dirty'
      /\ Begin \/ (Current /\ ~ Restart /\ ~ DeliverDisc)
  BY StaysCurrent DEF Current
<1>2. wakes = {} /\ \A n \in Names : Alter(n)
  BY CalmBefore
<1>3. faults \in Nat /\ faults' \in Nat /\ faults <= faults'
  BY FaultsGrow
<1>4. CASE Begin
  <2>1. CASE pc' = "idle"
    BY <1>1, <1>4, <2>1, BeginEffect DEF Seen, Live
  <2>2. CASE pc' # "idle"
    BY <1>4, <2>2, BeginEffect, NothingSeen
  <2> QED
    BY <2>1, <2>2
<1>5. CASE ~ Begin
  <2>1. Current /\ Seen
    BY <1>1, <1>2, <1>5 DEF Pass
  <2>2. CASE UNCHANGED <<pc, loc>>
    BY <1>1, <1>2, <1>3, <2>1, <2>2, SeenStays
  <2>3. CASE pc' = "idle" /\ pc # "idle"
    BY <1>1, <1>2, <1>3, <2>1, <2>3, ConcludedSees
  <2>4. CASE pc' = "idle" /\ pc = "idle"
    <3>1. loc = NoLocals /\ loc' = NoLocals
      BY <2>4 DEF Sound, WorkerOK, Stages
    <3> QED
      BY <2>2, <2>4, <3>1
  <2>5. CASE AddFinalizer \/ ListOwned
    BY <2>5, NothingSeen, SweepEffect DEF AddFinalizer, Goto, ListOwned
  <2>6. CASE Poll /\ pc' # "idle"
    BY <2>6, NothingSeen, PollEffect DEF Goto, Return
  <2>7. ~ CountFailure
    <3>1. SUFFICES ASSUME CountFailure PROVE FALSE
      OBVIOUS
    <3>2. SeesLatest
      BY <1>1, <3>1 DEF CountFailure, Guarded, Working, SeesLatest
    <3>3. "disc" \in stale'
      BY <3>1, <3>2, CountTyped, RecountEffect DEF CountFailure, SeesLatest
    <3> QED
      BY <3>3 DEF Current
  <2>8. CASE ResetFailures
    BY <2>8, NothingSeen DEF ResetFailures, Recount, Goto
  <2>9. CASE ListChildren /\ pc' # "idle"
    BY <1>2, <2>9, ListSees
  <2>10. CASE ListOrphans
    BY <1>2, <2>1, <2>10, SweepSees
  <2>11. ASSUME NEW n \in Names, CreateChild(n) \/ UpdateChild(n), pc' # "idle" PROVE FALSE
    BY <1>2, <2>1, <2>11, ChildWakes
  <2>12. ASSUME NEW n \in Names, LetGo(n), pc' # "idle" PROVE Seen'
    BY <1>2, <2>1, <2>12, LetGoSees
  <2>13. CASE CallFails /\ pc = "reset" /\ pc' = "list"
    BY <2>13, NothingSeen
  <2>14. CASE CallFails /\ pc = "count" /\ pc' = "reportError"
    <3>1. faults' = faults + 1
      BY <2>14 DEF CallFails
    <3>2. faults' >= 1
      BY <1>3, <3>1
    <3> QED
      BY <2>14, <3>2 DEF Seen
  <2> QED
    BY <1>5, <2>2, <2>3, <2>4, <2>5, <2>6, <2>7, <2>8, <2>9, <2>10, <2>11, <2>12, <2>13,
       <2>14, GoesOn
<1> QED
  BY <1>4, <1>5

LEMMA PassAlways == Spec => []Pass
<1>1. Init => Pass
  BY DEF Init, Pass, Seen, Live
<1>2. Sound /\ Sound' /\ Guarded /\ Held /\ Pass /\ [Next]_vars => Pass'
  BY PassStep
<1> QED
  BY <1>1, <1>2, SoundAlways, GuardedAlways, HeldAlways, PTL DEF Spec

(***************************************************************************)
(* Between two polls the pipelines are what the last one found.  The       *)
(* argument is Pass: as long as no event of the discovery and none of a    *)
(* pipeline it owns is on its way and the name is not queued, the worker   *)
(* holds the latest discovery (Held), its caches show every pipeline with  *)
(* its label, and its own writes, each of which would be such an event,    *)
(* have not happened; so a pass that ends with the status Running has      *)
(* found everything in order.  One API call in all may have failed.        *)
(***************************************************************************)
THEOREM ProvisionedWhenQuiet == Spec => []QuietMeansProvisioned
<1>1. Sound /\ Pass => QuietMeansProvisioned
  <2> SUFFICES ASSUME Sound, Pass, Quiet, Live(disc), disc.spec.selects # None, faults <= 1,
                      disc.status.phase = "Running", disc.status.observed = disc.generation
               PROVE  Matches(Desired(disc.spec, disc.status.found), disc.status.updating)
    BY DEF QuietMeansProvisioned, Matches, Claimed
  <2>1. Current /\ wakes = {} /\ pc = "idle"
    BY DEF Quiet, Current, Sound, ObjectsOK
  <2> QED
    BY <2>1 DEF Pass, Seen
<1> QED
  BY <1>1, SoundAlways, PassAlways, PTL

(***************************************************************************)
(* The inductive invariant itself: types and caches, the object the        *)
(* finalizer keeps, the owners of the pipelines, the sources found and     *)
(* what the pass has seen, at every step of Reconcile and in every         *)
(* interleaving with users, failures and restarts.                         *)
(***************************************************************************)
THEOREM DiscoveringAlways == Spec => []Discovering
<1>1. Sound /\ Guarded /\ Owners /\ Held /\ Found /\ Pass => Discovering
  BY SoundTypes DEF Sound, ObjectsOK, WorkerOK, Discovering
<1> QED
  BY <1>1, SoundAlways, GuardedAlways, OwnersAlways, HeldAlways, FoundAlways, PassAlways, PTL
=============================================================================

----------------------------- MODULE GraphProofs -----------------------------
(***************************************************************************)
(* ValidateGraph rejects exactly the bad graphs, whatever the definitions  *)
(* are.                                                                    *)
(***************************************************************************)
EXTENDS GraphValidation, SequenceTheorems, TLAPS

Frames == [node : Defined(defs), next : Nat]

\* What the earlier checks have found when the later ones run.
Checked ==
    /\ pc = "definitions" => caller = "webhook"
    /\ pc # "done" => verdict = ""
    /\ pc \in {"references", "search"} => ~ Duplicates(defs)
    /\ pc = "search" => \A i \in DOMAIN defs : Resolves(defs[i])
    /\ pc \in {"names", "references", "search"} /\ caller = "webhook" =>
          defs # << >> /\ \A i \in DOMAIN defs : WellFormed(defs[i])

Finished == {n \in Defined(defs) : color[n] = 2}

\* Call f has found the sinks it has looked at in S.
Looked(f, S) ==
    \A p \in SinkPipelines(adj(f.node)) : p < f.next => adj(f.node)[p].to \in S

\* Every set of nodes of F has one that sends to none of the set.
AcyclicOn(F) == \A S \in (SUBSET F) \ {{}} : \E n \in S : \A m \in S : ~ Edge(n, m)

Search ==
    /\ OpenNodesAreThePath
    /\ \A i, j \in DOMAIN stack : stack[i].node = stack[j].node => i = j
    /\ stack # << >> => Looked(stack[1], Finished)
    /\ \A i \in DOMAIN stack : i > 1 => Looked(stack[i], Finished \cup {stack[i - 1].node})
    /\ AcyclicOn(Finished)
    /\ \A j \in DOMAIN defs : j < at => color[defs[j].name] # 0

\* Before the search nothing has been looked at.
Unsearched == stack = << >> /\ at = 1 /\ color = [n \in Defined(defs) |-> 0]

Inv ==
    /\ defs \in Submissions /\ stack \in Seq(Frames) /\ TypeOK
    /\ Checked
    /\ pc \in {"definitions", "names", "references"} => Unsearched
    /\ pc = "search" => Search
    /\ VerdictIsRight

-----------------------------------------------------------------------------
(***************************************************************************)
(* Lists, and what the names refer to.                                     *)
(***************************************************************************)
LEMMA Lists ==
    ASSUME NEW s, IsList(s)
    PROVE  Len(s) \in Nat /\ DOMAIN s = 1 .. Len(s) /\ (s = << >> <=> Len(s) = 0)
<1> DEFINE S == {s[i] : i \in DOMAIN s}
<1>1. s \in Seq(S)
  BY DEF IsList
<1> HIDE DEF S
<1> QED
  BY <1>1, LenProperties, EmptySeq

LEMMA Names ==
    ASSUME defs \in Submissions
    PROVE  /\ Len(defs) \in Nat /\ DOMAIN defs = 1 .. Len(defs)
           /\ \A n \in Defined(defs) :
                 /\ Len(adj(n)) \in Nat /\ DOMAIN adj(n) = 1 .. Len(adj(n))
                 /\ \E i \in DOMAIN defs : adj(n) = defs[i].sinks
<1>1. Len(defs) \in Nat /\ DOMAIN defs = 1 .. Len(defs)
  BY Lists, SubmissionsAreLists
<1>2. ASSUME NEW n \in Defined(defs)
      PROVE  \E i \in DOMAIN defs : adj(n) = defs[i].sinks
  <2>1. \E d \in {defs[i] : i \in DOMAIN defs} : d.name = n
    BY DEF Defined
  <2> QED
    BY <2>1 DEF adj
<1>3. ASSUME NEW n \in Defined(defs)
      PROVE  Len(adj(n)) \in Nat /\ DOMAIN adj(n) = 1 .. Len(adj(n))
  BY <1>2, Lists, SubmissionsAreLists
<1> QED
  BY <1>1, <1>2, <1>3

\* Where all references resolve, the sinks of a name are names.
LEMMA Targets ==
    ASSUME defs \in Submissions, \A i \in DOMAIN defs : Resolves(defs[i]),
           NEW n \in Defined(defs), NEW p \in SinkPipelines(adj(n))
    PROVE  adj(n)[p].to \in Defined(defs) /\ p \in 1 .. Len(adj(n)) /\ Edge(n, adj(n)[p].to)
  BY Names DEF Resolves, SinkPipelines, Edge

\* The definitions never change, and neither does what they mean.
LEMMA SameDefinitions ==
    ASSUME UNCHANGED defs
    PROVE  /\ Defined(defs)' = Defined(defs) /\ Frames' = Frames
           /\ \A n : adj(n)' = adj(n)
           /\ \A n, m : Edge(n, m)' <=> Edge(n, m)
           /\ Acyclic' <=> Acyclic
           /\ \A d : Resolves(d)' <=> Resolves(d)
<1>1. Defined(defs)' = Defined(defs)
  BY DEF Defined
<1>2. \A n : adj(n)' = adj(n)
  BY DEF adj
<1>3. \A n, m : Edge(n, m)' <=> Edge(n, m)
  BY <1>2 DEF Edge
<1>4. Acyclic' <=> Acyclic
  BY <1>1, <1>3 DEF Acyclic
<1>5. \A d : Resolves(d)' <=> Resolves(d)
  BY <1>1 DEF Resolves
<1> QED
  BY <1>1, <1>2, <1>3, <1>4, <1>5 DEF Frames

\* The search's stack as a list of calls.
LEMMA Pushed ==
    ASSUME NEW S, NEW x \in S, NEW s \in Seq(S)
    PROVE  LET t == << x >> \o s
           IN /\ t \in Seq(S) /\ Len(t) = Len(s) + 1 /\ DOMAIN t = 1 .. Len(t)
              /\ t[1] = x /\ \A i \in 1 .. Len(s) : t[i + 1] = s[i]
<1>1. << x >> \in Seq(S) /\ Len(<< x >>) = 1 /\ << x >>[1] = x
  OBVIOUS
<1>2. /\ << x >> \o s \in Seq(S) /\ Len(<< x >> \o s) = 1 + Len(s)
      /\ \A i \in 1 .. 1 + Len(s) :
            (<< x >> \o s)[i] = IF i <= 1 THEN << x >>[1] ELSE s[i - 1]
  BY <1>1, ConcatProperties
<1>3. Len(s) \in Nat
  OBVIOUS
<1> QED
  BY <1>1, <1>2, <1>3, LenProperties

-----------------------------------------------------------------------------
(***************************************************************************)
(* Verdicts, and the checks before the search.                             *)
(***************************************************************************)
Verdicts == {"", "accepted", "malformed", "duplicate", "unknown", "cycle"}

\* The right-hand side of VerdictIsRight.
Acceptable ==
    /\ ~ Duplicates(defs) /\ \A i \in DOMAIN defs : Resolves(defs[i])
    /\ Acyclic
    /\ caller = "webhook" => defs # << >> /\ \A i \in DOMAIN defs : WellFormed(defs[i])

LEMMA Decided ==
    ASSUME Inv, NEW v \in Verdicts, Decide(v),
           v = "accepted" <=> Acceptable, v = "cycle" => ~ Acyclic
    PROVE  Inv'
<1>1. UNCHANGED <<defs, caller, at, color, stack>> /\ verdict' = v /\ pc' = "done"
  BY DEF Decide
<1>2. /\ Defined(defs)' = Defined(defs) /\ Frames' = Frames /\ (Acyclic' <=> Acyclic)
      /\ \A n : adj(n)' = adj(n) /\ \A d : Resolves(d)' <=> Resolves(d)
  BY <1>1, SameDefinitions
<1>3. TypeOK'
  BY <1>1, <1>2 DEF Inv, TypeOK, Verdicts
<1>4. VerdictIsRight'
  BY <1>1, <1>2 DEF VerdictIsRight, Acceptable
<1>5. Checked'
  BY <1>1 DEF Checked
<1> QED
  BY <1>1, <1>2, <1>3, <1>4, <1>5 DEF Inv

LEMMA BeforeSearch ==
    ASSUME Inv, CheckDefinitions \/ CheckNames \/ CheckReferences
    PROVE  Inv'
<1>1. ASSUME NEW l \in {"names", "references", "search"}, Continue(l),
             pc \in {"definitions", "names", "references"},
             Checked', l = "search" => Search'
      PROVE  Inv'
  <2>1. UNCHANGED <<defs, caller, verdict, at, color, stack>> /\ pc' = l
    BY <1>1 DEF Continue
  <2>2. Defined(defs)' = Defined(defs) /\ Frames' = Frames /\ \A n : adj(n)' = adj(n)
    BY <2>1, SameDefinitions
  <2>3. TypeOK'
    BY <2>1, <2>2 DEF Inv, TypeOK
  <2>4. Unsearched
    BY <1>1 DEF Inv
  <2> QED
    BY <1>1, <2>1, <2>2, <2>3, <2>4 DEF Inv, VerdictIsRight, Unsearched
<1>2. CASE CheckDefinitions
  <2>1. caller = "webhook" /\ pc = "definitions"
    BY <1>2 DEF CheckDefinitions, Inv, Checked
  <2>2. CASE Continue("names")
    <3>1. Checked'
      BY <1>2, <2>1, <2>2 DEF CheckDefinitions, Continue, Decide, Inv, Checked
    <3> QED
      BY <1>1, <2>1, <2>2, <3>1
  <2>3. CASE ~ Continue("names")
    <3>1. Decide("malformed") /\ ~ Acceptable
      BY <1>2, <2>1, <2>3 DEF CheckDefinitions, Acceptable
    <3> QED
      BY <3>1, Decided DEF Verdicts
  <2> QED
    BY <2>2, <2>3
<1>3. CASE CheckNames
  <2>1. CASE Duplicates(defs)
    BY <1>3, <2>1, Decided DEF CheckNames, Acceptable, Verdicts
  <2>2. CASE ~ Duplicates(defs)
    <3>1. Continue("references") /\ pc = "names"
      BY <1>3, <2>2 DEF CheckNames
    <3>2. Checked'
      BY <2>2, <3>1 DEF Continue, Inv, Checked
    <3> QED
      BY <1>1, <3>1, <3>2
  <2> QED
    BY <2>1, <2>2
<1>4. CASE CheckReferences
  <2>1. CASE ~ \A i \in DOMAIN defs : Resolves(defs[i])
    BY <1>4, <2>1, Decided DEF CheckReferences, Acceptable, Verdicts
  <2>2. CASE \A i \in DOMAIN defs : Resolves(defs[i])
    <3>1. Continue("search") /\ pc = "references"
      BY <1>4, <2>2 DEF CheckReferences
    <3>2. UNCHANGED <<defs, caller, verdict, at, color, stack>> /\ pc' = "search"
      BY <3>1 DEF Continue
    <3>3. Checked'
      BY <2>2, <3>1, <3>2, SameDefinitions DEF Inv, Checked
    <3>4. stack' = << >> /\ at' = 1 /\ color' = [n \in Defined(defs)' |-> 0]
      BY <3>1, <3>2, SameDefinitions DEF Inv, Unsearched
    <3>5. Finished' = {} /\ DOMAIN stack' = {}
      BY <3>4 DEF Finished
    <3>6. OpenNodesAreThePath'
      BY <3>4, <3>5 DEF OpenNodesAreThePath
    <3>7. AcyclicOn({})'
      BY DEF AcyclicOn
    <3>8. DOMAIN defs' = 1 .. Len(defs')
      BY <3>2, Names DEF Inv
    <3>9. Search'
      BY <3>4, <3>5, <3>6, <3>7, <3>8 DEF Search
    <3> QED
      BY <1>1, <3>1, <3>3, <3>9
  <2> QED
    BY <2>1, <2>2
<1> QED
  BY <1>2, <1>3, <1>4

-----------------------------------------------------------------------------
(***************************************************************************)
(* The search.                                                             *)
(***************************************************************************)
LEMMA Searching ==
    ASSUME Inv, pc = "search", UNCHANGED <<defs, caller, verdict, pc>>,
           at' \in 1 .. Len(defs) + 1, color' \in [Defined(defs) -> 0 .. 2],
           stack' \in Seq(Frames), Search',
           \A i \in DOMAIN stack' : stack'[i].next \in 1 .. Len(adj(stack'[i].node)) + 1
    PROVE  Inv'
<1>1. /\ Defined(defs)' = Defined(defs) /\ Frames' = Frames /\ (Acyclic' <=> Acyclic)
      /\ \A n : adj(n)' = adj(n) /\ \A d : Resolves(d)' <=> Resolves(d)
  BY SameDefinitions
<1>2. \A i \in DOMAIN stack' : stack'[i].node \in Defined(defs)
  <2>1. \A i \in DOMAIN stack' : stack'[i] \in Frames
    BY LenProperties, ElementOfSeq
  <2> QED
    BY <2>1 DEF Frames
<1>3. TypeOK'
  BY <1>1, <1>2 DEF Inv, TypeOK
<1>4. Checked'
  BY <1>1 DEF Inv, Checked
<1> QED
  BY <1>1, <1>3, <1>4 DEF Inv, VerdictIsRight

\* A node whose sinks are finished can be finished.
LEMMA FinishedGrows ==
    ASSUME NEW F, NEW n, AcyclicOn(F),
           \A m \in F : ~ Edge(m, n), ~ Edge(n, n)
    PROVE  AcyclicOn(F \cup {n})
<1> SUFFICES ASSUME NEW S \in (SUBSET (F \cup {n})) \ {{}}
             PROVE  \E m \in S : \A x \in S : ~ Edge(m, x)
  BY DEF AcyclicOn
<1>1. CASE S = {n}
  BY <1>1
<1>2. CASE S # {n}
  <2>1. S \ {n} \in (SUBSET F) \ {{}}
    BY <1>2
  <2>2. PICK m \in S \ {n} : \A x \in S \ {n} : ~ Edge(m, x)
    BY <2>1 DEF AcyclicOn
  <2> QED
    BY <2>1, <2>2
<1> QED
  BY <1>1, <1>2

\* What the invariant says of the calls.
LEMMA Calls ==
    ASSUME Inv
    PROVE  /\ Len(stack) \in Nat /\ DOMAIN stack = 1 .. Len(stack)
           /\ stack # << >> => Len(stack) > 0 /\ Head(stack) = stack[1]
           /\ \A i \in DOMAIN stack :
                 stack[i] \in Frames /\ stack[i].node \in Defined(defs)
                 /\ stack[i].next \in Nat
<1>1. stack \in Seq(Frames)
  BY DEF Inv
<1>2. Len(stack) \in Nat /\ DOMAIN stack = 1 .. Len(stack)
  BY <1>1, LenProperties
<1>3. stack # << >> => Len(stack) > 0 /\ Head(stack) = stack[1]
  BY <1>1, EmptySeq
<1>4. \A i \in DOMAIN stack : stack[i] \in Frames
  BY <1>1, <1>2, ElementOfSeq
<1> QED
  BY <1>2, <1>3, <1>4 DEF Frames

LEMMA FinishStep ==
    ASSUME Inv, Finish
    PROVE  Inv'
<1> DEFINE h == stack[1].node
<1>1. /\ pc = "search" /\ stack # << >> /\ Ahead = {} /\ stack' = Tail(stack)
      /\ UNCHANGED <<defs, caller, verdict, pc, at>>
      /\ Head(stack) = stack[1] /\ color' = [color EXCEPT ![h] = 2]
  BY Calls DEF Finish
<1>2. /\ Len(stack) \in Nat \ {0} /\ DOMAIN stack = 1 .. Len(stack)
      /\ stack' \in Seq(Frames) /\ Len(stack') = Len(stack) - 1
      /\ DOMAIN stack' = 1 .. Len(stack) - 1
      /\ \A i \in 1 .. Len(stack) - 1 : stack'[i] = stack[i + 1]
  <2>1. stack \in Seq(Frames)
    BY DEF Inv
  <2> QED
    BY <1>1, <2>1, Calls, HeadTailProperties, LenProperties
<1>3. /\ 1 \in DOMAIN stack /\ h \in Defined(defs) /\ stack[1].next \in Nat
      /\ color \in [Defined(defs) -> 0 .. 2] /\ at \in 1 .. Len(defs) + 1
      /\ defs \in Submissions /\ \A i \in DOMAIN defs : Resolves(defs[i])
  <2>1. 1 \in DOMAIN stack
    BY <1>2
  <2>2. h \in Defined(defs) /\ stack[1].next \in Nat
    BY <2>1, Calls
  <2> QED
    BY <1>1, <2>1, <2>2 DEF Inv, TypeOK, Checked
<1>4. Search
  BY <1>1 DEF Inv
<1>5. Finished' = Finished \cup {h} /\ h \notin Finished
  <2>1. color[h] = 1
    BY <1>1, <1>3, <1>4 DEF Search, OpenNodesAreThePath
  <2> QED
    BY <1>1, <1>3, <2>1, SameDefinitions DEF Finished
<1>6. \A m : Edge(h, m) => m \in Finished
  <2> SUFFICES ASSUME NEW p \in SinkPipelines(adj(h)) PROVE adj(h)[p].to \in Finished
    BY DEF Edge
  <2>1. p \in 1 .. Len(adj(h)) /\ Len(adj(h)) \in Nat
    BY <1>3, Targets, Names
  <2>2. p < stack[1].next
    BY <1>1, <1>3, <2>1 DEF Ahead
  <2> QED
    BY <1>1, <1>4, <2>2 DEF Search, Looked
<1>7. \A n \in Finished : \A m \in Defined(defs) : Edge(n, m) => m \in Finished
  BY <1>1, <1>4 DEF Search, OpenNodesAreThePath, Finished
<1>8. \A i \in DOMAIN stack : stack[i].node \in Defined(defs)
  BY Calls
<1>9. OpenNodesAreThePath'
  <2>1. {n \in Defined(defs) : color'[n] = 1} = {stack'[i].node : i \in DOMAIN stack'}
    <3>1. \A n \in Defined(defs) : color'[n] = 1 <=> color[n] = 1 /\ n # h
      BY <1>1, <1>3
    <3>2. {n \in Defined(defs) : color[n] = 1} = {stack[i].node : i \in DOMAIN stack}
      BY <1>1, <1>4 DEF Search, OpenNodesAreThePath
    <3>3. ASSUME NEW i \in DOMAIN stack'
          PROVE  stack'[i].node \in Defined(defs) /\ color'[stack'[i].node] = 1
      <4>1. i + 1 \in DOMAIN stack /\ stack'[i] = stack[i + 1] /\ i + 1 # 1
        BY <1>2
      <4>2. stack[i + 1].node # h
        BY <1>3, <1>4, <4>1 DEF Search
      <4> QED
        BY <1>8, <3>1, <3>2, <4>1, <4>2
    <3>4. ASSUME NEW n \in Defined(defs), color'[n] = 1
          PROVE  \E i \in DOMAIN stack' : n = stack'[i].node
      <4>1. PICK j \in DOMAIN stack : n = stack[j].node
        BY <3>1, <3>2, <3>4
      <4>2. j # 1
        BY <3>1, <3>4, <4>1
      <4>3. j - 1 \in DOMAIN stack' /\ stack'[j - 1] = stack[j]
        BY <1>2, <4>1, <4>2
      <4> QED
        BY <4>1, <4>3
    <3> QED
      BY <3>3, <3>4
  <2>2. \A i \in DOMAIN stack' : i > 1 => Edge(stack'[i].node, stack'[i - 1].node)
    <3> SUFFICES ASSUME NEW i \in DOMAIN stack', i > 1
                 PROVE  Edge(stack'[i].node, stack'[i - 1].node)
      OBVIOUS
    <3>1. /\ i + 1 \in DOMAIN stack /\ stack'[i] = stack[i + 1]
          /\ stack'[i - 1] = stack[i] /\ i + 1 > 1 /\ (i + 1) - 1 = i
      BY <1>2
    <3> QED
      BY <1>1, <1>4, <3>1 DEF Search, OpenNodesAreThePath
  <2>3. \A n \in Defined(defs) : color'[n] = 2 =>
            \A m \in Defined(defs) : Edge(n, m) => color'[m] = 2
    BY <1>1, <1>3, <1>6, <1>7 DEF Finished
  <2> QED
    BY <1>1, <2>1, <2>2, <2>3, SameDefinitions DEF OpenNodesAreThePath
<1>10. AcyclicOn(Finished)'
  <2>1. AcyclicOn(Finished \cup {h})
    BY <1>3, <1>4, <1>5, <1>6, <1>7, FinishedGrows DEF Search
  <2> QED
    BY <1>1, <1>5, <2>1, SameDefinitions DEF AcyclicOn
<1>11. /\ stack' # << >> => Looked(stack[1], Finished)'
       /\ \A i \in DOMAIN stack' :
             i > 1 => Looked(stack'[i], Finished' \cup {stack'[i - 1].node})
  <2>1. ASSUME NEW i \in DOMAIN stack'
        PROVE  Looked(stack'[i], Finished \cup {stack[i].node})
    <3>1. /\ i + 1 \in DOMAIN stack /\ stack'[i] = stack[i + 1]
          /\ i + 1 > 1 /\ (i + 1) - 1 = i
      BY <1>2
    <3> QED
      BY <1>4, <3>1 DEF Search
  <2>2. ASSUME NEW i \in DOMAIN stack', i > 1
        PROVE  Looked(stack'[i], Finished' \cup {stack'[i - 1].node})
    <3>1. stack'[i - 1] = stack[i]
      BY <1>2, <2>2
    <3> QED
      BY <1>5, <2>1, <3>1 DEF Looked
  <2>3. ASSUME stack' # << >> PROVE Looked(stack'[1], Finished')
    <3>1. 1 \in DOMAIN stack'
      BY <1>2, <2>3, EmptySeq
    <3> QED
      BY <1>5, <2>1, <3>1 DEF Looked
  <2> QED
    BY <1>1, <2>2, <2>3, SameDefinitions DEF Looked
<1>12. \A i, j \in DOMAIN stack' : stack'[i].node = stack'[j].node => i = j
  <2> SUFFICES ASSUME NEW i \in DOMAIN stack', NEW j \in DOMAIN stack',
                      stack'[i].node = stack'[j].node
               PROVE  i = j
    OBVIOUS
  <2>1. /\ i + 1 \in DOMAIN stack /\ stack'[i] = stack[i + 1]
        /\ j + 1 \in DOMAIN stack /\ stack'[j] = stack[j + 1]
    BY <1>2
  <2>2. i + 1 = j + 1
    BY <1>4, <2>1 DEF Search
  <2> QED
    BY <1>2, <2>2
<1>13. \A j \in DOMAIN defs' : j < at' => color'[defs'[j].name] # 0
  BY <1>1, <1>3, <1>4 DEF Search, Defined
<1>14. Search'
  <2>1. \A i \in DOMAIN stack' : i > 1 => Looked(stack[i], Finished \cup {stack[i - 1].node})'
    BY <1>1, <1>11, SameDefinitions DEF Looked
  <2> QED
    BY <1>9, <1>10, <1>11, <1>12, <1>13, <2>1 DEF Search
<1>15. \A i \in DOMAIN stack' : stack'[i].next \in 1 .. Len(adj(stack'[i].node)) + 1
  <2>1. \A i \in DOMAIN stack : stack[i].next \in 1 .. Len(adj(stack[i].node)) + 1
    BY DEF Inv, TypeOK
  <2>2. \A i \in DOMAIN stack' : i + 1 \in DOMAIN stack /\ stack'[i] = stack[i + 1]
    BY <1>2
  <2> QED
    BY <2>1, <2>2
<1>16. color' \in [Defined(defs) -> 0 .. 2]
  BY <1>1, <1>3
<1> QED
  BY <1>1, <1>2, <1>3, <1>14, <1>15, <1>16, Searching

\* The calls below a new call for n: those of the stack, the innermost one
\* having just looked at n.
Callers(n, callers) ==
    /\ callers \in Seq(Frames) /\ Len(callers) = Len(stack)
    /\ \A i \in DOMAIN stack :
          /\ callers[i].node = stack[i].node
          /\ callers[i].next \in 1 .. Len(adj(callers[i].node)) + 1
    /\ stack # << >> => Edge(stack[1].node, n) /\ Looked(callers[1], Finished \cup {n})
    /\ \A i \in DOMAIN stack :
          i > 1 => Looked(callers[i], Finished \cup {stack[i - 1].node})

Reached(n) == \A j \in DOMAIN defs : j < at' => j < at \/ defs[j].name = n

\* A node is opened, by the outer loop or by the innermost call.
LEMMA OpenStep ==
    ASSUME Inv, pc = "search", UNCHANGED <<defs, caller, verdict, pc>>,
           at' \in 1 .. Len(defs) + 1,
           NEW n \in Defined(defs), color[n] = 0, NEW callers,
           Open(n, callers), Callers(n, callers), Reached(n)
    PROVE  Inv'
<1> DEFINE f == [node |-> n, next |-> 1]
<1>1. Len(stack) \in Nat /\ DOMAIN stack = 1 .. Len(stack) /\ (stack # << >> => Len(stack) > 0)
  BY Calls
<1>2. /\ stack' \in Seq(Frames) /\ Len(stack') = Len(stack) + 1
      /\ DOMAIN stack' = 1 .. Len(stack) + 1 /\ stack'[1] = f
      /\ \A i \in 1 .. Len(stack) : stack'[i + 1] = callers[i]
  <2>1. f \in Frames
    BY DEF Frames
  <2>2. stack' = << f >> \o callers
    BY DEF Open
  <2>3. callers \in Seq(Frames) /\ Len(callers) = Len(stack)
    BY DEF Callers
  <2>4. stack' \in Seq(Frames) /\ Len(stack') = Len(callers) + 1 /\ DOMAIN stack' = 1 .. Len(stack')
        /\ stack'[1] = f /\ \A i \in 1 .. Len(callers) : stack'[i + 1] = callers[i]
    BY <2>1, <2>2, <2>3, Pushed
  <2> QED
    BY <2>3, <2>4
<1>3. /\ color \in [Defined(defs) -> 0 .. 2] /\ color' = [color EXCEPT ![n] = 1]
      /\ defs \in Submissions
  BY DEF Open, Inv, TypeOK
<1>4. Search
  BY DEF Inv
<1>5. Finished' = Finished /\ color' \in [Defined(defs) -> 0 .. 2]
  BY <1>3, SameDefinitions DEF Finished
<1>6. \A j \in DOMAIN stack : /\ j + 1 \in DOMAIN stack' /\ stack'[j + 1] = callers[j]
                              /\ stack'[j + 1].node = stack[j].node
  BY <1>1, <1>2 DEF Callers
<1>7. \A i \in DOMAIN stack' : i = 1 \/ \E j \in DOMAIN stack : i = j + 1
  <2>1. \A l \in Nat : \A i \in 1 .. l + 1 : i # 1 => i - 1 \in 1 .. l /\ i = (i - 1) + 1
    OBVIOUS
  <2>2. \A i \in 1 .. Len(stack) + 1 : i # 1 => \E j \in 1 .. Len(stack) : i = j + 1
    BY <1>1, <2>1
  <2> QED
    BY <1>1, <1>2, <2>2
<1>8. /\ \A i \in DOMAIN stack : stack[i].node \in Defined(defs) /\ color[stack[i].node] = 1
      /\ \A m \in Defined(defs) : color[m] = 1 => \E i \in DOMAIN stack : m = stack[i].node
  <2>1. {m \in Defined(defs) : color[m] = 1} = {stack[i].node : i \in DOMAIN stack}
    BY <1>4 DEF Search, OpenNodesAreThePath
  <2> QED
    BY <2>1
<1>9. {m \in Defined(defs) : color'[m] = 1} = {stack'[i].node : i \in DOMAIN stack'}
  <2>1. \A m \in Defined(defs) : color'[m] = 1 <=> color[m] = 1 \/ m = n
    BY <1>3
  <2>2. 1 \in DOMAIN stack' /\ stack'[1].node = n
    BY <1>1, <1>2
  <2>3. \A i \in DOMAIN stack' : stack'[i].node \in Defined(defs) /\ color'[stack'[i].node] = 1
    BY <1>6, <1>7, <1>8, <2>1, <2>2
  <2>4. \A m \in Defined(defs) : color'[m] = 1 => \E i \in DOMAIN stack' : m = stack'[i].node
    BY <1>6, <1>8, <2>1, <2>2
  <2> QED
    BY <2>3, <2>4
\* The call below the one at i is the one that looked at it.
<1>10. ASSUME NEW i \in DOMAIN stack', i > 1
       PROVE  \E j \in DOMAIN stack :
                 /\ i = j + 1 /\ i - 1 = j /\ stack'[i] = callers[j]
                 /\ stack'[i].node = stack[j].node
                 /\ stack'[i - 1].node = IF j = 1 THEN n ELSE stack[j - 1].node
  <2>1. PICK j \in DOMAIN stack : i = j + 1
    BY <1>7, <1>10
  <2>2. j \in Nat /\ i - 1 = j
    BY <1>1, <2>1
  <2>3. CASE j = 1
    BY <1>2, <1>6, <2>1, <2>2, <2>3
  <2>4. CASE j # 1
    <3>1. j - 1 \in DOMAIN stack /\ (j - 1) + 1 = j
      BY <1>1, <2>4
    <3>2. stack'[j].node = stack[j - 1].node
      BY <1>6, <3>1
    <3> QED
      BY <1>6, <2>1, <2>2, <2>4, <3>2
  <2> QED
    BY <2>3, <2>4
<1>11. OpenNodesAreThePath'
  <2>1. ASSUME NEW i \in DOMAIN stack', i > 1
        PROVE  Edge(stack'[i].node, stack'[i - 1].node)
    <3>1. PICK j \in DOMAIN stack :
            /\ stack'[i].node = stack[j].node
            /\ stack'[i - 1].node = IF j = 1 THEN n ELSE stack[j - 1].node
      BY <1>10, <2>1
    <3>2. CASE j = 1
      <4>1. Edge(stack[1].node, n)
        BY <1>1, <3>2 DEF Callers
      <4> QED
        BY <3>1, <3>2, <4>1
    <3>3. CASE j # 1
      <4>1. j > 1
        BY <1>1, <3>3
      <4> QED
        BY <1>4, <3>1, <3>3, <4>1 DEF Search, OpenNodesAreThePath
    <3> QED
      BY <3>2, <3>3
  <2>2. \A m \in Defined(defs) : color'[m] = 2 =>
            \A x \in Defined(defs) : Edge(m, x) => color'[x] = 2
    BY <1>3, <1>4 DEF Search, OpenNodesAreThePath
  <2> QED
    BY <1>9, <2>1, <2>2, SameDefinitions DEF OpenNodesAreThePath
<1>12. \A i, j \in DOMAIN stack' : stack'[i].node = stack'[j].node => i = j
  <2>1. \A j \in DOMAIN stack : stack'[j + 1].node # n
    BY <1>6, <1>8
  <2>2. \A i, j \in DOMAIN stack : stack'[i + 1].node = stack'[j + 1].node => i = j
    BY <1>4, <1>6 DEF Search
  <2>3. stack'[1].node = n
    BY <1>2
  <2> QED
    BY <1>7, <2>1, <2>2, <2>3
<1>14. Looked(stack'[1], Finished)
  BY <1>2, <1>3, Names, SMTT(30) DEF Looked, SinkPipelines
<1>15. \A i \in DOMAIN stack' : i > 1 => Looked(stack'[i], Finished \cup {stack'[i - 1].node})
  <2> SUFFICES ASSUME NEW i \in DOMAIN stack', i > 1
               PROVE  Looked(stack'[i], Finished \cup {stack'[i - 1].node})
    OBVIOUS
  <2>1. PICK j \in DOMAIN stack :
          /\ stack'[i] = callers[j]
          /\ stack'[i - 1].node = IF j = 1 THEN n ELSE stack[j - 1].node
    BY <1>10
  <2>2. CASE j = 1
    <3>1. Looked(callers[1], Finished \cup {n})
      BY <1>1, <2>2 DEF Callers
    <3> QED
      BY <2>1, <2>2, <3>1
  <2>3. CASE j # 1
    <3>1. j > 1
      BY <1>1, <2>3
    <3>2. Looked(callers[j], Finished \cup {stack[j - 1].node})
      BY <3>1 DEF Callers
    <3> QED
      BY <2>1, <2>3, <3>2
  <2> QED
    BY <2>2, <2>3
<1>16. \A j \in DOMAIN defs : j < at' => color'[defs[j].name] # 0
  <2>1. \A j \in DOMAIN defs : defs[j].name \in Defined(defs)
    BY DEF Defined
  <2> QED
    BY <1>3, <1>4, <2>1 DEF Search, Reached
<1>17. Search'
  <2>1. /\ stack' # << >> => Looked(stack[1], Finished)'
        /\ \A i \in DOMAIN stack' : i > 1 => Looked(stack[i], Finished \cup {stack[i - 1].node})'
    BY <1>5, <1>14, <1>15, SameDefinitions DEF Looked
  <2>2. AcyclicOn(Finished)'
    BY <1>4, <1>5, SameDefinitions DEF Search, AcyclicOn
  <2> QED
    BY <1>11, <1>12, <1>16, <2>1, <2>2 DEF Search
<1>18. \A i \in DOMAIN stack' : stack'[i].next \in 1 .. Len(adj(stack'[i].node)) + 1
  <2> SUFFICES ASSUME NEW i \in DOMAIN stack'
               PROVE  stack'[i].next \in 1 .. Len(adj(stack'[i].node)) + 1
    OBVIOUS
  <2>1. CASE i = 1
    BY <1>2, <1>3, <2>1, Names
  <2>2. CASE i # 1
    BY <1>6, <1>7, <2>2 DEF Callers
  <2> QED
    BY <2>1, <2>2
<1> QED
  BY <1>2, <1>5, <1>17, <1>18, Searching

LEMMA NextRootStep ==
    ASSUME Inv, NextRoot
    PROVE  Inv'
<1>1. /\ pc = "search" /\ stack = << >> /\ Search /\ defs \in Submissions
      /\ color \in [Defined(defs) -> 0 .. 2] /\ at \in 1 .. Len(defs) + 1
  BY DEF NextRoot, Inv, TypeOK
<1>2. Len(defs) \in Nat /\ DOMAIN defs = 1 .. Len(defs)
  BY <1>1, Names
<1>3. DOMAIN stack = {} /\ Len(stack) = 0
  BY <1>1
<1>4. CASE at > Len(defs)
  <2>1. Decide("accepted")
    BY <1>4 DEF NextRoot
  <2>2. \A n \in Defined(defs) : color[n] = 2
    <3> SUFFICES ASSUME NEW n \in Defined(defs) PROVE color[n] = 2
      OBVIOUS
    <3>1. color[n] # 0
      <4>1. PICK i \in DOMAIN defs : n = defs[i].name
        BY DEF Defined
      <4>2. i < at
        BY <1>1, <1>2, <1>4
      <4> QED
        BY <1>1, <4>1, <4>2 DEF Search
    <3>2. color[n] # 1
      <4>1. {m \in Defined(defs) : color[m] = 1} = {stack[i].node : i \in DOMAIN stack}
        BY <1>1 DEF Search, OpenNodesAreThePath
      <4>2. {stack[i].node : i \in DOMAIN stack} = {}
        BY <1>3
      <4> QED
        BY <4>1, <4>2
    <3> QED
      BY <1>1, <3>1, <3>2
  <2>3. Finished = Defined(defs)
    BY <2>2 DEF Finished
  <2>4. Acyclic
    BY <1>1, <2>3 DEF Search, AcyclicOn, Acyclic
  <2>5. Acceptable
    BY <1>1, <2>4 DEF Acceptable, Inv, Checked
  <2> QED
    BY <2>1, <2>4, <2>5, Decided DEF Verdicts
<1>5. CASE at <= Len(defs)
  <2>1. at' = at + 1 /\ UNCHANGED <<defs, caller, verdict, pc>> /\ ~ (at > Len(defs))
    BY <1>1, <1>2, <1>5 DEF NextRoot
  <2>2. /\ at \in DOMAIN defs /\ defs[at].name \in Defined(defs)
        /\ at' \in 1 .. Len(defs) + 1
    BY <1>1, <1>2, <1>5, <2>1 DEF Defined
  <2>3. Reached(defs[at].name)
    BY <1>1, <1>2, <2>1 DEF Reached
  <2>4. CASE color[defs[at].name] = 0
    <3>1. Open(defs[at].name, << >>)
      BY <2>1, <2>4 DEF NextRoot
    <3>2. Callers(defs[at].name, << >>)
      BY <1>1, <1>3 DEF Callers
    <3> QED
      BY <1>1, <2>1, <2>2, <2>3, <2>4, <3>1, <3>2, OpenStep
  <2>5. CASE color[defs[at].name] # 0
    <3>1. UNCHANGED <<color, stack>>
      BY <2>1, <2>5 DEF NextRoot
    <3>2. OpenNodesAreThePath'
      BY <1>1, <2>1, <3>1, SameDefinitions DEF Search, OpenNodesAreThePath
    <3>3. Finished' = Finished
      BY <2>1, <3>1, SameDefinitions DEF Finished
    <3>4. AcyclicOn(Finished)'
      BY <1>1, <2>1, <3>3, SameDefinitions DEF Search, AcyclicOn
    <3>5. \A j \in DOMAIN defs : j < at' => color'[defs[j].name] # 0
      BY <1>1, <2>3, <2>5, <3>1 DEF Search, Reached
    <3>6. Search'
      BY <1>1, <1>3, <2>1, <3>1, <3>2, <3>4, <3>5 DEF Search
    <3>7. stack' \in Seq(Frames) /\ DOMAIN stack' = {}
      BY <1>1, <1>3, <3>1 DEF Inv
    <3> QED
      BY <1>1, <2>1, <2>2, <3>1, <3>6, <3>7, Searching
  <2> QED
    BY <2>4, <2>5
<1> QED
  BY <1>1, <1>2, <1>4, <1>5

\* The calls once the innermost one has looked at sink i.
LEMMA PastCalls ==
    ASSUME Inv, stack # << >>, NEW i \in Nat
    PROVE  /\ Past(i) \in Seq(Frames) /\ Len(Past(i)) = Len(stack)
           /\ DOMAIN Past(i) = DOMAIN stack
           /\ Past(i)[1].node = stack[1].node /\ Past(i)[1].next = i + 1
           /\ \A j \in DOMAIN stack : j # 1 => Past(i)[j] = stack[j]
<1> DEFINE f == [stack[1] EXCEPT !.next = i + 1]
<1>1. /\ stack \in Seq(Frames) /\ 1 \in 1 .. Len(stack) /\ DOMAIN stack = 1 .. Len(stack)
      /\ stack[1] \in Frames
  BY Calls DEF Inv
<1>2. f \in Frames /\ f.node = stack[1].node /\ f.next = i + 1
  BY <1>1 DEF Frames
<1>3. Past(i) = [stack EXCEPT ![1] = f]
  BY DEF Past
<1> HIDE DEF f
<1>4. Past(i) \in Seq(Frames) /\ Len(Past(i)) = Len(stack)
  BY <1>1, <1>2, <1>3, ExceptSeq
<1> QED
  BY <1>1, <1>2, <1>3, <1>4

LEMMA FollowStep ==
    ASSUME Inv, Follow
    PROVE  Inv'
<1> DEFINE h == stack[1].node
<1>1. /\ pc = "search" /\ stack # << >> /\ Head(stack) = stack[1] /\ Search
      /\ defs \in Submissions /\ color \in [Defined(defs) -> 0 .. 2]
      /\ \A i \in DOMAIN defs : Resolves(defs[i])
  BY Calls DEF Follow, Inv, TypeOK, Checked
<1>2. /\ Len(stack) \in Nat /\ DOMAIN stack = 1 .. Len(stack) /\ 1 \in DOMAIN stack
      /\ h \in Defined(defs) /\ stack[1].next \in Nat
  BY <1>1, Calls
<1>3. PICK i \in Ahead :
         /\ \A j \in Ahead : i <= j
         /\ IF color[adj(h)[i].to] = 1
            THEN Decide("cycle")
            ELSE /\ IF color[adj(h)[i].to] = 0
                    THEN Open(adj(h)[i].to, Past(i))
                    ELSE stack' = Past(i) /\ UNCHANGED color
                 /\ UNCHANGED <<defs, caller, verdict, pc, at>>
  BY <1>1 DEF Follow
<1> DEFINE n == adj(h)[i].to
<1>4. i \in SinkPipelines(adj(h)) /\ i >= stack[1].next
  BY <1>1 DEF Ahead
<1>5. /\ i \in 1 .. Len(adj(h)) /\ n \in Defined(defs) /\ Edge(h, n)
      /\ Len(adj(h)) \in Nat
  BY <1>1, <1>2, <1>4, Targets, Names
<1>6. {m \in Defined(defs) : color[m] = 1} = {stack[j].node : j \in DOMAIN stack}
  BY <1>1 DEF Search, OpenNodesAreThePath
<1>7. CASE color[n] = 1
  <2>1. PICK k \in DOMAIN stack : n = stack[k].node
    BY <1>5, <1>6, <1>7
  <2> DEFINE S == {stack[j].node : j \in 1 .. k}
  <2>2. S \in (SUBSET Defined(defs)) \ {{}} /\ n \in S
    <3>1. k \in 1 .. k /\ \A j \in 1 .. k : j \in DOMAIN stack
      BY <1>2
    <3> QED
      BY <2>1, <3>1, Calls
  <2>3. \A x \in S : \E y \in S : Edge(x, y)
    <3> SUFFICES ASSUME NEW j \in 1 .. k PROVE \E y \in S : Edge(stack[j].node, y)
      OBVIOUS
    <3>1. CASE j = 1
      BY <1>5, <2>2, <3>1
    <3>2. CASE j # 1
      <4>1. j - 1 \in 1 .. k /\ j \in DOMAIN stack /\ j > 1
        BY <1>2, <3>2
      <4>2. Edge(stack[j].node, stack[j - 1].node)
        BY <1>1, <4>1 DEF Search, OpenNodesAreThePath
      <4> QED
        BY <4>1, <4>2
    <3> QED
      BY <3>1, <3>2
  <2>4. ~ Acyclic
    <3> HIDE DEF S
    <3> QED
      BY <2>2, <2>3 DEF Acyclic
  <2>5. Decide("cycle")
    BY <1>3, <1>7
  <2> QED
    BY <2>4, <2>5, Decided DEF Verdicts, Acceptable
<1>8. ASSUME color[n] # 1
      PROVE  /\ Past(i) \in Seq(Frames) /\ Len(Past(i)) = Len(stack)
             /\ DOMAIN Past(i) = DOMAIN stack
             /\ \A j \in DOMAIN stack :
                   /\ Past(i)[j].node = stack[j].node
                   /\ Past(i)[j].next \in 1 .. Len(adj(Past(i)[j].node)) + 1
             /\ Looked(Past(i)[1], Finished \cup {n})
             /\ \A j \in DOMAIN stack :
                   j > 1 => Looked(Past(i)[j], Finished \cup {stack[j - 1].node})
  <2>1. /\ Past(i) \in Seq(Frames) /\ Len(Past(i)) = Len(stack)
        /\ DOMAIN Past(i) = DOMAIN stack
        /\ Past(i)[1].node = h /\ Past(i)[1].next = i + 1
        /\ \A j \in DOMAIN stack : j # 1 => Past(i)[j] = stack[j]
    BY <1>1, <1>5, PastCalls
  <2>2. \A j \in DOMAIN stack :
            /\ Past(i)[j].node = stack[j].node
            /\ Past(i)[j].next \in 1 .. Len(adj(Past(i)[j].node)) + 1
    <3>1. i + 1 \in 1 .. Len(adj(h)) + 1
      BY <1>5
    <3>2. \A j \in DOMAIN stack : stack[j].next \in 1 .. Len(adj(stack[j].node)) + 1
      BY DEF Inv, TypeOK
    <3> QED
      BY <2>1, <3>1, <3>2
  <2>3. Looked(Past(i)[1], Finished \cup {n})
    <3> SUFFICES ASSUME NEW p \in SinkPipelines(adj(h)), p < i + 1
                 PROVE  adj(h)[p].to \in Finished \cup {n}
      BY <2>1 DEF Looked
    <3>1. p \in Nat
      BY <1>1, <1>2, Targets
    <3>2. CASE p >= stack[1].next
      <4>1. p \in Ahead
        BY <1>1, <3>2 DEF Ahead
      <4> QED
        BY <1>3, <1>5, <3>1, <4>1, SMTT(30)
    <3>3. CASE p < stack[1].next
      BY <1>1, <3>3 DEF Search, Looked
    <3> QED
      BY <1>2, <3>1, <3>2, <3>3
  <2>4. \A j \in DOMAIN stack :
           j > 1 => Looked(Past(i)[j], Finished \cup {stack[j - 1].node})
    BY <1>1, <2>1 DEF Search
  <2> QED
    BY <2>1, <2>2, <2>3, <2>4
<1>9. CASE color[n] = 0
  <2>1. Open(n, Past(i)) /\ UNCHANGED <<defs, caller, verdict, pc, at>>
    BY <1>3, <1>9
  <2>2. Callers(n, Past(i))
    BY <1>5, <1>8, <1>9, SMTT(30) DEF Callers
  <2>3. Reached(n) /\ at' \in 1 .. Len(defs) + 1
    BY <2>1 DEF Reached, Inv, TypeOK
  <2> QED
    BY <1>1, <1>5, <1>9, <2>1, <2>2, <2>3, OpenStep
<1>10. CASE color[n] = 2
  <2>1. stack' = Past(i) /\ UNCHANGED <<defs, caller, verdict, pc, at, color>>
    BY <1>3, <1>10
  <2>2. /\ stack' \in Seq(Frames) /\ Len(stack') = Len(stack) /\ DOMAIN stack' = DOMAIN stack
        /\ \A j \in DOMAIN stack :
              /\ stack'[j].node = stack[j].node
              /\ stack'[j].next \in 1 .. Len(adj(stack'[j].node)) + 1
        /\ Looked(stack'[1], Finished \cup {n})
        /\ \A j \in DOMAIN stack : j > 1 => Looked(stack'[j], Finished \cup {stack[j - 1].node})
    BY <1>8, <1>10, <2>1
  <2>3. Finished' = Finished /\ Finished \cup {n} = Finished
    BY <1>5, <1>10, <2>1, SameDefinitions DEF Finished
  <2>4. \A j \in DOMAIN stack : j > 1 => j - 1 \in DOMAIN stack
    BY <1>2
  <2>5. OpenNodesAreThePath'
    <3>1. {stack'[j].node : j \in DOMAIN stack'} = {stack[j].node : j \in DOMAIN stack}
      BY <2>2
    <3>2. \A j \in DOMAIN stack' : j > 1 => Edge(stack'[j].node, stack'[j - 1].node)
      BY <1>1, <2>2, <2>4 DEF Search, OpenNodesAreThePath
    <3> QED
      BY <1>1, <2>1, <3>1, <3>2, SameDefinitions DEF Search, OpenNodesAreThePath
  <2>6. Search'
    <3>1. /\ Looked(stack[1], Finished)'
          /\ \A j \in DOMAIN stack' : j > 1 => Looked(stack[j], Finished \cup {stack[j - 1].node})'
      BY <2>1, <2>2, <2>3, <2>4, SameDefinitions, SMTT(30) DEF Looked
    <3>2. AcyclicOn(Finished)'
      BY <1>1, <2>1, <2>3, SameDefinitions DEF Search, AcyclicOn
    <3>3. \A j, k \in DOMAIN stack' : stack'[j].node = stack'[k].node => j = k
      BY <1>1, <2>2 DEF Search
    <3>4. \A j \in DOMAIN defs' : j < at' => color'[defs'[j].name] # 0
      BY <1>1, <2>1 DEF Search
    <3> QED
      BY <2>5, <3>1, <3>2, <3>3, <3>4 DEF Search
  <2>7. at' \in 1 .. Len(defs) + 1 /\ color' \in [Defined(defs) -> 0 .. 2]
    BY <1>1, <2>1 DEF Inv, TypeOK
  <2> QED
    BY <1>1, <2>1, <2>2, <2>6, <2>7, Searching
<1> QED
  BY <1>1, <1>5, <1>7, <1>9, <1>10

-----------------------------------------------------------------------------
(***************************************************************************)
(* The validation.                                                         *)
(***************************************************************************)
LEMMA Starts ==
    ASSUME Init
    PROVE  Inv
<1>1. defs \in Submissions /\ Len(defs) \in Nat
  BY Names DEF Init
<1>2. stack = << >> /\ stack \in Seq(Frames) /\ DOMAIN stack = {}
  <2>1. stack = << >>
    BY DEF Init
  <2> QED
    BY <2>1
<1>3. at \in 1 .. Len(defs) + 1 /\ color \in [Defined(defs) -> 0 .. 2]
  <2>1. at = 1 /\ color = [n \in Defined(defs) |-> 0]
    BY DEF Init
  <2> QED
    BY <1>1, <2>1
<1>4. pc \in {"definitions", "names"} /\ (pc = "definitions" <=> caller = "webhook")
  BY DEF Init
<1>5. TypeOK
  BY <1>2, <1>3, <1>4 DEF Init, TypeOK
<1>6. Checked
  BY <1>4 DEF Init, Checked
<1> QED
  BY <1>1, <1>2, <1>4, <1>5, <1>6 DEF Init, Inv, Unsearched, VerdictIsRight

LEMMA InvStep ==
    ASSUME Inv, [Next]_vars
    PROVE  Inv'
<1>1. CASE Next
  BY <1>1, BeforeSearch, NextRootStep, FollowStep, FinishStep DEF Next
<1>2. CASE UNCHANGED vars
  <2>1. UNCHANGED <<defs, caller, verdict, pc, at, color, stack>>
    BY <1>2 DEF vars
  <2>2. TypeOK' /\ Checked' /\ (Unsearched' <=> Unsearched) /\ VerdictIsRight'
    BY <2>1, SameDefinitions DEF Inv, TypeOK, Checked, Unsearched, VerdictIsRight
  <2>3. Search' <=> Search
    <3>1. Finished' = Finished
      BY <2>1, SameDefinitions DEF Finished
    <3>2. OpenNodesAreThePath' <=> OpenNodesAreThePath
      BY <2>1, SameDefinitions DEF OpenNodesAreThePath
    <3>3. AcyclicOn(Finished)' <=> AcyclicOn(Finished)
      BY <2>1, <3>1, SameDefinitions DEF AcyclicOn
    <3>4. \A i : /\ Looked(stack[i], Finished)' <=> Looked(stack[i], Finished)
                 /\ Looked(stack[i], Finished \cup {stack[i - 1].node})' <=>
                       Looked(stack[i], Finished \cup {stack[i - 1].node})
      BY <2>1, <3>1, SameDefinitions DEF Looked
    <3> QED
      BY <2>1, <3>2, <3>3, <3>4 DEF Search
  <2> QED
    BY <2>1, <2>2, <2>3, SameDefinitions DEF Inv
<1> QED
  BY <1>1, <1>2

LEMMA InvAlways == Spec => []Inv
  BY Starts, InvStep, PTL DEF Spec

(***************************************************************************)
(* The search of ValidateGraph never leaves its colours, its outer loop    *)
(* never passes the end of spec.pipelines, and no call of visit ranges     *)
(* past the sinks of its node.                                             *)
(***************************************************************************)
THEOREM GraphTypes == Spec => []TypeOK
<1>1. Inv => TypeOK
  BY DEF Inv
<1> QED
  BY <1>1, InvAlways, PTL

(***************************************************************************)
(* While ValidateGraph searches, the open nodes are the chain of calls of  *)
(* visit, each a sink of its caller, and finished nodes send to finished   *)
(* nodes only.                                                             *)
(***************************************************************************)
THEOREM SearchPath == Spec => []OpenNodesAreThePath
<1>1. Inv => OpenNodesAreThePath
  BY DEF Inv, Search, OpenNodesAreThePath
<1> QED
  BY <1>1, InvAlways, PTL

(***************************************************************************)
(* For every list of definitions: ValidateGraph accepts it exactly when    *)
(* names are unique, references resolve and the pipeline sinks have no     *)
(* cycle, and it reports a cycle only where there is one; the webhook      *)
(* accepts exactly those of them that are well formed.                     *)
(***************************************************************************)
THEOREM RightVerdict == Spec => []VerdictIsRight
<1>1. Inv => VerdictIsRight
  BY DEF Inv
<1> QED
  BY <1>1, InvAlways, PTL
=============================================================================

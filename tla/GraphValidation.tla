--------------------------- MODULE GraphValidation ---------------------------
(***************************************************************************)
(* The validation of spec.pipelines: validatePipelineDefinitions, which    *)
(* only the webhook runs, and ValidateGraph with its depth-first search,   *)
(* which both the webhook and Reconcile run.                               *)
(*                                                                         *)
(* A definition is a record                                                *)
(*   name     the pipeline's name, None when empty                         *)
(*   sources  the source types that are set                                *)
(*   from     the pipeline a pipeline source names, None when none or empty*)
(*   codecs   how many codec types an S3 source sets                       *)
(*   sinks    a sequence of sinks: the types that are set, and the name a  *)
(*            pipeline sink gives, None when none or empty                 *)
(***************************************************************************)
EXTENDS Naturals, Sequences

CONSTANTS
    None,         \* nothing there
    Submissions   \* the sequences of definitions to be validated

IsList(s) == s \in Seq({s[i] : i \in DOMAIN s})

ASSUME SubmissionsAreLists ==
    \A ds \in Submissions : IsList(ds) /\ \A i \in DOMAIN ds : IsList(ds[i].sinks)

VARIABLES
    defs,      \* the definitions
    caller,    \* "webhook" or "reconcile"
    verdict,   \* "" while undecided, then "accepted" or the kind of error
    pc,        \* the next part of the validation
    at,        \* the definition the search's outer loop is at
    color,     \* of the search: 0 unseen, 1 open, 2 finished
    stack      \* its calls, the innermost first: [node, next], next the first
               \* sink not looked at

vars == <<defs, caller, verdict, pc, at, color, stack>>

-----------------------------------------------------------------------------
Defined(ds) == {ds[i].name : i \in DOMAIN ds}

\* The positions of the sinks that name a pipeline.
SinkPipelines(sinks) == {i \in DOMAIN sinks : "pipeline" \in sinks[i].types}

Duplicates(ds) == \E i, j \in DOMAIN ds : i # j /\ ds[i].name = ds[j].name

\* The sinks of n, of which adj holds those that name a pipeline; names are
\* unique when it is used.
adj(n) == (CHOOSE d \in {defs[i] : i \in DOMAIN defs} : d.name = n).sinks

validateSourceUnion(d) == \E kind \in d.sources : d.sources = {kind}

countSinkTypes(sink) == IF sink.types = {} THEN 0
                        ELSE IF \E kind \in sink.types : sink.types = {kind} THEN 1 ELSE 2

\* One round of validatePipelineDefinitions, the names before it being unique.
WellFormed(d) ==
    /\ d.name # None
    /\ validateSourceUnion(d)
    /\ d.sinks # << >>
    /\ d.codecs <= 1
    /\ \A i \in DOMAIN d.sinks : countSinkTypes(d.sinks[i]) = 1

Init ==
    /\ defs \in Submissions
    /\ caller \in {"webhook", "reconcile"}
    /\ verdict = ""
    /\ pc = IF caller = "webhook" THEN "definitions" ELSE "names"
    /\ at = 1 /\ color = [n \in Defined(defs) |-> 0] /\ stack = << >>

Decide(v) ==
    /\ verdict' = v /\ pc' = "done"
    /\ UNCHANGED <<defs, caller, at, color, stack>>

Continue(label) ==
    /\ pc' = label
    /\ UNCHANGED <<defs, caller, verdict, at, color, stack>>

\* An empty list, a malformed definition or a second definition of a name.
CheckDefinitions ==
    /\ pc = "definitions"
    /\ IF defs # << >> /\ ~ Duplicates(defs) /\ \A i \in DOMAIN defs : WellFormed(defs[i])
       THEN Continue("names") ELSE Decide("malformed")

CheckNames ==
    /\ pc = "names"
    /\ IF Duplicates(defs) THEN Decide("duplicate") ELSE Continue("references")

Resolves(d) ==
    /\ d.from # None => d.from \in Defined(defs)
    /\ \A i \in SinkPipelines(d.sinks) : d.sinks[i].to \in Defined(defs)

CheckReferences ==
    /\ pc = "references"
    /\ IF \A i \in DOMAIN defs : Resolves(defs[i]) THEN Continue("search") ELSE Decide("unknown")

-----------------------------------------------------------------------------
(***************************************************************************)
(* The depth-first search.                                                 *)
(***************************************************************************)
Open(n, callers) ==
    /\ color' = [color EXCEPT ![n] = 1]
    /\ stack' = << [node |-> n, next |-> 1] >> \o callers

\* Mutant: the outer loop makes one round too many.
NextRootTooFar ==
    /\ pc = "search" /\ stack = << >>
    /\ IF at > Len(defs) + 1
       THEN Decide("accepted")
       ELSE /\ at' = at + 1
            /\ IF at <= Len(defs) /\ color[defs[at].name] = 0 THEN Open(defs[at].name, << >>)
                                                            ELSE UNCHANGED <<color, stack>>
            /\ UNCHANGED <<defs, caller, verdict, pc>>

\* The outer loop.
NextRoot ==
    /\ pc = "search" /\ stack = << >>
    /\ IF at > Len(defs)
       THEN Decide("accepted")
       ELSE /\ at' = at + 1
            /\ IF color[defs[at].name] = 0 THEN Open(defs[at].name, << >>)
                                           ELSE UNCHANGED <<color, stack>>
            /\ UNCHANGED <<defs, caller, verdict, pc>>

\* What is left to range over in the innermost call, and the way from it to
\* the call that has looked at sink i.
Ahead == {i \in SinkPipelines(adj(Head(stack).node)) : i >= Head(stack).next}

Past(i) == [stack EXCEPT ![1].next = i + 1]

\* Mutant: a node that was seen before closes a cycle, open or not.
FollowSeen ==
    /\ pc = "search" /\ stack # << >>
    /\ \E i \in Ahead :
          LET n == adj(Head(stack).node)[i].to
          IN /\ \A j \in Ahead : i <= j
             /\ IF color[n] # 0
                THEN Decide("cycle")
                ELSE Open(n, Past(i)) /\ UNCHANGED <<defs, caller, verdict, pc, at>>

\* Mutant: the loop does not get past a finished node.
FollowStuck ==
    /\ pc = "search" /\ stack # << >>
    /\ \E i \in Ahead :
          LET n == adj(Head(stack).node)[i].to
          IN /\ \A j \in Ahead : i <= j
             /\ IF color[n] = 1
                THEN Decide("cycle")
                ELSE /\ IF color[n] = 0 THEN Open(n, Past(i)) ELSE UNCHANGED <<color, stack>>
                     /\ UNCHANGED <<defs, caller, verdict, pc, at>>

\* Look at the next sink of the innermost open node.
Follow ==
    /\ pc = "search" /\ stack # << >>
    /\ \E i \in Ahead :
          LET n == adj(Head(stack).node)[i].to
          IN /\ \A j \in Ahead : i <= j
             /\ IF color[n] = 1
                THEN Decide("cycle")
                ELSE /\ IF color[n] = 0 THEN Open(n, Past(i))
                                        ELSE stack' = Past(i) /\ UNCHANGED color
                     /\ UNCHANGED <<defs, caller, verdict, pc, at>>

\* Mutant: a node stays open after its call returned.
FinishOpen ==
    /\ pc = "search" /\ stack # << >> /\ Ahead = {}
    /\ stack' = Tail(stack)
    /\ UNCHANGED <<defs, caller, verdict, pc, at, color>>

Finish ==
    /\ pc = "search" /\ stack # << >> /\ Ahead = {}
    /\ color' = [color EXCEPT ![Head(stack).node] = 2]
    /\ stack' = Tail(stack)
    /\ UNCHANGED <<defs, caller, verdict, pc, at>>

Next ==
    CheckDefinitions \/ CheckNames \/ CheckReferences \/ NextRoot \/ Follow \/ Finish

\* The validation is one call of a function: it goes on until it returns.
Spec == Init /\ [][Next]_vars /\ WF_vars(Next)

-----------------------------------------------------------------------------
\* The colours, the frames of the search and the verdicts of validatePipeline.
TypeOK ==
    /\ caller \in {"webhook", "reconcile"}
    /\ verdict \in {"", "accepted", "malformed", "duplicate", "unknown", "cycle"}
    /\ pc \in {"definitions", "names", "references", "search", "done"}
    /\ at \in 1 .. Len(defs) + 1
    /\ color \in [Defined(defs) -> 0 .. 2]
    /\ \A i \in DOMAIN stack :
          /\ stack[i].node \in Defined(defs)
          /\ stack[i].next \in 1 .. Len(adj(stack[i].node)) + 1

Edge(n, m) == \E i \in SinkPipelines(adj(n)) : adj(n)[i].to = m

\* Every set of pipelines has one that sends to none of the set.
Acyclic ==
    \A S \in (SUBSET Defined(defs)) \ {{}} : \E n \in S : \A m \in S : ~ Edge(n, m)

(***************************************************************************)
(* The verdict is right: ValidateGraph rejects exactly the graphs with two *)
(* definitions of a name, a reference to nothing or a cycle of pipeline    *)
(* sinks; the webhook also rejects malformed definitions and agrees with   *)
(* Reconcile on all others.                                                *)
(***************************************************************************)
VerdictIsRight ==
    pc = "done" =>
        /\ verdict = "accepted" <=>
              /\ ~ Duplicates(defs) /\ \A i \in DOMAIN defs : Resolves(defs[i])
              /\ Acyclic
              /\ caller = "webhook" =>
                    defs # << >> /\ \A i \in DOMAIN defs : WellFormed(defs[i])
        /\ verdict = "cycle" => ~ Acyclic

(***************************************************************************)
(* Why it is: the open nodes are the chain of calls, each a sink of its    *)
(* caller, so a sink that is open closes a cycle; and a finished node has  *)
(* finished sinks only, so no cycle goes through it.                       *)
(***************************************************************************)
OpenNodesAreThePath ==
    pc = "search" =>
        /\ {n \in Defined(defs) : color[n] = 1} = {stack[i].node : i \in DOMAIN stack}
        /\ \A i \in DOMAIN stack : i > 1 => Edge(stack[i].node, stack[i - 1].node)
        /\ \A n \in Defined(defs) : color[n] = 2 =>
              \A m \in Defined(defs) : Edge(n, m) => color[m] = 2

(***************************************************************************)
(* The search ends, on cyclic graphs too.                                  *)
(***************************************************************************)
ValidationEnds == <>(pc = "done")
=============================================================================

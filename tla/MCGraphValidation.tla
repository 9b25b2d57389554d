-------------------------- MODULE MCGraphValidation --------------------------
(***************************************************************************)
(* Submissions for model checking: every graph of three pipelines with up  *)
(* to two pipeline sinks each, in every order; every graph of four with up *)
(* to two; and two definitions with everything validatePipelineDefinitions *)
(* looks at. The schema of the custom resource keeps empty lists and       *)
(* repeated names from the webhook; both functions look for them all the   *)
(* same, and so do the repository's tests of them.                         *)
(***************************************************************************)
EXTENDS GraphValidation, FiniteSets, SequencesExt

PipelineSink(n) == [types |-> {"pipeline"}, to |-> n]
StdoutSink == [types |-> {"stdout"}, to |-> None]

Definition(n, from, targets) ==
    [name |-> n, sources |-> {IF from = None THEN "http" ELSE "pipeline"}, from |-> from,
     codecs |-> 0,
     sinks |-> << StdoutSink >> \o [i \in DOMAIN targets |-> PipelineSink(targets[i])]]

Pairs(S) == {<< >>} \cup {<< n >> : n \in S} \cup {<< n, m >> : n, m \in S}

OrderedPairs(S) == {SetToSeq(T) : T \in {T \in SUBSET S : Cardinality(T) <= 2}}

ThreePipelines ==
    {<< Definition("a", None, A), Definition("b", None, B), Definition("c", "a", C) >> :
        A, B, C \in Pairs({"a", "b", "c"})}

FourPipelines ==
    {<< Definition("a", None, A), Definition("b", "a", B), Definition("c", None, C),
        Definition("d", None, D) >> : A, B, C, D \in OrderedPairs({"a", "b", "c", "d"})}

\* Names that are empty, repeated or unknown, sources and sinks of no or two types.
OddDefinitions ==
    {[name |-> n, sources |-> sources, from |-> from, codecs |-> codecs, sinks |-> sinks] :
        n \in {"a", "b", None}, sources \in {{}, {"s3"}, {"s3", "http"}},
        from \in {None, "b"}, codecs \in {0, 1, 2},
        sinks \in {<< >>, << PipelineSink("a") >>, << PipelineSink("x") >>,
                   << StdoutSink, [types |-> {}, to |-> None] >>,
                   << [types |-> {"stdout", "pipeline"}, to |-> "b"] >>}}

OddPairs ==
    {<< >>} \cup {<< d, Definition("b", None, << >>) >> : d \in OddDefinitions}

AllSubmissions == ThreePipelines \cup FourPipelines \cup OddPairs
=============================================================================

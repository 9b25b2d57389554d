------------------------ MODULE MCPipelineController ------------------------
(***************************************************************************)
(* Small instances of PipelineController.                                  *)
(***************************************************************************)
EXTENDS PipelineRefinement

CONSTANTS s1, v1

Auto(lo, hi) == [mode |-> "auto", fixed |-> None, min |-> lo, max |-> hi]

\* A stateful pipeline on one HTTP source, no credentials.
Plain == [graphOK |-> TRUE, buildable |-> TRUE, body |-> 1, sources |-> {"http"},
          stateful |-> TRUE, scaling |-> None, image |-> None, config |-> None,
          brokers |-> None, monitor |-> None, kafkaRef |-> None,
          opensearch |-> FALSE, sinkRef |-> None, otherRefs |-> {}]

\* One on a Kafka source, with fewer children; with a cycle; with processors
\* that cannot be rendered.
KafkaSpec == [Plain EXCEPT !.sources = {"kafka"}]
CyclicSpec == [KafkaSpec EXCEPT !.graphOK = FALSE, !.body = 2]
UnbuildableSpec == [KafkaSpec EXCEPT !.buildable = FALSE, !.body = 3]

SecretSpec == [KafkaSpec EXCEPT !.scaling = Auto(1, 2), !.kafkaRef = s1]
HpaSpec == [Plain EXCEPT !.stateful = FALSE, !.scaling = Auto(1, 2), !.monitor = "on"]
NewBody == [Plain EXCEPT !.body = 4]

NoDefaultsSpecs == {}
OneDefaults == {[image |-> "new", config |-> "set", brokers |-> None, monitor |-> None,
                 kafkaRef |-> None, sinkRef |-> None]}

NoPodCounts == {}
OnePod == {[replicas |-> 1, ready |-> 1]}

SpecsPlain == {Plain}
SpecsEdited == {KafkaSpec, CyclicSpec}
SpecsInputs == {SecretSpec, UnbuildableSpec}
SpecsHpa == {HpaSpec}
SpecsTwoBodies == {Plain, NewBody}
=============================================================================

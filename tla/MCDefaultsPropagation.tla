------------------------ MODULE MCDefaultsPropagation ------------------------
\* Values of the constants of DefaultsPropagation for model checking.
EXTENDS DefaultsPropagation, TLC

CONSTANTS old, new    \* images, interchangeable

\* A pipeline on one HTTP source that takes its image from the Defaults, the
\* same with processors that cannot be rendered.
Plain == [graphOK |-> TRUE, buildable |-> TRUE, body |-> 1, sources |-> {"http"},
          stateful |-> FALSE, scaling |-> None, image |-> None, config |-> None,
          brokers |-> None, monitor |-> None, kafkaRef |-> None,
          opensearch |-> FALSE, sinkRef |-> None, otherRefs |-> {}]
UnbuildableSpec == [Plain EXCEPT !.buildable = FALSE, !.body = 2]

SpecsPlain == {Plain}
SpecsFaulty == {Plain, UnbuildableSpec}

DefaultsWith(image) == [image |-> image, config |-> None, brokers |-> None,
                        monitor |-> None, kafkaRef |-> None, sinkRef |-> None]
OneDefaults == {DefaultsWith(old)}
TwoDefaults == {DefaultsWith(old), DefaultsWith(new)}

Images == Permutations({old, new})
=============================================================================

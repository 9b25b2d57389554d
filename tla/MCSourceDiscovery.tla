--------------------------- MODULE MCSourceDiscovery ---------------------------
\* Values of the constants of SourceDiscovery for model checking.
EXTENDS DiscoveryInvariant

DiscSpec(selects, template, policy) ==
    [selects |-> selects, template |-> template, policy |-> policy, limit |-> 1]

TwoNames == [s \in {1, 2} |-> IF s = 1 THEN "a" ELSE "b"]

\* One pipeline a pass under the first spec, both at once under the second.
SpecsTwo == {DiscSpec({1, 2}, "t1", "Delete"),
             [DiscSpec({1, 2}, "t2", "Orphan") EXCEPT !.limit = 2]}

WorldsTwo == {{1}, {1, 2}}

\* Sources 1 and 2 share a pipeline name; all but source 1 come and go together.
SharedNames == [s \in 1 .. 3 |-> IF s = 3 THEN "b" ELSE "a"]

WorldsShared == {{1}, {1, 2, 3}}

\* Either policy, a template that cannot be rendered, and no source.
SpecsOdd == {DiscSpec(1 .. 3, "t1", "Orphan"), DiscSpec(1 .. 3, "t1", "Delete"),
             DiscSpec({1}, "broken", "Delete"), DiscSpec(None, "t1", "Delete")}
=============================================================================

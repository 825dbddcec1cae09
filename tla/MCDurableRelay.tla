--------------------------- MODULE MCDurableRelay ---------------------------
(* Two hosts, in one of three pairings of protocols.                       *)
EXTENDS DurableRelay

CONSTANTS a, b, z

Ch(c, n, p) == [actor |-> c, counter |-> n, payload |-> p]

Start(ofA, ofB, events, ownA, ownB) ==
    [mode |-> [c \in {a, b} |-> IF c = a THEN ofA ELSE ofB], log |-> events,
     own |-> [c \in {a, b} |-> IF c = a THEN ownA ELSE ownB]]

\* Events of an earlier host.
Old(n) == [i \in 1..n |-> Ch(z, i, 0)]

\* One event both hosts miss and one change each; one dot with two contents; two
\* or three events both hosts miss and one change of either.
MCScenario ==
    {Start("cursor", "vector", Old(1), {Ch(a, 1, 0)}, {Ch(b, 1, 0)}),
     Start("cursor", "vector", <<>>, {Ch(a, 1, 0)}, {Ch(a, 1, 1)}),
     Start("cursor", "vector", Old(2), {Ch(a, 1, 0)}, {}),
     Start("cursor", "vector", Old(2), {}, {Ch(b, 1, 0)}),
     Start("cursor", "merkle", Old(1), {Ch(a, 1, 0)}, {Ch(b, 1, 0)}),
     Start("cursor", "merkle", Old(2), {Ch(a, 1, 0)}, {}),
     Start("vector", "merkle", Old(3), {Ch(a, 1, 0)}, {})}
=============================================================================

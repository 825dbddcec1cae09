------------------------------ MODULE ListRGA -------------------------------
(***************************************************************************)
(* list.RGA (list/rga.go, list/sequence.go, list/wire.go), the ordered     *)
(* list under xml.Fragment as well.  Unlike the text it integrates every   *)
(* node of a delta whose ancestors are known and lets only the others      *)
(* wait.                                                                   *)
(*                                                                         *)
(* A state is [clock, nodes, pending, bytes, tombs, order, visible]: the   *)
(* integrated nodes, the waiting ones with their accounted size, and the   *)
(* sequence index as the list of its positions with their visibility.      *)
(***************************************************************************)
EXTENDS Forest

CONSTANTS Physical, MaxNodes, MaxTombs, MaxPending, MaxPendingBytes

New == [clock |-> ZeroStamp, nodes |-> {}, pending |-> {}, bytes |-> 0,
        tombs |-> {}, order |-> <<>>, visible |-> {}]

Nothing == [nodes |-> {}, tombs |-> {}]

\* visiblePositions.
Shown(s) == SelectSeq(s.order, LAMBDA id : id \in s.visible)

\* nodeBytes: a node under another one names it.
Bytes(ns) == FoldFunction(+, 0, [n \in ns |-> IF n.parent = Root THEN 1 ELSE 2])

Integrated(s, p) == p \in Ids(s.nodes) \cup {Root}

----------------------------------------------------------------------------
\* The index behind which a node enters: the last position of the preceding
\* sibling's subtree (siblings descend), or its parent.
Place(s, n) ==
    LET greater == {c \in Children(s.nodes, n.parent) : TagLess(n.id, c)}
        least == CHOOSE c \in greater : \A d \in greater : TagLeq(c, d)
        Within(i) == least \in Ids(Lineage(s.nodes, s.order[i]))
    IN  IF greater = {}
        THEN IF n.parent = Root THEN 0 ELSE SelectInSeq(s.order, LAMBDA id : id = n.parent)
        ELSE CHOOSE i \in DOMAIN s.order :
               Within(i) /\ \A j \in DOMAIN s.order : Within(j) => j <= i

\* integrateNode.
Integrate(s, n) ==
    [s EXCEPT !.nodes = @ \cup {n}, !.order = InsertAt(@, Place(s, n) + 1, n.id),
              !.visible = IF n.id \in s.tombs THEN @ ELSE @ \cup {n.id}]

\* Nodes of ns that hang on integrated ones, directly or through each other.
Resolved(s, ns) ==
    LET step(done, i) == done \cup {n \in ns : Integrated(s, n.parent) \/ n.parent \in Ids(done)}
    IN  FoldLeft(step, {}, [i \in 1..Cardinality(ns) |-> i])

\* Breadth first from the nodes whose parents are integrated, in tag order.
IntegrateAll(s, ns) ==
    LET Sorted(xs) == SetToSortSeq(xs, LAMBDA m, n : TagLess(m.id, n.id))
        step(a, i) ==
          IF a.queue = <<>> THEN a
          ELSE [s |-> Integrate(a.s, Head(a.queue)),
                queue |-> Tail(a.queue) \o Sorted({n \in ns : n.parent = Head(a.queue).id})]
        first == Sorted({n \in ns : Integrated(s, n.parent)})
    IN  FoldLeft(step, [s |-> s, queue |-> first], [i \in 1..Cardinality(ns) |-> i]).s

\* enqueuePending.
Enqueue(s, ns) == [s EXCEPT !.pending = @ \cup ns, !.bytes = @ + Bytes(ns)]

\* integrateReadyLocked.
IntegrateReady(s) ==
    LET ready == Resolved(s, s.pending) IN
    IntegrateAll([s EXCEPT !.pending = @ \ ready, !.bytes = @ - Bytes(ready)], ready)

----------------------------------------------------------------------------
\* The tests of ApplyDelta.
Conflicts(s, d) == \E m \in s.nodes \cup s.pending, n \in d.nodes : m.id = n.id /\ m # n
Subsumes(s, d) == d.nodes \subseteq s.nodes \cup s.pending /\ d.tombs \subseteq s.tombs
NewNodes(s, d) == d.nodes \ (s.nodes \cup s.pending)
Waiting(s, d) == NewNodes(s, d) \ Resolved(s, NewNodes(s, d))

Accepts(s, d) ==
    /\ ~Conflicts(s, d)
    /\ \/ Subsumes(s, d)
       \/ /\ Acyclic(NewNodes(s, d) \cup s.pending)
          /\ Cardinality(s.nodes \cup s.pending \cup d.nodes) <= MaxNodes
          /\ Cardinality(s.pending \cup Waiting(s, d)) <= MaxPending
          /\ s.bytes + Bytes(Waiting(s, d)) <= MaxPendingBytes
          /\ Cardinality(s.tombs \cup d.tombs) <= MaxTombs

TagsOf(d) == (Ids(d.nodes) \cup {n.parent : n \in d.nodes} \cup d.tombs) \ {Root}

\* The nodes enter or wait, those that waited for them follow, and the
\* deletions are applied last.
Joined(s, d) ==
    LET new == NewNodes(s, d)
        grown == Enqueue(IntegrateAll(s, Resolved(s, new)), Waiting(s, d))
    IN  [IntegrateReady(grown) EXCEPT !.tombs = @ \cup d.tombs, !.visible = @ \ d.tombs]

ApplyDelta(s, d) ==
    IF ~Accepts(s, d) \/ Subsumes(s, d) THEN {s}
    ELSE {[Joined(s, d) EXCEPT !.clock = c] : c \in WitnessFrom(s.clock, TagsOf(d), Physical)}

\* Merge sends the waiting nodes too.
StateDelta(s) == [nodes |-> s.nodes \cup s.pending, tombs |-> s.tombs]

----------------------------------------------------------------------------
\* Insert and Delete.
Inserted(shown, offset, id) ==
    [Nothing EXCEPT !.nodes =
        {[id |-> id, parent |-> IF offset = 0 THEN Root ELSE shown[offset]]}]

Deleted(shown, from, count) ==
    [Nothing EXCEPT !.tombs = {shown[i] : i \in (from + 1)..(from + count)}]

\* CompactTombstones: every requested tombstone is an integrated leaf.
Compactable(s, tags) ==
    \A t \in tags \cap s.tombs :
        t \in Ids(s.nodes) /\ Children(s.nodes \cup s.pending, t) = {}

Compacted(s, tags) ==
    [s EXCEPT !.nodes = {n \in @ : n.id \notin tags}, !.tombs = @ \ tags,
              !.order = SelectSeq(@, LAMBDA id : id \notin tags)]

\* MarshalBinaryWithLimits refuses a state with waiting nodes.
Saveable(s) == s.pending = {}

\* NewFromSnapshotWithOptions and buildSequence.
Restored(s) ==
    {IntegrateAll([New EXCEPT !.clock = c, !.tombs = s.tombs], s.nodes)
       : c \in WitnessFrom(s.clock, TagsOf(s), Physical)}

----------------------------------------------------------------------------
\* What the elements and deletions a replica heard of amount to.
Shows(s, nodes, tombs) ==
    LET up == {n \in nodes : \E m \in Lineage(nodes, n.id) : m.parent = Root}
    IN  IsWalk(nodes, Ids(up) \ tombs, Shown(s))
=============================================================================

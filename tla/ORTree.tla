------------------------------- MODULE ORTree -------------------------------
(***************************************************************************)
(* tree.ORTree (tree/ortree.go, tree/wire.go): a tree with immutable       *)
(* parents, adds and observed removes.  A removed node hides its subtree.  *)
(*                                                                         *)
(* A state is [nodes, tombs, clock, cache]; a delta is [nodes, tombs].     *)
(* The cached projection, which the code compares by version, is {} when   *)
(* the last write made it stale and {ids} when it is current.              *)
(***************************************************************************)
EXTENDS Forest

CONSTANTS Physical, MaxNodes, MaxTombs

New == [nodes |-> {}, tombs |-> {}, clock |-> ZeroStamp, cache |-> {<<>>}]

\* liveReachable.
LiveReachable(s, id) ==
    \/ id = Root
    \/ LET up == Lineage(s.nodes, id) IN
         /\ \E n \in up : n.parent = Root
         /\ Ids(up) \cap s.tombs = {}

\* Add under a parent, in one critical section with the clock.
Add(s, r, parent) ==
    {[state |-> [s EXCEPT !.nodes = @ \cup {[id |-> TagAt(c, r), parent |-> parent]},
                          !.clock = c, !.cache = {}],
      delta |-> [nodes |-> {[id |-> TagAt(c, r), parent |-> parent]}, tombs |-> {}]]
       : c \in {d \in NowFrom(s.clock, Physical) :
                  Cardinality(s.nodes) < MaxNodes /\ LiveReachable(s, parent)}}

\* Remove, the test under the read lock.
Removable(s) == Ids(s.nodes) \ s.tombs

----------------------------------------------------------------------------
\* The tests of ApplyDelta.
Conflicts(s, d) == \E m \in s.nodes, n \in d.nodes : m.id = n.id /\ m # n
Subsumes(s, d) == d.nodes \subseteq s.nodes /\ d.tombs \subseteq s.tombs
Fits(s, d) ==
    /\ Cardinality(s.nodes \cup d.nodes) <= MaxNodes
    /\ Cardinality(s.tombs \cup d.tombs) <= MaxTombs

\* rootedMonotonicDeltaAcyclic, the shortcut for a complete batch.
RootedMonotonic(ns) ==
    \A n \in ns : n.parent = Root \/ (n.parent \in Ids(ns) /\ TagLess(n.parent, n.id))

Accepts(s, d) ==
    /\ ~Conflicts(s, d)
    /\ \/ Subsumes(s, d)
       \/ Fits(s, d) /\ (RootedMonotonic(d.nodes) \/ Acyclic(s.nodes \cup d.nodes))

TagsOf(d) == (Ids(d.nodes) \cup {n.parent : n \in d.nodes} \cup d.tombs) \ {Root}

Joined(s, d) ==
    [s EXCEPT !.nodes = @ \cup d.nodes, !.tombs = @ \cup d.tombs, !.cache = {}]

\* ApplyDelta; a refused or known delta changes nothing.
ApplyDelta(s, d) ==
    IF ~Accepts(s, d) \/ Subsumes(s, d) THEN {s}
    ELSE {[Joined(s, d) EXCEPT !.clock = c] : c \in WitnessFrom(s.clock, TagsOf(d), Physical)}

\* Delta.Merge.
JoinDeltas(d, e) ==
    IF Conflicts(d, e) THEN {}
    ELSE {[nodes |-> d.nodes \cup e.nodes, tombs |-> d.tombs \cup e.tombs]}

----------------------------------------------------------------------------
\* visibleNodeIDs: a walk with a stack that does not enter removed nodes.
Walk(s) ==
    LET Open(ids) == Descending(ids \ s.tombs)
        step(a, i) ==
          IF a.stack = <<>> THEN a
          ELSE [seq |-> Append(a.seq, Head(a.stack)),
                stack |-> Open(Children(s.nodes, Head(a.stack))) \o Tail(a.stack)]
    IN  FoldLeft(step, [seq |-> <<>>, stack |-> Open(Children(s.nodes, Root))],
                 [i \in 1..Cardinality(s.nodes) |-> i]).seq

\* Nodes: the cached projection, computed when it is stale.
Read(s) == IF s.cache = {} THEN [s EXCEPT !.cache = {Walk(s)}] ELSE s
Shown(s) == CHOOSE ids \in Read(s).cache : TRUE

\* CompactTombstones: all of the requested tombstones are known leaves.
Compactable(s, tags) ==
    \A t \in tags \cap s.tombs : t \in Ids(s.nodes) /\ Children(s.nodes, t) = {}

\* CompactEligibleTombstones: children first.
Eligible(s, tags) ==
    LET candidates == tags \cap s.tombs \cap Ids(s.nodes)
        step(done, i) == done \cup {t \in candidates : Children(s.nodes, t) \subseteq done}
    IN  FoldLeft(step, {}, [i \in 1..Cardinality(candidates) |-> i])

Compacted(s, tags) ==
    [s EXCEPT !.nodes = {n \in @ : n.id \notin tags}, !.tombs = @ \ tags, !.cache = {}]

\* SnapshotCurrentState refuses a state that misses a parent.
Saveable(s) == Complete(s.nodes)

\* NewFromSnapshot.
Restored(s) ==
    {[s EXCEPT !.clock = c, !.cache = {}] : c \in WitnessFrom(s.clock, TagsOf(s), Physical)}

----------------------------------------------------------------------------
\* What the nodes and removals a replica heard of amount to: the nodes that are
\* connected to the root and have no removed ancestor, in the order of the walk.
Shows(s, nodes, tombs) ==
    LET live == {id \in Ids(nodes) :
                   LET up == Lineage(nodes, id) IN
                   (\E n \in up : n.parent = Root) /\ Ids(up) \cap tombs = {}}
    IN  IsWalk(nodes, live, Shown(s))
=============================================================================

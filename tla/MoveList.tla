------------------------------ MODULE MoveList ------------------------------
(***************************************************************************)
(* list.MoveRGA (list/move.go, list/move_wire.go): a list whose elements   *)
(* keep their identity when they are moved.  The placement of an element   *)
(* is a last-writer-wins register; the projection attaches every element   *)
(* to its anchor unless the anchor is missing or would close a cycle.      *)
(*                                                                         *)
(* A state is [nodes, tombs, moves, clock], a delta has the same parts     *)
(* without the clock; a move is [at, tag, anchor, rank].                   *)
(***************************************************************************)
EXTENDS Forest

CONSTANTS Physical, MaxNodes, MaxTombs, MaxPending

New == [nodes |-> {}, tombs |-> {}, moves |-> {}, clock |-> ZeroStamp]
Nothing == [nodes |-> {}, tombs |-> {}, moves |-> {}]

----------------------------------------------------------------------------
\* The newest record of every element in a set of move records.
Newest(ms) == {m \in ms : \A n \in ms : n.at = m.at => TagLeq(n.tag, m.tag)}

\* Where an element wants to be: its newest move, or its insertion.
Placement(s, n) ==
    LET m == {x \in s.moves : x.at = n.id /\ TagLess(n.id, x.tag)} IN
    IF m = {} THEN [id |-> n.id, anchor |-> n.parent, tag |-> n.id, rank |-> 0]
    ELSE LET x == CHOOSE x \in m : TRUE
         IN  [id |-> n.id, anchor |-> x.anchor, tag |-> x.tag, rank |-> x.rank]

\* Newer operations first, within one operation by rank; the order of placements.
\* (Two elements have no tag and rank in common, so that the last alternative, in
\* which the order of siblings differs, does not arise.)
Sooner(p, q) ==
    \/ TagLess(q.tag, p.tag)
    \/ p.tag = q.tag /\ p.rank < q.rank
    \/ p.tag = q.tag /\ p.rank = q.rank /\ TagLess(p.id, q.id)
Sorted(ps) == SortSeq(FoldSet(LAMBDA p, seq : Append(seq, p), <<>>, ps), Sooner)

\* Mutated form: only an element behind itself is taken for a cycle.
WouldCycleItself(attached, id, anchor) == id = anchor

\* moveWouldCycle: id is met on the way from the anchor up the attachments made so
\* far, also as the last one, which is not attached yet.
WouldCycle(attached, id, anchor) ==
    id \in {anchor} \cup {n.parent : n \in Lineage(attached, anchor)}

Attach(attached, ids, p) ==
    attached \cup
      {[id |-> p.id,
        parent |-> IF p.anchor \in ids /\ ~WouldCycle(attached, p.id, p.anchor)
                   THEN p.anchor ELSE Root]}

Attachments(s, placements) ==
    LET ids == Ids(s.nodes)
        upto[k \in 0..Len(placements)] ==
          IF k = 0 THEN {} ELSE Attach(upto[k - 1], ids, placements[k])
    IN  upto[Len(placements)]

\* visiblePositionsLocked: attach from the newest placement on, then walk.
Placements(s) == Sorted({Placement(s, n) : n \in s.nodes})
Shown(s) ==
    LET placements == Placements(s)
        tree == Attachments(s, placements)
        ids == [i \in DOMAIN placements |-> placements[i].id]
        Below(id) == SelectSeq(ids, LAMBDA c : [id |-> c, parent |-> id] \in tree)
        step(a) == IF a.stack = <<>> THEN a
                   ELSE [seq |-> Append(a.seq, Head(a.stack)),
                         stack |-> Below(Head(a.stack)) \o Tail(a.stack)]
        walk[k \in 0..Len(ids)] ==
          IF k = 0 THEN [seq |-> <<>>, stack |-> Below(Root)] ELSE step(walk[k - 1])
    IN  SelectSeq(walk[Len(ids)].seq, LAMBDA id : id \notin s.tombs)

\* An attachment was dropped to break a cycle.
Broken(s) ==
    LET placements == Placements(s)
        tree == Attachments(s, placements)
    IN  \E p \in ToSet(placements) :
            p.anchor \in Ids(s.nodes) /\ [id |-> p.id, parent |-> Root] \in tree

\* The projection asks for room for the nodes less the tombstones, and a
\* negative size is a panic.
ReadPanics(s) == Cardinality(s.tombs) > Cardinality(s.nodes)

----------------------------------------------------------------------------
\* Insert at an offset: the deltas' nodes chain behind the element before it.
Inserted(shown, offset, id) ==
    [Nothing EXCEPT !.nodes =
        {[id |-> id, parent |-> IF offset = 0 THEN Root ELSE shown[offset]]}]

\* Delete.
Deleted(shown, from, count) ==
    [Nothing EXCEPT !.tombs = {shown[i] : i \in (from + 1)..(from + count)}]

\* What is left when the range is taken out.
Without(shown, from, count) ==
    SubSeq(shown, 1, from) \o SubSeq(shown, from + count + 1, Len(shown))

\* Mutated form: the suffix that followed the range is left where it was.
MoveAlone(shown, from, count, to, tag) ==
    LET rest == Without(shown, from, count)
        Behind(k) == IF k = 1 THEN (IF to = 0 THEN Root ELSE rest[to])
                     ELSE shown[from + k - 1]
    IN  [Nothing EXCEPT !.moves =
           {[at |-> shown[from + k], tag |-> tag, anchor |-> Behind(k), rank |-> k - 1]
              : k \in 1..count}]

\* Move: a chain for the range at its new place, and a chain for the visible
\* suffix at the place the range leaves.
Move(shown, from, count, to, tag) ==
    LET rest == Without(shown, from, count)
        Behind(k) ==
          CASE k = 1 -> IF to = 0 THEN Root ELSE rest[to]
            [] k = count + 1 -> IF from = 0 THEN Root ELSE shown[from]
            [] OTHER -> shown[from + k - 1]
    IN  [Nothing EXCEPT !.moves =
           {[at |-> shown[from + k], tag |-> tag, anchor |-> Behind(k), rank |-> k - 1]
              : k \in 1..(Len(shown) - from)}]

----------------------------------------------------------------------------
\* ApplyDelta.
Conflicts(s, d) ==
    \/ \E m \in s.nodes, n \in d.nodes : m.id = n.id /\ m # n
    \/ \E m \in s.moves, n \in d.moves : m.at = n.at /\ m.tag = n.tag /\ m # n

Accepts(s, d) ==
    /\ ~Conflicts(s, d)
    /\ Cardinality(s.nodes \cup d.nodes) <= MaxNodes
    /\ Cardinality(s.tombs \cup d.tombs) <= MaxTombs
    /\ Cardinality({m.at : m \in s.moves \cup d.moves} \ Ids(s.nodes \cup d.nodes)) <= MaxPending

TagsOf(d) ==
    (Ids(d.nodes) \cup {n.parent : n \in d.nodes} \cup d.tombs
       \cup {m.tag : m \in d.moves} \cup {m.anchor : m \in d.moves}) \ {Root}

Joined(s, d) ==
    [s EXCEPT !.nodes = @ \cup d.nodes, !.tombs = @ \cup d.tombs,
              !.moves = Newest(@ \cup d.moves)]

ApplyDelta(s, d) ==
    IF ~Accepts(s, d) THEN {s}
    ELSE {[Joined(s, d) EXCEPT !.clock = c] : c \in WitnessFrom(s.clock, TagsOf(d), Physical)}

\* completeMoveState: a snapshot names no element it does not hold.
Saveable(s) ==
    /\ Complete(s.nodes)
    /\ \A m \in s.moves : m.at \in Ids(s.nodes) /\ m.anchor \in Ids(s.nodes) \cup {Root}

\* NewMoveRGAFromSnapshot.
Restored(s) == {[s EXCEPT !.clock = c] : c \in WitnessFrom(s.clock, TagsOf(s), Physical)}

\* What the elements, deletions and moves a replica heard of amount to: every
\* live element is shown once, and the newest move of each is kept.
Shows(s, d) ==
    /\ \A shown \in {Shown(s)} :
         IsInjective(shown) /\ ToSet(shown) = Ids(d.nodes) \ d.tombs
    /\ s.moves = {m \in d.moves : \A n \in d.moves : n.at = m.at => ~TagLess(m.tag, n.tag)}
=============================================================================

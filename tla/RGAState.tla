------------------------------ MODULE RGAState ------------------------------
(***************************************************************************)
(* The state of one text.RGA and what the critical sections of r.mu do to  *)
(* it (text/rga.go, text/sequence.go, text/snapshot_delta.go).             *)
(*                                                                         *)
(* A node [id, parent] is one character.  Integrated nodes form a tree     *)
(* under Root; r.sequence keeps its depth-first order, siblings by         *)
(* descending tag, as a list of enter and exit markers.  A node whose      *)
(* parent is missing is pending.  Characters carry no content: their       *)
(* position identifies them.  The treap over the markers is abstracted to  *)
(* the list it represents.                                                 *)
(***************************************************************************)
EXTENDS Tags, SequencesExt

CONSTANTS Physical,        \* readings of the physical clocks
          MinRun,          \* resolvedRunFastPathMinNodes
          MaxNodes, MaxTombs, MaxPending, MaxPendingBytes   \* Options

Root == [wall |-> 0, logical |-> 0, id |-> 0]

In(p) == <<p, "in">>
Out(p) == <<p, "out">>

\* NewFromClockWithOptions.
Fresh(clock) ==
    [clock |-> clock, nodes |-> {}, pending |-> {}, waiting |-> {}, bytes |-> 0,
     tombs |-> {}, order |-> <<In(Root), Out(Root)>>, visible |-> {}, children |-> {}]

Ids(ns) == {n.id : n \in ns}
LeastTag(tags) == CHOOSE t \in tags : \A u \in tags : TagLeq(t, u)
NodeBytes(n) == IF n.parent = Root THEN 1 ELSE 2
Bytes(ns) == FoldFunction(+, 0, [n \in ns |-> NodeBytes(n)])

\* A parent that new nodes can hang on.
Integrated(s, p) == p = Root \/ p \in Ids(s.nodes)
ChildrenOf(s, p) == {x[2] : x \in {y \in s.children : y[1] = p}}

----------------------------------------------------------------------------
\* The visible positions in document order, and visibleAt.
Visible(s) ==
    LET entries == SelectSeq(s.order, LAMBDA m : m[2] = "in" /\ m[1] \in s.visible)
    IN  [i \in DOMAIN entries |-> entries[i][1]]

\* The position an insertion at an offset follows.
Predecessor(s, offset) == IF offset = 0 THEN Root ELSE Visible(s)[offset]

\* anchorAtLocked: the character behind the boundary, or the end of the text.
AnchorAt(s, offset) ==
    IF offset = Len(Visible(s)) THEN [at |-> Root, side |-> "after"]
    ELSE [at |-> Visible(s)[offset + 1], side |-> "before"]

\* resolveAnchorLocked: the visible characters before the boundary; a deleted
\* character still has its place, a compacted one has not.
Gone(s, a) == a.at # Root /\ In(a.at) \notin ToSet(s.order)
Resolve(s, a) ==
    IF a.at = Root THEN IF a.side = "before" THEN 0 ELSE Len(Visible(s))
    ELSE LET at == SelectInSeq(s.order, LAMBDA m : m = In(a.at))
             upto == IF a.side = "after" THEN at ELSE at - 1
         IN  Len(SelectSeq(SubSeq(s.order, 1, upto),
                           LAMBDA m : m[2] = "in" /\ m[1] \in s.visible))

\* insertPairAfter, insertLinearPairsAfter: entries forwards, exits backwards.
SpliceAfter(order, anchor, ids) ==
    LET at == SelectInSeq(order, LAMBDA m : m = anchor)
        k == Len(ids)
        run == [i \in 1..2 * k |-> IF i <= k THEN In(ids[i]) ELSE Out(ids[2 * k + 1 - i])]
    IN  SubSeq(order, 1, at) \o run \o SubSeq(order, at + 1, Len(order))

\* Mutated form: siblings in ascending order of their tags.
AnchorAscending(s, n) ==
    LET smaller == {c \in ChildrenOf(s, n.parent) : TagLess(c, n.id)} IN
    IF smaller = {} THEN In(n.parent) ELSE Out(GreatestTag(smaller))

\* childIndex.insert: the exit of the preceding sibling (they descend), or the
\* entry of the parent.
Anchor(s, n) ==
    LET greater == {c \in ChildrenOf(s, n.parent) : TagLess(n.id, c)} IN
    IF greater = {} THEN In(n.parent) ELSE Out(LeastTag(greater))

\* integrateNode for the first node of a chain, and applyResolvedLinearRunLocked
\* for the whole chain.
IntegrateRun(s, run) ==
    LET ids == [i \in DOMAIN run |-> run[i].id] IN
    [s EXCEPT !.nodes = @ \cup ToSet(run),
              !.children = @ \cup {<<n.parent, n.id>> : n \in ToSet(run)},
              !.order = SpliceAfter(@, Anchor(s, run[1]), ids),
              !.visible = @ \cup (ToSet(ids) \ s.tombs)]

IntegrateNode(s, n) == IntegrateRun(s, <<n>>)

\* enqueuePending.
Enqueue(s, ns) ==
    [s EXCEPT !.pending = @ \cup ns,
              !.waiting = @ \cup {<<n.parent, n.id>> : n \in ns},
              !.bytes = @ + Bytes(ns)]

Dequeue(s, ns) ==
    [s EXCEPT !.pending = @ \ ns,
              !.waiting = @ \ {<<n.parent, n.id>> : n \in ns},
              !.bytes = @ - Bytes(ns)]

\* Nodes in ascending order, of their ids or of their parents first.
Sorted(ns) == SetToSortSeq(ns, LAMBDA m, n : TagLess(m.id, n.id))
ByParent(ns) ==
    SetToSortSeq(ns, LAMBDA m, n : \/ TagLess(m.parent, n.parent)
                                   \/ m.parent = n.parent /\ TagLess(m.id, n.id))

\* Breadth first over a queue, every node followed by its children among ns.
Drain(s, ns, queue) ==
    LET step(a, i) ==
          IF a.queue = <<>> THEN a
          ELSE [s |-> IntegrateNode(a.s, Head(a.queue)),
                queue |-> Tail(a.queue) \o Sorted({n \in ns : n.parent = Head(a.queue).id})]
    IN  FoldLeft(step, [s |-> s, queue |-> queue], [i \in 1..Cardinality(ns) |-> i]).s

\* integrateResolved: the nodes of a complete batch.
IntegrateResolved(s, ns) ==
    Drain(s, ns, Sorted({n \in ns : Integrated(s, n.parent)}))

\* Pending nodes that hang on an integrated node, directly or not.
Reachable(s) ==
    LET step(done, i) == done \cup {n \in s.pending : Integrated(s, n.parent)
                                                         \/ n.parent \in Ids(done)}
    IN  FoldLeft(step, {}, [i \in 1..Cardinality(s.pending) |-> i])

\* integrateReady.
IntegrateReady(s) ==
    LET ready == Reachable(s)
    IN  Drain(Dequeue(s, ready), ready, ByParent({n \in ready : Integrated(s, n.parent)}))

\* applyTombstonesLocked.
ApplyTombstones(s, tombs) ==
    [s EXCEPT !.tombs = @ \cup tombs, !.visible = @ \ tombs]

----------------------------------------------------------------------------
\* The tests of applyDeltaLocked, in its order.
Conflicts(s, d) == \E n \in d.nodes, m \in s.nodes \cup s.pending : n.id = m.id /\ n # m

Subsumes(s, d) == d.nodes \subseteq s.nodes \cup s.pending /\ d.tombs \subseteq s.tombs

\* acyclicAgainst: no set of nodes whose parents all lie in the set.
Acyclic(ns) == \A c \in (SUBSET ns) \ {{}} : \E n \in c : n.parent \notin Ids(c)

\* resolvedLinearRunLocked: a new chain of one replica on an integrated node.
LinearRun(s, d) ==
    /\ Cardinality(d.nodes) >= MinRun
    /\ Ids(d.nodes) \cap Ids(s.nodes \cup s.pending) = {}
    /\ \A m, n \in d.nodes : m.id.id = n.id.id
    /\ LET run == Sorted(d.nodes) IN
         /\ Integrated(s, run[1].parent)
         /\ \A i \in 2..Len(run) : run[i].parent = run[i - 1].id

\* planDelta: the new nodes, and those of them that cannot be integrated with
\* the integrated nodes and the delta alone.
NewNodes(s, d) == d.nodes \ (s.nodes \cup s.pending)
Unresolved(s, d) ==
    LET new == NewNodes(s, d)
        step(done, i) == done \cup {n \in new : Integrated(s, n.parent) \/ n.parent \in Ids(done)}
    IN  new \ FoldLeft(step, {}, [i \in 1..Cardinality(new) |-> i])

WithinLimits(s, d) ==
    /\ Cardinality(s.nodes \cup s.pending) + Cardinality(NewNodes(s, d)) <= MaxNodes
    /\ Cardinality(s.tombs \cup d.tombs) <= MaxTombs
    /\ LinearRun(s, d)
         \/ /\ Cardinality(s.pending) + Cardinality(Unresolved(s, d)) <= MaxPending
            /\ s.bytes + Bytes(Unresolved(s, d)) <= MaxPendingBytes

\* greatestTag: parents count as well.
TagsOf(d) == (Ids(d.nodes) \cup d.tombs \cup {n.parent : n \in d.nodes}) \ {Root}

Accepts(s, d) ==
    /\ ~Conflicts(s, d)
    /\ \/ Subsumes(s, d)
       \/ (LinearRun(s, d) \/ Acyclic(d.nodes \cup s.pending)) /\ WithinLimits(s, d)

\* Mutated form: a delta does not move the clock.
WitnessSkipped(clock, tags) == {clock}

\* The clocks after Witness of the greatest tag.
WitnessedClocks(clock, tags) == WitnessFrom(clock, tags, Physical)

\* The nodes of d enter the document or wait.
AddNodes(s, d) ==
    IF LinearRun(s, d) THEN IntegrateRun(s, Sorted(d.nodes))
    ELSE IF Unresolved(s, d) = {} THEN IntegrateResolved(s, NewNodes(s, d))
    ELSE Enqueue(s, NewNodes(s, d))

\* applyDeltaLocked: the states a delta may lead to.  A subsumed or refused one
\* changes nothing.
ApplyDelta(s, d) ==
    IF Accepts(s, d) /\ ~Subsumes(s, d)
    THEN {ApplyTombstones(IntegrateReady(AddNodes([s EXCEPT !.clock = c], d)), d.tombs) :
            c \in WitnessedClocks(s.clock, TagsOf(d))}
    ELSE {s}

----------------------------------------------------------------------------
\* removeLeaf and childIndex.remove of several tombstones.
RemoveLeaves(s, tags) ==
    [s EXCEPT !.nodes = {n \in @ : n.id \notin tags},
              !.tombs = @ \ tags,
              !.children = {x \in @ : x[2] \notin tags},
              !.order = SelectSeq(@, LAMBDA m : m[1] \notin tags)]

\* CompactTombstones: all requested tombstones are integrated leaves.
Compactable(s, tags) ==
    \A t \in tags \cap s.tombs :
        t \in Ids(s.nodes) /\ ChildrenOf(s, t) = {} /\ ~ \E x \in s.waiting : x[1] = t

\* eligibleCompactionPlanLocked: children first, skipping what has other children.
Eligible(s, tags) ==
    LET candidates == {t \in tags \cap s.tombs : t \in Ids(s.nodes)}
        step(done, i) == done \cup {t \in candidates : ChildrenOf(s, t) \subseteq done}
    IN  FoldLeft(step, {}, [i \in 1..Cardinality(candidates) |-> i])

----------------------------------------------------------------------------
\* deltaBetweenRGAStates: base must still be contained in s.
Compatible(s, base) == base.nodes \subseteq s.nodes /\ base.tombs \subseteq s.tombs

\* includeRGAAncestorChain: n and its ancestors up to the base.
WithAncestors(s, base, ns) ==
    LET step(done, i) == done \cup {m \in s.nodes \ base.nodes : \E n \in done : n.parent = m.id}
    IN  FoldLeft(step, ns, [i \in 1..Cardinality(s.nodes) |-> i])

EmptyDelta == [nodes |-> {}, tombs |-> {}]

\* Mutated form: the ancestors of a new node are taken to be known.
DeltaSinceShallow(s, base) ==
    [nodes |-> {n \in s.nodes \ base.nodes : n.id \notin base.tombs},
     tombs |-> s.tombs \ base.tombs]

DeltaSince(s, base) ==
    [nodes |-> WithAncestors(s, base, {n \in s.nodes \ base.nodes : n.id \notin base.tombs}),
     tombs |-> s.tombs \ base.tombs]

\* buildSequence: the integrated state of a complete snapshot.
BuildSequence(clock, nodes, tombs) ==
    IntegrateResolved([Fresh(clock) EXCEPT !.tombs = tombs], nodes)
=============================================================================

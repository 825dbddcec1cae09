------------------------------- MODULE Forest -------------------------------
(***************************************************************************)
(* Forests of tagged nodes, the common shape of the list with moves, the   *)
(* OR-Tree and the arrays of document trees.  A node is a record with at   *)
(* least [id, parent]; Root is the parent of the top nodes.                *)
(***************************************************************************)
EXTENDS Tags, SequencesExt

\* The zero Tag, which is not valid as an identity.
Root == [wall |-> 0, logical |-> 0, id |-> 0]

Ids(ns) == {n.id : n \in ns}
Named(ns, id) == CHOOSE n \in ns : n.id = id
Children(ns, p) == {n.id : n \in {m \in ns : m.parent = p}}

Descending(tags) == SetToSortSeq(tags, LAMBDA s, t : TagLess(t, s))

\* The nodes from id upwards, as far as they are known.
Lineage(ns, id) ==
    LET Reached(found) == {n \in ns : n.id = id \/ \E m \in found : m.parent = n.id}
        up[k \in 0..Cardinality(ns)] == IF k = 0 THEN {} ELSE Reached(up[k - 1])
    IN  up[Cardinality(ns)]

\* No set of nodes whose parents all lie in the set.
Acyclic(ns) == \A c \in (SUBSET ns) \ {{}} : \E n \in c : n.parent \notin Ids(c)

\* Every parent is there.
Complete(ns) == \A n \in ns : n.parent \in Ids(ns) \cup {Root}

----------------------------------------------------------------------------
\* The reference order of a depth-first walk that visits greater tags first:
\* an ancestor precedes its descendants; otherwise the ancestors of the two
\* nodes that are siblings decide.
Above(ns, a, b) == a # b /\ Named(ns, a) \in Lineage(ns, b)

Precedes(ns, a, b) ==
    \/ Above(ns, a, b)
    \/ \E m \in Lineage(ns, a), n \in Lineage(ns, b) :
          m.parent = n.parent /\ TagLess(n.id, m.id)

\* seq lists exactly the given ids, in the order of the walk.
IsWalk(ns, ids, seq) ==
    /\ ToSet(seq) = ids /\ Len(seq) = Cardinality(ids)
    /\ \A i, j \in DOMAIN seq : i < j => Precedes(ns, seq[i], seq[j])
=============================================================================

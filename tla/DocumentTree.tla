---------------------------- MODULE DocumentTree ----------------------------
(***************************************************************************)
(* documenttree.Document (documenttree/document.go, documenttree/          *)
(* validate.go): named roots, maps with last-writer-wins entries and       *)
(* arrays with tombstones, nested through objects whose identifier is the  *)
(* tag of the root, entry or array node that created them.                 *)
(*                                                                         *)
(* A state is a clock and sets of records, in which a delta is a state     *)
(* without the clock:                                                      *)
(*   roots    [name, id, kind]           objects  [id, kind, owner]        *)
(*   entries  [of, key, tag, val]        nodes    [of, id, parent, val]    *)
(*   tombs    <<of, id>>                                                   *)
(* An owner is [in, of, at]: the root name, the key or the position at     *)
(* which the object hangs.  The value of an entry or a node is bytes, a   *)
(* reference to the object of its own tag, "map" or "array", or None for   *)
(* a deleted entry.                                                        *)
(***************************************************************************)
EXTENDS Forest

CONSTANTS Physical, MaxNodes, MaxTombs, MaxPending, MaxPendingBytes, MaxDepth,
          MaxObjects, MaxRoots, MaxEntries          \* Options

Kinds == {"map", "array"}

Nothing == [roots |-> {}, objects |-> {}, entries |-> {}, nodes |-> {}, tombs |-> {}]
New == [roots |-> {}, objects |-> {}, entries |-> {}, nodes |-> {}, tombs |-> {},
        clock |-> ZeroStamp]

\* isObjectKindLocked.
IsKind(s, id, k) == \E o \in s.objects : o.id = id /\ o.kind = k
Object(s, id) == {o \in s.objects : o.id = id}
Known(s, id) == Object(s, id) # {}
Owned(k, in, of, at, id) == [id |-> id, kind |-> k, owner |-> [in |-> in, of |-> of, at |-> at]]

----------------------------------------------------------------------------
\* validateState, section by section.
Fits(s) ==
    /\ Cardinality(s.roots) <= MaxRoots /\ Cardinality(s.objects) <= MaxObjects
    /\ Cardinality(s.entries) <= MaxEntries
    /\ Cardinality(s.nodes) <= MaxNodes /\ Cardinality(s.tombs) <= MaxTombs

\* A tag is used in one place only, and the nodes of an array form a forest.
Claims(s) ==
    {<<x.id, "root", x.name>> : x \in s.roots}
      \cup {<<x.tag, x.of, x.key>> : x \in s.entries}
      \cup {<<x.id, x.of, x.id>> : x \in s.nodes}
OneUse(s) == \A c, d \in Claims(s) : c[1] = d[1] => c = d
ArraysAcyclic(s) == \A of \in {n.of : n \in s.nodes} : Acyclic({n \in s.nodes : n.of = of})

\* validateResolvedTypes: what refers to a known object agrees with it.
ResolvedTypes(s) ==
    /\ \A x \in s.roots : \A o \in Object(s, x.id) :
         o = Owned(x.kind, "root", Root, x.name, x.id)
    /\ \A x \in s.entries :
         /\ Known(s, x.of) => IsKind(s, x.of, "map")
         /\ x.val \in Kinds => \A o \in Object(s, x.tag) :
              o = Owned(x.val, "map", x.of, x.key, x.tag)
    /\ \A x \in s.nodes :
         /\ Known(s, x.of) => IsKind(s, x.of, "array")
         /\ x.val \in Kinds => \A o \in Object(s, x.id) :
              o = Owned(x.val, "array", x.of, x.id, x.id)

\* validateObjectGraph: the objects above an object, and their number.
Owners(s, id) ==
    Lineage({[id |-> o.id, parent |-> o.owner.of] : o \in s.objects}, id)
ObjectGraph(s) ==
    /\ \A o \in s.objects : o.owner.in # "root" /\ Known(s, o.owner.of)
         => IsKind(s, o.owner.of, o.owner.in)
    /\ Acyclic({[id |-> o.id, parent |-> o.owner.of] : o \in s.objects})
Shallow(s) == \A o \in s.objects : Cardinality(Owners(s, o.id)) - 1 <= MaxDepth

\* pendingState: the records that refer to something missing, section by section,
Pending(s) ==
    [roots |-> {x \in s.roots : ~Known(s, x.id)},
     objects |-> {o \in s.objects : o.owner.in # "root" /\ ~Known(s, o.owner.of)},
     entries |-> {x \in s.entries : ~Known(s, x.of) \/ (x.val \in Kinds /\ ~Known(s, x.tag))},
     nodes |-> {x \in s.nodes : \/ ~Known(s, x.of)
                                \/ x.val \in Kinds /\ ~Known(s, x.id)
                                \/ /\ x.parent # Root
                                   /\ \A y \in s.nodes : y.of = x.of => y.id # x.parent}]

\* their number, and their size in the tags that they name.
Count(p) == Cardinality(p.roots) + Cardinality(p.objects) + Cardinality(p.entries) + Cardinality(p.nodes)
Bytes(p) ==
    Cardinality(p.roots) + 2 * (Cardinality(p.objects) + Cardinality(p.entries) + Cardinality(p.nodes))
      + Cardinality({x \in p.entries \cup p.nodes : x.val \in Kinds})
      + Cardinality({x \in p.nodes : x.parent # Root})

Sound(s) == OneUse(s) /\ ArraysAcyclic(s) /\ ResolvedTypes(s) /\ ObjectGraph(s)
Valid(s) == /\ Fits(s) /\ Sound(s) /\ Shallow(s)
            /\ Count(Pending(s)) <= MaxPending /\ Bytes(Pending(s)) <= MaxPendingBytes

----------------------------------------------------------------------------
\* joinState.  The newest root of a name and the newest entry of a key win.
NewestRoots(xs) == {x \in xs : \A y \in xs : y.name = x.name => TagLeq(y.id, x.id)}

NewestEntries(xs) ==
    {x \in xs : \A y \in xs : y.of = x.of /\ y.key = x.key => TagLeq(y.tag, x.tag)}

Conflicts(s, d) ==
    \/ \E x \in s.roots, y \in d.roots : x.name = y.name /\ x.id = y.id /\ x # y
    \/ \E x \in s.objects, y \in d.objects : x.id = y.id /\ x # y
    \/ \E x \in s.entries, y \in d.entries :
         x.of = y.of /\ x.key = y.key /\ x.tag = y.tag /\ x # y
    \/ \E x \in s.nodes, y \in d.nodes : x.of = y.of /\ x.id = y.id /\ x # y

Joined(s, d) ==
    [s EXCEPT !.roots = NewestRoots(@ \cup d.roots), !.objects = @ \cup d.objects,
              !.entries = NewestEntries(@ \cup d.entries),
              !.nodes = @ \cup d.nodes, !.tombs = @ \cup d.tombs]

Accepts(s, d) == Valid(d) /\ ~Conflicts(s, d) /\ (Joined(s, d) = s \/ Valid(Joined(s, d)))

\* greatestStateTag.
TagsOf(d) == Ids(d.roots) \cup {x.tag : x \in d.entries} \cup Ids(d.nodes)

\* ApplyDelta, and Merge of a complete or incomplete state.
ApplyDelta(s, d) ==
    IF ~Accepts(s, d) \/ Joined(s, d) = s THEN {s}
    ELSE {[Joined(s, d) EXCEPT !.clock = c] : c \in WitnessFrom(s.clock, TagsOf(d), Physical)}

StateDelta(s) == [roots |-> s.roots, objects |-> s.objects, entries |-> s.entries,
                  nodes |-> s.nodes, tombs |-> s.tombs]

----------------------------------------------------------------------------
\* applyLocalLocked: state and candidate clock are installed together or not at
\* all.
Local(s, c, d) ==
    IF Accepts(s, d) THEN {[state |-> [Joined(s, d) EXCEPT !.clock = c], delta |-> d]} ELSE {}

\* createRoot; an existing root of the kind is returned without a delta.
CreateRoot(s, r, name, k) ==
    UNION {LET id == TagAt(c, r) IN
           Local(s, c, [Nothing EXCEPT !.roots = {[name |-> name, id |-> id, kind |-> k]},
                                       !.objects = {Owned(k, "root", Root, name, id)}])
             : c \in {x \in NowFrom(s.clock, Physical) :
                        \A y \in s.roots : y.name = name => y.kind = k /\ ~Known(s, y.id)}}

\* childDepthLocked against MaxDepth.
DepthLeft(s, of) ==
    LET up == Owners(s, of)
        rooted == \E n \in up : n.parent = Root
    IN  (IF rooted THEN Cardinality(up) ELSE Cardinality(up) + 1) <= MaxDepth

\* setMapValue, deleteMapValue, createMapChild.
SetEntry(s, r, of, key, val) ==
    UNION {LET tag == TagAt(c, r) IN
           Local(s, c, [Nothing EXCEPT
              !.entries = {[of |-> of, key |-> key, tag |-> tag, val |-> val]},
              !.objects = IF val \in Kinds THEN {Owned(val, "map", of, key, tag)} ELSE {}])
             : c \in {x \in NowFrom(s.clock, Physical) :
                        IsKind(s, of, "map") /\ (val \in Kinds => DepthLeft(s, of))}}

\* visibleArrayNodesLocked: depth first, later siblings first; a deleted node is
\* left out and its children are visited.
Shown(s, of) ==
    LET ns == {n \in s.nodes : n.of = of}
        step(a, i) ==
          IF a.stack = <<>> THEN a
          ELSE [seq |-> Append(a.seq, Head(a.stack)),
                stack |-> Descending(Children(ns, Head(a.stack))) \o Tail(a.stack)]
        walk == FoldLeft(step, [seq |-> <<>>, stack |-> Descending(Children(ns, Root))],
                         [i \in 1..Cardinality(ns) |-> i])
    IN  SelectSeq(walk.seq, LAMBDA id : <<of, id>> \notin s.tombs)

\* insertArrayValue, insertArrayChild.
InsertNode(s, r, of, index, val) ==
    UNION {LET id == TagAt(c, r)
               parent == IF index = 0 THEN Root ELSE Shown(s, of)[index]
           IN  Local(s, c, [Nothing EXCEPT
                 !.nodes = {[of |-> of, id |-> id, parent |-> parent, val |-> val]},
                 !.objects = IF val \in Kinds THEN {Owned(val, "array", of, id, id)} ELSE {}])
             : c \in {x \in NowFrom(s.clock, Physical) :
                        /\ IsKind(s, of, "array") /\ index \in 0..Len(Shown(s, of))
                        /\ val \in Kinds => DepthLeft(s, of)}}

\* Array.Delete keeps the clock.
DeleteNode(s, of, index) ==
    IF ~IsKind(s, of, "array") \/ index \notin DOMAIN Shown(s, of) THEN {}
    ELSE Local(s, s.clock, [Nothing EXCEPT !.tombs = {<<of, Shown(s, of)[index]>>}])

----------------------------------------------------------------------------
\* marshalState of a complete state only.
Saveable(s) == Count(Pending(s)) = 0

\* UnmarshalBinaryWithLimits, and NewFromSnapshotWithOptions, which witnesses the
\* greatest tag of the frontier once more.
Installed(s) == {[s EXCEPT !.clock = c] : c \in WitnessFrom(s.clock, TagsOf(s), Physical)}
Restored(s) == UNION {Installed(t) : t \in Installed(s)}

\* What the records a replica heard of amount to: the newest root of each name,
\* the newest entry of each key, and the nodes of each array in the order of
\* the walk less the deleted ones.
Shows(s, d) ==
    /\ s.roots = {x \in d.roots : \A y \in d.roots : y.name = x.name => ~TagLess(x.id, y.id)}
    /\ s.entries = {x \in d.entries : \A y \in d.entries :
                      y.of = x.of /\ y.key = x.key => ~TagLess(x.tag, y.tag)}
    /\ s.objects = d.objects
    /\ \A of \in {n.of : n \in d.nodes} :
         LET ns == {n \in d.nodes : n.of = of}
             up == {n \in ns : \E m \in Lineage(ns, n.id) : m.parent = Root}
         IN  IsWalk(ns, {id \in Ids(up) : <<of, id>> \notin d.tombs}, Shown(s, of))
=============================================================================

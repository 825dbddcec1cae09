-------------------------------- MODULE ORSet -------------------------------
(***************************************************************************)
(* set.ORSet and set.GSet (set/orset.go, set/gset.go): the states of an    *)
(* add-wins observed-remove set and of a grow-only set, and what their     *)
(* critical sections do to them.                                           *)
(*                                                                         *)
(* A live add of an OR-Set is a pair <<element, tag>>.  A delta has adds   *)
(* and tombstones, as a complete state has; a G-Set and its deltas are     *)
(* sets of elements.                                                       *)
(***************************************************************************)
EXTENDS Tags

CONSTANT Physical  \* readings of the physical clocks

\* NewORSet.
New == [elements |-> {}, tombs |-> {}, clock |-> ZeroStamp]

TagsOf(adds) == {x[2] : x \in adds}
StateTags(d) == d.tombs \cup TagsOf(d.adds)
Whole(s) == [adds |-> s.elements, tombs |-> s.tombs]

\* Add under s.mu, with a tag taken before; a removed tag is refused.
Add(s, e, tag) ==
    IF tag \in s.tombs THEN [state |-> s, bodies |-> {}]
    ELSE [state |-> [s EXCEPT !.elements = @ \cup {<<e, tag>>}],
          bodies |-> {[adds |-> {<<e, tag>>}, tombs |-> {}]}]

\* Remove: exactly the observed tags become tombstones; without any, nothing
\* changes.
Remove(s, e) ==
    LET observed == {x \in s.elements : x[1] = e} IN
    IF observed = {} THEN {}
    ELSE {[state |-> [s EXCEPT !.elements = @ \ observed, !.tombs = @ \cup TagsOf(observed)],
           bodies |-> {[adds |-> {}, tombs |-> TagsOf(observed)]}]}

\* subsumesState.
Subsumes(s, d) ==
    /\ d.tombs \subseteq s.tombs
    /\ \A x \in d.adds : x[2] \in s.tombs \/ x \in s.elements

\* greatestStateTag and Witness.
WitnessClocks(s, d) == WitnessFrom(s.clock, StateTags(d), Physical)

\* Mutated form: live adds that the new tombstones cover stay live.
JoinKeepsCovered(d, e) ==
    [adds |-> d.adds \cup {x \in e.adds : x[2] \notin d.tombs \cup e.tombs},
     tombs |-> d.tombs \cup e.tombs]

\* joinState.
Join(d, e) ==
    LET tombs == d.tombs \cup e.tombs IN
    [adds |-> {x \in d.adds \cup e.adds : x[2] \notin tombs}, tombs |-> tombs]

Joined(s, d) ==
    LET j == Join(Whole(s), d) IN [s EXCEPT !.elements = j.adds, !.tombs = j.tombs]

\* Merge, in one section: known already, or witnessed and joined.
Merge(s, d) ==
    IF Subsumes(s, d) THEN {s}
    ELSE {[Joined(s, d) EXCEPT !.clock = c] : c \in WitnessClocks(s, d)}

\* UnmarshalBinary accepts only a state with one element per tag and no live
\* tombstone.
Canonical(s) ==
    /\ \A x, y \in s.elements : x[2] = y[2] => x = y
    /\ TagsOf(s.elements) \cap s.tombs = {}

\* Mutated form: the clock starts again from zero.
RestoredFresh(s) == {[s EXCEPT !.clock = ZeroStamp]}

\* NewORSetFromSnapshot: UnmarshalBinary witnesses the greatest tag of the
\* state, and then that of the frontier derived from it is witnessed again.
Restored(s) ==
    LET after(c) == WitnessFrom(c, StateTags(Whole(s)), Physical) IN
    IF Canonical(s)
    THEN {[s EXCEPT !.clock = c] : c \in UNION {after(d) : d \in after(s.clock)}}
    ELSE {}

\* CompactTombstones, and the tombstones that Compact removes for a frontier
\* that names the one tag f.
CompactTombstones(s, tags) == [s EXCEPT !.tombs = @ \ tags]

BelowFrontier(s, f) == {t \in s.tombs : t.id = f.id /\ TagLeq(t, f)}

\* GSet.Add, subsumes and join.
GAdd(s, e) == s \cup {e}
GSubsumes(s, d) == d \subseteq s
GJoin(s, d) == s \cup d

\* The set a replica shows is what its updates leave: every add it heard of,
\* except those whose own tag it heard removed.
Shows(s, updates) ==
    s.elements = {<<u.what[2], u.id>> : u \in {v \in updates :
                     v.what[1] = "add" /\ ~ \E w \in updates : w.id = v.id /\ w.what[1] = "remove"}}
=============================================================================

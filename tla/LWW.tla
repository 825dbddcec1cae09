--------------------------------- MODULE LWW --------------------------------
(***************************************************************************)
(* The last-write-wins types: lww.Map and lww.Set (lww/), the attachment   *)
(* register built on a map (attachment/register.go) and register.LWW       *)
(* (register/register.go).                                                 *)
(*                                                                         *)
(* A map holds at most one entry [key, tag, val] per key, with Deleted as  *)
(* the value of a delete marker, and an index of its tags.  A set is a map *)
(* whose only value is Present.  The options of a replica are a record     *)
(* [entries, values]: how many entries it retains, and which values are    *)
(* within its size limits.  A delta is a set of entries.                   *)
(***************************************************************************)
EXTENDS Tags

CONSTANTS Physical, Deleted

\* NewMap, NewSet.
New == [entries |-> {}, tags |-> {}, clock |-> ZeroStamp]

Of(es, k) == {e \in es : e.key = k}
KeysOf(es) == {e.key : e \in es}
EntryTags(es) == {e.tag : e \in es}

\* mapTagIndex.
IndexOf(es) == {<<e.tag, e.key>> : e \in es}

\* Entries of es that an entry of d overwrites, and entries of d that win.
Overwritten(es, d) == {e \in es : \E f \in Of(d, e.key) : TagLess(e.tag, f.tag)}
Winning(es, d) == {f \in d : \A e \in Of(es, f.key) : TagLess(e.tag, f.tag)}

\* The join of two partial states.
JoinEntries(es, d) == (es \ Overwritten(es, d)) \cup Winning(es, d)

Reindex(s, d) ==
    (s.tags \ IndexOf(Overwritten(s.entries, d))) \cup IndexOf(Winning(s.entries, d))

Joined(s, d) == [s EXCEPT !.entries = JoinEntries(@, d), !.tags = Reindex(s, d)]

\* validateMapWrite, validateMapEntriesWithOptions.
Admitted(d, options) == \A e \in d : e.val \in options.values \cup {Deleted}

\* The limit on retained entries, delete markers included.
Fits(s, d, options) == Cardinality(KeysOf(s.entries) \cup KeysOf(d)) <= options.entries

\* A tag of d already names another key, or other content of the same key.
Conflicts(s, d) ==
    \/ \E e \in d, x \in s.tags : x[1] = e.tag /\ x[2] # e.key
    \/ \E e \in d, f \in s.entries : e.key = f.key /\ e.tag = f.tag /\ e # f

\* writeDelta of a value, or of a delete marker, by replica r.
Write(s, r, k, v, options) ==
    LET entry(c) == [key |-> k, tag |-> TagAt(c, r), val |-> v] IN
    IF ~Admitted({[val |-> v]}, options) \/ ~Fits(s, {[key |-> k]}, options) THEN {}
    ELSE {IF \E x \in s.tags : x[1] = entry(c).tag /\ x[2] # k
          THEN [state |-> [s EXCEPT !.clock = c], bodies |-> {}]
          ELSE [state |-> [Joined(s, {entry(c)}) EXCEPT !.clock = c],
                bodies |-> {{entry(c)}}] : c \in NowFrom(s.clock, Physical)}

\* mapEntriesSubsumed.
Subsumes(s, d) == \A e \in d : \E f \in Of(s.entries, e.key) : TagLeq(e.tag, f.tag)

\* applyOwnedMapEntries: d is refused as a whole, known already, or joined.
Apply(s, d, options) ==
    IF ~Admitted(d, options) \/ Conflicts(s, d) THEN {}
    ELSE IF Subsumes(s, d) THEN {s}
    ELSE IF ~Fits(s, d, options) THEN {}
    ELSE {[Joined(s, d) EXCEPT !.clock = c]
            : c \in WitnessFrom(s.clock, EntryTags(d), Physical)}

\* MapDelta.Merge: refused when one tag names two contents of a key, or two
\* keys of the result.
MergeDelta(d, e) ==
    LET merged == JoinEntries(d, e) IN
    IF \/ \E f \in d, g \in e : f.key = g.key /\ f.tag = g.tag /\ f # g
       \/ \E f, g \in merged : f.tag = g.tag /\ f.key # g.key
    THEN {} ELSE {merged}

\* Mutated form: the clock starts again from zero.
RestoredFresh(s, options) ==
    {[s EXCEPT !.tags = IndexOf(s.entries), !.clock = ZeroStamp]}

\* NewMapFromSnapshot: UnmarshalBinary rebuilds the index and witnesses the
\* greatest tag of the state, and then that of the frontier derived from it is
\* witnessed again.
Restored(s, options) ==
    LET after(c) == WitnessFrom(c, EntryTags(s.entries), Physical) IN
    IF Admitted(s.entries, options) /\ Cardinality(s.entries) <= options.entries
    THEN {[s EXCEPT !.tags = IndexOf(s.entries), !.clock = c]
            : c \in UNION {after(d) : d \in after(s.clock)}}
    ELSE {}

\* CompactTombstones: one live entry among the requested ones refuses them all.
CompactTombstones(s, tags) ==
    LET requested == {e \in s.entries : e.tag \in tags} IN
    IF \E e \in requested : e.val # Deleted THEN s
    ELSE [s EXCEPT !.entries = @ \ requested, !.tags = @ \ IndexOf(requested)]

----------------------------------------------------------------------------
\* attachment.Register.wouldExceed and Delta.validate, tested before the map
\* is asked.
WouldExceed(s, d, options) ==
    Cardinality(KeysOf(d) \ KeysOf(s.entries)) > options.entries - Cardinality(s.entries)

AttachmentValid(d, options) ==
    Admitted(d, options) /\ Cardinality(KeysOf(d)) <= options.entries

\* attachment.Register.ApplyDelta.
AttachmentApply(s, d, options) ==
    IF ~AttachmentValid(d, options) \/ WouldExceed(s, d, options) THEN {}
    ELSE Apply(s, d, options)

\* attachment.Register.Merge: the incoming state is first loaded into a map
\* of its own, which starts from the register's clock.
AttachmentMerge(s, d, options) ==
    IF \/ ~AttachmentValid(d, options) \/ WouldExceed(s, d, options)
       \/ WitnessFrom(s.clock, EntryTags(d), Physical) = {}
    THEN {} ELSE Apply(s, d, options)

----------------------------------------------------------------------------
\* register.LWW: entry is empty or holds one [tag, val].
NewRegister == [entry |-> {}, clock |-> ZeroStamp]

\* The newer of the register's entry and another, as Set and Merge keep it.
Newer(entry, e) == IF \A f \in entry : TagLess(f.tag, e.tag) THEN {e} ELSE entry

\* Set under r.mu, with a tag taken before.
RegisterSet(s, e) == [s EXCEPT !.entry = Newer(@, e)]

\* Merge of another register's entry.
RegisterMerge(s, other) ==
    IF other = {} THEN {s}
    ELSE IF \E f \in s.entry, e \in other : f.tag = e.tag /\ f # e THEN {}
    ELSE {[entry |-> UNION {Newer(s.entry, e) : e \in other}, clock |-> c]
            : c \in WitnessFrom(s.clock, {e.tag : e \in other}, Physical)}

\* NewLWWFromClock: only the clock survives.
RegisterRestored(s) == {[entry |-> {}, clock |-> s.clock]}

----------------------------------------------------------------------------
\* Every key shows the write with the greatest tag among the given ones, or
\* nothing when that write is a delete marker that was compacted.
Shows(s, updates) ==
    \A k \in KeysOf(s.entries) \cup {u.what.key : u \in updates} :
        LET known == {u.what : u \in {v \in updates : v.what.key = k}}
            newest == CHOOSE e \in known : \A f \in known : TagLeq(f.tag, e.tag)
        IN  /\ known # {}
            /\ \/ Of(s.entries, k) = {newest}
               \/ newest.val = Deleted /\ Of(s.entries, k) = {}

RegisterShows(s, updates) ==
    s.entry = {e \in {u.what : u \in updates} :
                 \A f \in {u.what : u \in updates} : TagLeq(f.tag, e.tag)}
=============================================================================

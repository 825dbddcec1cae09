----------------------------- MODULE Structures -----------------------------
(***************************************************************************)
(* Replicas of one structured type of list/, xml/, tree/, documenttree/,   *)
(* richtext/ or of a text with an undo manager, over a network that loses, *)
(* repeats, delays and reorders deltas, with crashes, restores, exchanges  *)
(* of complete states and compaction.  The type is chosen in Init; its     *)
(* critical sections are those of ListRGA, MoveList, ORTree, DocumentTree, *)
(* RichText and Undo.                                                      *)
(*                                                                         *)
(* A local edit of a list, ORTree.Remove and the calls of the undo manager *)
(* read the positions under the lock, take their tags without it and apply *)
(* their delta under the lock again: three kinds of steps, between which   *)
(* other deltas arrive.  Every other edit is one critical section.         *)
(***************************************************************************)
EXTENDS Tags, SequencesExt

CONSTANTS Replica, Kind,
          Physical, MinRun, MaxNodes, MaxTombs, MaxPending, MaxPendingBytes,
          MaxMarks, MaxDepth, MaxObjects, MaxRoots, MaxEntries, MaxRunes,
          MaxEdits,      \* bound on the edits of a behaviour
          MaxUndoEdits,  \* the same where an edit may be an undo
          MaxEvents,     \* bound on restarts, exchanges of states and repeated deliveries
          SeededOnce,    \* the types whose replicas start with one element,
          SeededThrice   \* and with three

VARIABLES kind,      \* the data type of this behaviour
          state,     \* per replica
          call,      \* per replica, the edit in progress, at most one
          unsent,    \* deltas returned to the host and not sent yet
          saved,     \* the snapshot last saved by the host
          net,       \* deltas that left their process
          seen,      \* history: the records that the replica has heard of
          edits,     \* number of edits so far
          events     \* number of restarts, exchanges and repeated deliveries

vars == <<kind, state, call, unsent, saved, net, seen, edits, events>>

L == INSTANCE ListRGA
V == INSTANCE MoveList
O == INSTANCE ORTree
D == INSTANCE DocumentTree
R == INSTANCE RichText
U == INSTANCE Undo
T == INSTANCE RGAState

Seeds == CASE kind \in SeededThrice -> 3 [] kind \in SeededOnce -> 1 [] OTHER -> 0
EditBound == IF kind = "undo" THEN MaxUndoEdits ELSE MaxEdits

Textual == {"richtext", "undo"}
Root == T!Root
Bold == "bold"

\* Deltas, and records heard of, join by the union of their parts.
Both(d, e) == [f \in DOMAIN d |-> d[f] \cup e[f]]

ApplyDelta(s, d) ==
    CASE kind = "list" -> L!ApplyDelta(s, d)
      [] kind = "movelist" -> V!ApplyDelta(s, d)
      [] kind = "tree" -> O!ApplyDelta(s, d)
      [] kind = "document" -> D!ApplyDelta(s, d)
      [] kind = "richtext" -> R!ApplyDelta(s, d)
      [] kind = "undo" -> {U!Changed(s, t) : t \in T!ApplyDelta(s.text, d)}

Accepts(s, d) ==
    CASE kind = "list" -> L!Accepts(s, d)
      [] kind = "movelist" -> V!Accepts(s, d)
      [] kind = "tree" -> O!Accepts(s, d)
      [] kind = "document" -> D!Accepts(s, d)
      [] kind = "richtext" -> R!Accepts(s, d)
      [] kind = "undo" -> T!Accepts(s.text, d)

\* The state that Merge joins.
StateDelta(s) ==
    CASE kind = "list" -> L!StateDelta(s)
      [] kind = "movelist" -> [nodes |-> s.nodes, tombs |-> s.tombs, moves |-> s.moves]
      [] kind = "tree" -> [nodes |-> s.nodes, tombs |-> s.tombs]
      [] kind = "document" -> D!StateDelta(s)
      [] kind = "richtext" -> R!StateDelta(s)
      [] kind = "undo" -> [nodes |-> s.text.nodes \cup s.text.pending, tombs |-> s.text.tombs]

ClockOf(s) == IF kind \in Textual THEN s.text.clock ELSE s.clock
WithClock(s, c) == IF kind \in Textual THEN [s EXCEPT !.text.clock = c] ELSE [s EXCEPT !.clock = c]

----------------------------------------------------------------------------
\* A chain of n elements of replica 1, which everyone has.
SeedNodes(n) ==
    LET Id(i) == IF i = 0 THEN Root ELSE [wall |-> 0, logical |-> i, id |-> 1] IN
    {[id |-> Id(i), parent |-> Id(i - 1)] : i \in 1..n}

\* Two roots, a map and an array, as far as the number of seeds allows.
SeedDocument ==
    LET Id(i) == [wall |-> 0, logical |-> i, id |-> 1]
        is == 1..Seeds
        Of(i) == <<"map", "array">>[i]
    IN  [D!Nothing EXCEPT !.roots = {[name |-> Of(i), id |-> Id(i), kind |-> Of(i)] : i \in is},
                          !.objects = {D!Owned(Of(i), "root", Root, Of(i), Id(i)) : i \in is}]

Empty ==
    CASE kind = "list" -> L!New
      [] kind = "movelist" -> V!New
      [] kind = "tree" -> O!New
      [] kind = "document" -> D!New
      [] kind = "richtext" -> R!New
      [] kind = "undo" -> U!New

Seed ==
    LET ns == SeedNodes(Seeds)
        Rune(n) == IF n.id.logical = 2 THEN R!Newline ELSE "a"
    IN  CASE kind = "movelist" -> [V!Nothing EXCEPT !.nodes = ns]
          [] kind = "document" -> SeedDocument
          [] kind = "richtext" ->
               [R!Nothing EXCEPT !.nodes = {[id |-> n.id, parent |-> n.parent, rune |-> Rune(n)] : n \in ns}]
          [] kind = "undo" ->
               [nodes |-> {[id |-> n.id, parent |-> n.parent, rune |-> n.id.logical] : n \in ns}, tombs |-> {}]
          [] OTHER -> [nodes |-> ns, tombs |-> {}]

Init ==
    /\ kind \in Kind
    /\ \E s \in ApplyDelta(Empty, Seed) :
          LET t == IF kind = "undo" THEN [s EXCEPT !.calm = TRUE] ELSE s IN
          /\ state = [r \in Replica |-> t]
          /\ saved = [r \in Replica |-> [state |-> t, seen |-> Seed]]
    /\ call = [r \in Replica |-> {}]
    /\ unsent = [r \in Replica |-> {}]
    /\ net = {}
    /\ seen = [r \in Replica |-> Seed]
    /\ edits = 0
    /\ events = 0

----------------------------------------------------------------------------
\* The calls that begin by reading positions: operation, arguments, what was
\* read and the number of tags that the call needs.
Reading(op, args, read, need) ==
    [op |-> op, args |-> args, read |-> read, need |-> need, ids |-> <<>>]

Inserts(shown, offsets, v) ==
    {Reading("insert", <<i, v>>, shown, Len(v)) : i \in offsets \cap 0..Len(shown)}
Deletes(shown, ns) ==
    {Reading("delete", <<i, n>>, shown, 0) : i \in 0..(Len(shown) - 1), n \in ns}
Moves(shown, tos) ==
    {Reading("move", <<i, 1, to>>, shown, 1) : i \in 0..Len(shown), to \in tos}

\* The tests of the offsets and of the options.
Permitted(c) ==
    LET n == Len(c.read) IN
    CASE c.op = "delete" -> /\ c.args[1] + c.args[2] <= n
                            /\ kind = "undo" => U!Recordable(c.args[2])
      [] c.op = "insert" -> kind = "undo" => U!Recordable(Len(c.args[2]))
      [] c.op = "move" -> /\ c.args[1] + c.args[2] <= n
                          /\ c.args[3] <= n - c.args[2] /\ c.args[3] # c.args[1]
      [] OTHER -> TRUE

\* A selection of the host, which formats it later.
Selections(s) ==
    {Reading("select", <<T!AnchorAt(s.text, i), T!AnchorAt(s.text, j)>>, <<>>, 0)
       : i \in {1} \cap 0..Len(R!Shown(s)), j \in {Len(R!Shown(s))}}

\* What Undo and Redo are about to replay.
Replays(s) ==
    {Reading("undo", <<>>, <<>>, IF U!UndoInserts(s) THEN Len(s.log[U!Top(s.undo)].value) ELSE 0)
       : i \in {1} \cap DOMAIN s.undo}
    \cup
    {Reading("redo", <<>>, <<>>, IF U!RedoInserts(s) THEN Len(s.log[U!Top(s.redo)].value) ELSE 0)
       : i \in {1} \cap DOMAIN s.redo}

\* The undo manager captures the deleted characters as well.
Captured(s, c) ==
    [c EXCEPT !.args = Append(@, SubSeq(U!Runes(s.text), @[1] + 1, @[1] + @[2]))]

\* Replica 1 of a text uses its undo manager, the others only record with theirs;
\* replica 1 of a list with moves moves elements to the end, the others to the front.
Plans(s, r) ==
    CASE kind = "list" -> UNION {Inserts(seq, {0, 1}, <<"v">>) \cup Deletes(seq, {1, 2}) : seq \in {L!Shown(s)}}
      [] kind = "movelist" ->
           IF V!ReadPanics(s) THEN {}
           ELSE UNION {IF r = 1 THEN Moves(seq, {Len(seq) - 1}) \cup Inserts(seq, {0}, <<"v">>) \cup Deletes(seq, {1})
                       ELSE Moves(seq, {0}) : seq \in {V!Shown(s)}}
      [] kind = "tree" -> {Reading("delete", <<0, 1>>, <<id>>, 0) : id \in O!Removable(s)}
      [] kind = "richtext" -> Selections(s)
      [] kind = "undo" /\ r = 1 ->
           Inserts(T!Visible(s.text), {0, 1}, <<"b", "c">>)
             \cup {Captured(s, c) : c \in {d \in Deletes(T!Visible(s.text), {1, 2}) : Permitted(d)}}
             \cup Replays(s)
      [] kind = "undo" -> Inserts(T!Visible(s.text), {1}, <<"d">>)
      [] OTHER -> {}

\* The read under the lock.
Begin(r, c) ==
    /\ call[r] = {} /\ Permitted(c)
    /\ call' = [call EXCEPT ![r] = {c}]
    /\ edits' = edits + 1
    /\ UNCHANGED <<kind, state, unsent, saved, net, seen, events>>

\* clock.Now, without the lock.
TakeTag(r, c) ==
    /\ Len(c.ids) < c.need
    /\ \E k \in NowFrom(ClockOf(state[r]), Physical) :
          /\ state' = [state EXCEPT ![r] = WithClock(@, k)]
          /\ call' = [call EXCEPT ![r] = {[c EXCEPT !.ids = Append(@, TagAt(k, r))]}]
    /\ UNCHANGED <<kind, unsent, saved, net, seen, edits, events>>

\* The delta of a call on a list or tree.
Body(c) ==
    CASE kind \in {"list", "tree"} /\ c.op = "insert" -> L!Inserted(c.read, c.args[1], c.ids[1])
      [] kind \in {"list", "tree"} /\ c.op = "delete" -> L!Deleted(c.read, c.args[1], c.args[2])
      [] kind = "movelist" /\ c.op = "insert" -> V!Inserted(c.read, c.args[1], c.ids[1])
      [] kind = "movelist" /\ c.op = "delete" -> V!Deleted(c.read, c.args[1], c.args[2])
      [] OTHER -> V!Move(c.read, c.args[1], c.args[2], c.args[3], c.ids[1])

Before(c) == IF c.args[1] = 0 THEN Root ELSE c.read[c.args[1]]

\* What the last part of a call leads to.
Finished(s, r, c) ==
    CASE kind = "richtext" ->
           R!FormatAnchored(s, r, c.args, {<<Bold, "on">>})
             \cup R!FormatBlocksAnchored(s, r, c.args, "quote")
      [] kind = "undo" /\ c.op = "insert" -> U!Insert(s, Before(c), c.args[2], c.ids)
      [] kind = "undo" /\ c.op = "delete" ->
           U!Delete(s, Before(c), c.args[3], SubSeq(c.read, c.args[1] + 1, c.args[1] + c.args[2]))
      [] kind = "undo" /\ c.op = "undo" -> U!Undo(s, c.ids)
      [] kind = "undo" /\ c.op = "redo" -> U!Redo(s, c.ids)
      [] OTHER -> {[state |-> t, bodies |-> IF Accepts(s, Body(c)) THEN {Body(c)} ELSE {}]
                     : t \in ApplyDelta(s, Body(c))}

\* The replica takes over a new state, hands out deltas and has heard of them.
Adopt(r, o) ==
    /\ state' = [state EXCEPT ![r] = o.state]
    /\ unsent' = [unsent EXCEPT ![r] = @ \cup o.bodies]
    /\ seen' = [seen EXCEPT ![r] = FoldSet(Both, @, o.bodies)]

Commit(r, c) ==
    /\ Len(c.ids) = c.need
    /\ LET os == Finished(state[r], r, c) IN
       \/ \E o \in os : Adopt(r, o)
       \/ os = {} /\ UNCHANGED <<state, unsent, seen>>
    /\ call' = [call EXCEPT ![r] = {}]
    /\ UNCHANGED <<kind, saved, net, edits, events>>

\* Edits in one critical section: their outcomes.
DocumentEdits(s, r) ==
    UNION {D!CreateRoot(s, r, "root", k) : k \in D!Kinds}
      \cup UNION {D!SetEntry(s, r, o.id, "key", v) : o \in s.objects, v \in {"map", "none"}}
      \cup UNION {D!InsertNode(s, r, o.id, 0, "array") : o \in s.objects}
      \cup UNION {UNION {D!DeleteNode(s, o.id, i) : i \in DOMAIN D!Shown(s, o.id)} : o \in s.objects}

\* Transactions of an editor.
Transactions == {<<<<"insert", R!Newline, {<<R!Block, "quote">>}>>, <<"delete", 1, {}>>>>,
                 <<<<"retain", 1, {<<R!Block, "quote">>, <<Bold, "on">>}>>,
                   <<"insert", "b", {<<Bold, "none">>}>>>>}

\* Replica 1 is an editor that works in transactions, the others call methods.
RichEdits(s, r) ==
    LET n == Len(R!Shown(s)) IN
    IF r = 1 THEN UNION {R!EditorDelta(s, r, ops) : ops \in Transactions}
    ELSE R!Insert(s, r, n, R!Newline, {<<R!Block, "quote">>})
           \cup UNION {R!Delete(s, i - 1, i) : i \in {1} \cap 1..n}
           \cup R!Format(s, r, 0, n, {<<Bold, "none">>})

Returned(x) == [state |-> x.state, bodies |-> {x.delta}]

Outcomes(s, r) ==
    CASE kind = "tree" -> {Returned(x) : x \in UNION {O!Add(s, r, p) : p \in O!Ids(s.nodes) \cup {Root}}}
      [] kind = "document" -> {Returned(x) : x \in DocumentEdits(s, r)}
      [] kind = "richtext" -> RichEdits(s, r)
      [] OTHER -> {}

Edit(r, o) ==
    /\ Adopt(r, o)
    /\ edits' = edits + 1
    /\ UNCHANGED <<kind, call, saved, net, events>>

----------------------------------------------------------------------------
\* ApplyDelta of a delta from the network.
Receive(r, d) ==
    /\ \E s \in ApplyDelta(state[r], d) : state' = [state EXCEPT ![r] = s]
    /\ seen' = [seen EXCEPT ![r] = IF Accepts(state[r], d) THEN Both(@, d) ELSE @]
    /\ IF Both(seen[r], d) = seen[r]
       THEN events < MaxEvents /\ events' = events + 1
       ELSE UNCHANGED events
    /\ UNCHANGED <<kind, call, unsent, saved, net, edits>>

\* Merge of the state of another replica, which saved what it wrote.
Merge(r, q) ==
    /\ r # q /\ unsent[q] = {}
    /\ kind = "richtext" => R!Saveable(state[q])
    /\ LET d == StateDelta(state[q]) IN
       /\ \E s \in ApplyDelta(state[r], d) : state' = [state EXCEPT ![r] = s]
       /\ seen' = [seen EXCEPT ![r] = IF Accepts(state[r], d) THEN Both(@, seen[q]) ELSE @]
    /\ events < MaxEvents /\ events' = events + 1
    /\ UNCHANGED <<kind, call, unsent, saved, net, edits>>

\* tree.Delta.Merge, text.Delta.Merge.
MergeDeltas(r, d, e) ==
    /\ kind \in {"tree", "undo"} /\ d # e
    /\ \E b \in O!JoinDeltas(d, e) : unsent' = [unsent EXCEPT ![r] = (@ \ {d, e}) \cup {b}]
    /\ UNCHANGED <<kind, state, call, saved, net, seen, edits, events>>

\* ORTree.Nodes fills the cached projection.
Read(r) ==
    /\ kind = "tree" /\ state[r].cache = {}
    /\ state' = [state EXCEPT ![r] = O!Read(@)]
    /\ UNCHANGED <<kind, call, unsent, saved, net, seen, edits, events>>

----------------------------------------------------------------------------
Saveable(s) ==
    CASE kind = "list" -> L!Saveable(s)
      [] kind = "movelist" -> V!Saveable(s)
      [] kind = "tree" -> O!Saveable(s)
      [] kind = "document" -> D!Saveable(s)
      [] OTHER -> s.text.pending = {}

\* What a snapshot says of the clock.  MoveRGA reads it after it released the lock
\* under which it took its state: a call in progress may have taken its tag or a
\* delta may have come in between.
SavedClocks(r) ==
    LET s == state[r]
        fresh == {d \in net : Both(seen[r], d) # seen[r]}
        taken == {c \in call[r] : Len(c.ids) < c.need}
        later == {ClockOf(t) : t \in UNION {ApplyDelta(s, d) : d \in fresh}}
                   \cup UNION {NowFrom(ClockOf(s), Physical) : c \in taken}
    IN  {ClockOf(s)} \cup IF kind = "movelist" THEN later ELSE {}

\* SnapshotCurrentState, saved by the host, which then sends its deltas; it
\* fails while something is missing.
Save(r) ==
    /\ IF Saveable(state[r])
       THEN /\ \E c \in SavedClocks(r) :
                 saved' = [saved EXCEPT ![r] = [state |-> WithClock(state[r], c), seen |-> seen[r]]]
            /\ net' = net \cup unsent[r]
            /\ unsent' = [unsent EXCEPT ![r] = {}]
       ELSE UNCHANGED <<saved, net, unsent>>
    /\ UNCHANGED <<kind, state, call, seen, edits, events>>

\* UnmarshalBinary of a complete state into an object with some clock.
Installed(s) ==
    CASE kind = "list" -> L!Restored(s)
      [] kind = "movelist" -> V!Restored(s)
      [] kind = "tree" -> O!Restored(s)
      [] kind = "document" -> D!Installed(s)
      [] kind = "richtext" -> R!Restored(s)
      [] kind = "undo" -> {[U!New EXCEPT !.text = T!BuildSequence(c, s.text.nodes, s.text.tombs)]
                             : c \in WitnessFrom(s.text.clock, T!TagsOf(StateDelta(s)), Physical)}

\* NewFromSnapshot.
Restored(s) == IF kind = "document" THEN D!Restored(s) ELSE Installed(s)

Restart(r) ==
    /\ \E s \in Restored(saved[r].state) : state' = [state EXCEPT ![r] = s]
    /\ seen' = [seen EXCEPT ![r] = saved[r].seen]
    /\ call' = [call EXCEPT ![r] = {}]
    /\ unsent' = [unsent EXCEPT ![r] = {}]
    /\ events < MaxEvents /\ events' = events + 1
    /\ UNCHANGED <<kind, saved, net, edits>>

\* UnmarshalBinary replaces the content of a replica in use by a saved state of
\* another one and keeps the clock.
Install(r, q) ==
    /\ r # q /\ kind # "undo"
    /\ \E s \in Installed(WithClock(saved[q].state, ClockOf(state[r]))) :
          state' = [state EXCEPT ![r] = s]
    /\ seen' = [seen EXCEPT ![r] = saved[q].seen]
    /\ events < MaxEvents /\ events' = events + 1
    /\ UNCHANGED <<kind, call, unsent, saved, net, edits>>

----------------------------------------------------------------------------
TombstoneTags(s) ==
    CASE kind \in {"list", "tree"} -> s.tombs
      [] kind = "richtext" -> R!TombstoneTags(s)
      [] kind = "undo" -> s.text.tombs
      [] OTHER -> {}

\* The documented conditions: every replica holds the tombstones durably, no call
\* is under way, and older frames are retired.
Acknowledged(tags) ==
    \A q \in Replica : /\ unsent[q] = {} /\ call[q] = {}
                       /\ tags \subseteq TombstoneTags(state[q])
                       /\ tags \subseteq TombstoneTags(saved[q].state)

\* CompactTombstones, and where there is one CompactEligibleTombstones.
CompactedStates(s, tags) ==
    CASE kind = "list" -> {L!Compacted(s, tags) : i \in {1 : j \in {k \in {1} : L!Compactable(s, tags)}}}
      [] kind = "tree" -> {O!Compacted(s, O!Eligible(s, tags))}
                            \cup {O!Compacted(s, tags) : j \in {k \in {1} : O!Compactable(s, tags)}}
      [] kind = "richtext" ->
           {R!Compacted(s, T!Eligible(s.text, tags), tags) : j \in {k \in {1} : s.text.pending = {}}}
             \cup {R!Compacted(s, tags \cap s.text.tombs, tags) : j \in {k \in {1} : R!Compactable(s, tags)}}
      [] OTHER -> {U!Changed(s, T!RemoveLeaves(s.text, tags))
                     : j \in {k \in {1} : s.text.pending = {} /\ T!Compactable(s.text, tags)}}

\* The host saves what compaction leaves.
Compact(r, tags) ==
    /\ tags # {} /\ Acknowledged(tags) /\ Saveable(state[r])
    /\ \E s \in CompactedStates(state[r], tags) :
          /\ state' = [state EXCEPT ![r] = s]
          /\ saved' = [saved EXCEPT ![r] = [state |-> s, seen |-> seen[r]]]
    /\ net' = {}
    /\ events < MaxEvents /\ events' = events + 1
    /\ UNCHANGED <<kind, call, unsent, seen, edits>>

Next ==
    \/ \E r \in Replica :
         \/ edits < EditBound /\ \E c \in Plans(state[r], r) : Begin(r, c)
         \/ \E c \in call[r] : TakeTag(r, c) \/ Commit(r, c)
         \/ edits < EditBound /\ \E o \in Outcomes(state[r], r) : Edit(r, o)
         \/ \E d \in net : Receive(r, d)
         \/ \E q \in Replica : Merge(r, q) \/ Install(r, q)
         \/ \E d, e \in unsent[r] : MergeDeltas(r, d, e)
         \/ Read(r)
         \/ Save(r)
         \/ Restart(r)
         \/ \E tags \in SUBSET TombstoneTags(state[r]) : Compact(r, tags)

Spec == Init /\ [][Next]_vars

----------------------------------------------------------------------------
\* What a replica shows is a function of the records it has heard of, whatever
\* the order, grouping and number of deliveries and whatever was saved,
\* restored, replaced or compacted in between.  A list, a tree and a text show
\* the connected live elements in the order of the walk over all of them, a
\* list with moves every live element once, a document the newest root and
\* entry of a name, a rich text the newest value of every attribute.
Resolved ==
    \A r \in Replica :
        LET s == state[r]
            d == seen[r]
        IN  CASE kind = "list" -> L!Shows(s, d.nodes, d.tombs)
              [] kind = "movelist" -> V!Shows(s, d)
              [] kind = "tree" -> O!Shows(s, d.nodes, d.tombs)
              [] kind = "document" -> D!Shows(s, d)
              [] kind = "richtext" -> R!Shows(s, d)
              [] kind = "undo" -> L!IsWalk(d.nodes,
                   {id \in L!Ids(d.nodes) \ d.tombs :
                      \E m \in L!Lineage(d.nodes, id) : m.parent = Root}, T!Visible(s.text))

\* No delta and no state of another replica is ever taken for corrupt: tags that
\* name two things, cycles, objects of two kinds or with two owners do not come
\* about by concurrent editing, so that only the limits of a replica make it
\* refuse what others accepted.
NeverTakenForCorrupt ==
    \A r \in Replica : \A d \in net \cup {StateDelta(state[q]) : q \in Replica} :
        LET s == state[r] IN
        CASE kind = "list" -> ~L!Conflicts(s, d) /\ L!Acyclic(L!NewNodes(s, d) \cup s.pending)
          [] kind = "movelist" -> ~V!Conflicts(s, d)
          [] kind = "tree" -> ~O!Conflicts(s, d) /\ O!Acyclic(s.nodes \cup d.nodes)
          [] kind = "document" -> ~D!Conflicts(s, d) /\ D!Sound(d) /\ D!Sound(D!Joined(s, d))
          [] kind = "richtext" -> /\ ~T!Conflicts(s.text, d) /\ T!Acyclic(s.text.pending \cup d.nodes)
                                  /\ ~R!MarksConflict(s, d.marks)
          [] kind = "undo" -> ~T!Conflicts(s.text, d) /\ T!Acyclic(s.text.pending \cup d.nodes)

----------------------------------------------------------------------------
\* The tags that a call without interruption would take.
NextTags(s, r) == {TagAt(c, r) : c \in NowFrom(ClockOf(s), Physical)}
Ticked(s, id) == WithClock(s, StampOf(id))

Cut(seq, from, n) == SubSeq(seq, 1, from) \o SubSeq(seq, from + n + 1, Len(seq))

\* A list shows an insertion at its offset and no longer shows a deleted range.
Listed(s) == IF kind = "list" THEN L!Shown(s) ELSE V!Shown(s)
ListEffect(s, r) ==
    \A shown \in {Listed(s)} :
        /\ \A id \in NextTags(s, r), i \in 0..Len(shown) :
           \A d \in {IF kind = "list" THEN L!Inserted(shown, i, id) ELSE V!Inserted(shown, i, id)} :
             Accepts(Ticked(s, id), d) =>
                 \A t \in ApplyDelta(Ticked(s, id), d) : Listed(t) = InsertAt(shown, i + 1, id)
        /\ \A i \in 0..Len(shown) - 1 :
           \A d \in {IF kind = "list" THEN L!Deleted(shown, i, 1) ELSE V!Deleted(shown, i, 1)} :
             Accepts(s, d) => \A t \in ApplyDelta(s, d) : Listed(t) = Cut(shown, i, 1)

\* The moves of one or two elements that replica r could make now, by what they
\* lead to from what is shown.
EveryMove(s, r, Leads(_, _, _, _, _)) ==
    \A shown \in {V!Shown(s)}, id \in NextTags(s, r), n \in 1..2 :
    \A i, to \in 0..Len(shown) - n : \A d \in {V!Move(shown, i, n, to, id)} :
        i # to /\ Accepts(Ticked(s, id), d) =>
            \A t \in ApplyDelta(Ticked(s, id), d) : Leads(shown, V!Shown(t), i, n, to)

\* The list that the same move on a plain sequence leaves.
Exact(shown, result, i, n, to) ==
    LET rest == Cut(shown, i, n)
    IN  result = SubSeq(rest, 1, to) \o SubSeq(shown, i + 1, i + n)
                   \o SubSeq(rest, to + 1, Len(rest))

\* The range in one piece, directly behind the element at its destination.
Placed(shown, result, i, n, to) ==
    LET at == IF to = 0 THEN 0 ELSE SelectInSeq(result, LAMBDA id : id = Cut(shown, i, n)[to])
    IN  SubSeq(result, at + 1, at + n) = SubSeq(shown, i + 1, i + n)

\* A move is exact, or at least in place once an attachment was dropped.
MoveEffect(s, r) == IF V!Broken(s) THEN EveryMove(s, r, Placed) ELSE EveryMove(s, r, Exact)

\* A new tree node comes directly behind its parent.
TreeEffect(s, r) ==
    \A p \in ToSet(O!Shown(s)) \cup {Root} : \A x \in O!Add(s, r, p) :
        LET shown == O!Shown(s)
            at == IF p = Root THEN 0 ELSE SelectInSeq(shown, LAMBDA id : id = p)
        IN  O!Shown(x.state) = InsertAt(shown, at + 1, TagAt(x.state.clock, r))

\* A document shows what was written: the root, the entry or the array element.
DocumentEffect(s, r) ==
    LET Id(x) == TagAt(x.state.clock, r) IN
    /\ \A k \in D!Kinds : \A x \in D!CreateRoot(s, r, "root", k) :
         [name |-> "root", id |-> Id(x), kind |-> k] \in x.state.roots
    /\ \A o \in s.objects :
         /\ \A v \in {"bytes", "map"} : \A x \in D!SetEntry(s, r, o.id, "key", v) :
              {e \in x.state.entries : e.of = o.id}
                = {[of |-> o.id, key |-> "key", tag |-> Id(x), val |-> v]}
         /\ \A i \in 0..Len(D!Shown(s, o.id)) : \A x \in D!InsertNode(s, r, o.id, i, "array") :
              /\ D!Shown(x.state, o.id) = InsertAt(D!Shown(s, o.id), i + 1, Id(x))
              /\ D!IsKind(x.state, Id(x), "array")
         /\ \A i \in DOMAIN D!Shown(s, o.id) : \A x \in D!DeleteNode(s, o.id, i) :
              D!Shown(x.state, o.id) = Cut(D!Shown(s, o.id), i - 1, 1)

\* A rich text as characters with attributes, and edits on that.
Styled(s) ==
    LET shown == R!Shown(s)
    IN  [i \in DOMAIN shown |-> <<R!RuneIn(s.text, shown[i]), R!Attributes(s, shown[i])>>]
Restyle(x, cs) ==
    <<x[1], {a \in x[2] : \A c \in cs : c[1] # a[1]} \cup {c \in cs : c[2] # "none"}>>
Paragraph(doc, i) == Cardinality({j \in 1..i - 1 : doc[j][1] = R!Newline})

\* A block format of the characters js covers the paragraphs they are in.
BlockStyled(doc, js, cs) ==
    [i \in DOMAIN doc |-> IF \E j \in js : Paragraph(doc, j) = Paragraph(doc, i)
                          THEN Restyle(doc[i], cs) ELSE doc[i]]

\* An editor transaction: first the characters and their inline attributes, then
\* the block formats, each on the paragraphs of the characters it was given for.
Transacted(doc, ops) ==
    LET Blocks(cs) == {c \in cs : c[1] = R!Block}
        step(a, op) ==
          CASE op[1] = "delete" -> [a EXCEPT !.doc = Cut(@, a.at, op[2])]
            [] op[1] = "insert" ->
                 [a EXCEPT !.doc = InsertAt(@, a.at + 1, Restyle(<<op[2], {}>>, op[3] \ Blocks(op[3]))),
                           !.at = @ + 1, !.blocks = Append(@, <<{a.at + 1}, Blocks(op[3])>>)]
            [] OTHER ->
                 LET js == (a.at + 1)..(a.at + op[2]) IN
                 [a EXCEPT !.doc = [i \in DOMAIN @ |-> IF i \in js THEN Restyle(@[i], op[3] \ Blocks(op[3])) ELSE @[i]],
                           !.at = @ + op[2], !.blocks = Append(@, <<js, Blocks(op[3])>>)]
        end == FoldLeft(step, [doc |-> doc, at |-> 0, blocks |-> <<>>], ops)
    IN  FoldLeft(LAMBDA a, b : BlockStyled(a, b[1], b[2]), end.doc, end.blocks)

RichEffect(s, r) ==
    LET doc == Styled(s)
        n == Len(doc)
        Leaves(os, result) == \A o \in os : o.bodies = {} \/ Styled(o.state) = result
        On(js, cs) == [i \in 1..n |-> IF i \in js THEN Restyle(doc[i], cs) ELSE doc[i]]
    IN  /\ \A i \in {0, n} : Leaves(R!Insert(s, r, i, "b", {<<Bold, "on">>}),
                                  InsertAt(doc, i + 1, <<"b", {<<Bold, "on">>}>>))
        /\ \A i \in {1, n} \cap 1..n : Leaves(R!Delete(s, i - 1, i), Cut(doc, i - 1, 1))
        /\ \A i \in {1, n} \cap 1..n : Leaves(R!Format(s, r, 0, i, {<<Bold, "none">>}), On(1..i, {<<Bold, "none">>}))
        /\ \A i \in 0..n : \A j \in {i, n} :
             Leaves(R!FormatBlocks(s, r, i, j, "quote"),
                    BlockStyled(doc, IF i < j THEN (i + 1)..j ELSE {IF i = n THEN n ELSE i + 1} \cap 1..n,
                                {<<R!Block, "quote">>}))
        /\ \A ops \in Transactions : Leaves(R!EditorDelta(s, r, ops), Transacted(doc, ops))

\* An edit that succeeds does to what the replica shows what it would do to a
\* plain list, tree, document or formatted text, in every state that deliveries
\* in any order, restores and compaction lead to: an insertion is shown at its
\* offset, a deletion removes the range, a move takes it to its place, a format
\* changes exactly the selected characters, a block format exactly the touched
\* paragraphs, and an editor transaction all of its operations or nothing.
\* One exception: where concurrent moves formed a cycle and an attachment was
\* dropped, a later move puts its range in place but may reorder the others.
EditTakesEffect ==
    \A r \in {q \in Replica : call[q] = {}} :
        LET s == state[r] IN
        CASE kind = "list" -> ListEffect(s, r)
          [] kind = "movelist" ->
               V!ReadPanics(s) \/ /\ ListEffect(s, r)
                                  /\ MoveEffect(s, r)
          [] kind = "tree" -> TreeEffect(s, r)
          [] kind = "document" -> DocumentEffect(s, r)
          [] kind = "richtext" -> RichEffect(s, r)
          [] OTHER -> TRUE

\* The tags that an Undo of replica r would take, and what it may touch.
UndoTags(s, r) ==
    [i \in 1..(IF U!UndoInserts(s) THEN Len(s.log[U!Top(s.undo)].value) ELSE 0) |->
        [wall |-> 0, logical |-> s.text.clock.logical + i, id |-> r]]
Tally(runes) == [v \in ToSet(runes) |-> Len(SelectSeq(runes, LAMBDA w : w = v))]
Others(text, own) == SelectSeq(T!Visible(text), LAMBDA p : p \notin own)

\* Undo takes back the last edit and nothing else: it moves, removes or adds no
\* character but those of the edit, and a deletion comes back in one piece.  In
\* a text that nobody else changes it leaves the characters that the edit
\* found, also when they were deleted and brought back in between; and in the
\* same order when nothing was undone since the edit.
UndoTakesBack ==
    kind = "undo" => \A r \in Replica : state[r].undo # <<>> =>
        LET s == state[r]
            x == s.log[U!Top(s.undo)]
            ids == UndoTags(s, r)
            own == ToSet(ids) \cup ToSet(x.ids)
        IN  \A o \in U!Undo(s, ids) : o.bodies # {} =>
                LET shown == T!Visible(o.state.text)
                    runes == U!Runes(o.state.text)
                IN  /\ Others(o.state.text, own) = Others(s.text, own)
                    /\ \E i \in 1..Len(shown) + 1 : SubSeq(shown, i, i + Len(ids) - 1) = ids
                    /\ s.calm => Tally(runes) = Tally(x.before)
                    /\ s.calm /\ s.redo = <<>> => runes = x.before

\* What README.md says of every type, convergence under reordered and delayed
\* delivery, asks at least that reading the list returns.
EveryReadReturns == kind = "movelist" => \A r \in Replica : ~V!ReadPanics(state[r])
=============================================================================

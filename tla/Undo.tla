-------------------------------- MODULE Undo --------------------------------
(***************************************************************************)
(* text.UndoManager (text/undo.go) over a text.RGA: a bounded local        *)
(* history whose undo and redo are new edits.  A character that comes back *)
(* has a new position, so a deletion remembers which entry owns each       *)
(* deleted character.                                                      *)
(*                                                                         *)
(* A state is [text, log, undo, redo, owners, calm].  The stacks hold      *)
(* indices of log.  An entry is [op, pred, value, ids, targets, before]; a *)
(* target is <<entry, index>> or <<0, 0>> for a character of someone else, *)
(* and owners holds <<position, entry, index>>.  Two parts are history:    *)
(* before is the content to which the entry was applied, calm says that    *)
(* nobody else has changed the text since the manager was made.            *)
(***************************************************************************)
EXTENDS Forest

CONSTANTS Physical, MinRun, MaxNodes, MaxTombs, MaxPending, MaxPendingBytes,
          MaxEntries, MaxRunes      \* UndoOptions

T == INSTANCE RGAState

New == [text |-> T!Fresh(ZeroStamp), log |-> <<>>, undo |-> <<>>, redo |-> <<>>, owners |-> {},
        calm |-> TRUE]

Runes(text) ==
    LET shown == T!Visible(text)
    IN  [i \in DOMAIN shown |-> (CHOOSE n \in text.nodes : n.id = shown[i]).rune]

\* The owner of a position, and the undoTarget it becomes.
Target(s, p) ==
    LET o == {x \in s.owners : x[1] = p} IN
    IF o = {} THEN <<0, 0>> ELSE LET x == CHOOSE x \in o : TRUE IN <<x[2], x[3]>>

\* The text value behind a position, its runes tagged with ids.
Chain(pred, value, ids) ==
    [nodes |-> {[id |-> ids[i], parent |-> IF i = 1 THEN pred ELSE ids[i - 1], rune |-> value[i]]
                  : i \in DOMAIN ids},
     tombs |-> {}]
Removal(ids) == [nodes |-> {}, tombs |-> ids]

Sizes(s, stack) == FoldFunction(+, 0, [i \in DOMAIN stack |-> Len(s.log[stack[i]].value)])

\* clearLocked; targets may go on pointing at entries that left the stacks.
Clear(s) == [s EXCEPT !.undo = <<>>, !.redo = <<>>, !.owners = {}]

\* discardRedoLocked.
DiscardRedo(s) ==
    [s EXCEPT !.redo = <<>>,
              !.owners = {o \in @ : ~ \E i \in DOMAIN s.redo :
                            /\ s.log[s.redo[i]].op = "insert"
                            /\ o[1] \in ToSet(s.log[s.redo[i]].ids)}]

\* Insert and Delete refuse, before they read or take a tag, one edit that the
\* history could never hold.
Recordable(runes) == runes <= MaxRunes

\* recordNewEntry: over the budget the whole history goes.
Record(s, entry) ==
    LET over == Len(s.undo) >= MaxEntries \/ Sizes(s, s.undo) + Len(entry.value) > MaxRunes
        t == IF over THEN Clear(s) ELSE DiscardRedo(s)
        e == Len(t.log) + 1
    IN  [t EXCEPT !.log = Append(@, entry), !.undo = Append(@, e)]

\* registerOwnedPositions, unregisterOwnedPositions.
Register(s, e) == [s EXCEPT !.owners = @ \cup {<<s.log[e].ids[i], e, i>> : i \in DOMAIN s.log[e].ids}]
Unregister(s, ids) == [s EXCEPT !.owners = {o \in @ : o[1] \notin ids}]

----------------------------------------------------------------------------
\* What a finished call leaves, or the state without the edit when it fails.
Done(s, d, Allowed, Then) ==
    IF ~Allowed \/ ~T!Accepts(s.text, d) THEN {[state |-> s, bodies |-> {}]}
    ELSE {[state |-> [Then EXCEPT !.text = t], bodies |-> {d}] : t \in T!ApplyDelta(s.text, d)}

\* Insert, its predecessor read before and its tags taken since.
Insert(s, pred, value, ids) ==
    LET entry == [op |-> "insert", pred |-> pred, value |-> value, ids |-> ids, targets |-> <<>>,
                  before |-> Runes(s.text)]
        t == Record(s, entry)
    IN  Done(s, Chain(pred, value, ids), TRUE, Register(t, Len(t.log)))

\* Delete of characters read before.  Their owners are looked up afterwards, and
\* before a full history is cleared.
Delete(s, pred, value, ids) ==
    Done(s, Removal(ToSet(ids)), TRUE,
         Record(s, [op |-> "delete", pred |-> pred, value |-> value,
                    ids |-> [i \in DOMAIN ids |-> Root],
                    targets |-> [i \in DOMAIN ids |-> Target(s, ids[i])],
                    before |-> Runes(s.text)]))

Top(stack) == stack[Len(stack)]
Undone(s) == [s EXCEPT !.undo = Front(@), !.redo = Append(@, Top(s.undo))]
Redone(s) == [s EXCEPT !.redo = Front(@), !.undo = Append(@, Top(s.redo)),
                       !.log[Top(s.redo)].before = Runes(s.text)]

\* hasIntegratedPositionLocked, retainsPositionLocked.
Anchored(s, pred) == T!Integrated(s.text, pred)
Retained(s, ids) == ids \subseteq Ids(s.text.nodes \cup s.text.pending)

\* Mutated form: characters that came back are not handed to their owners.
ReplaceOwnedNever(s, e, ids) == [s EXCEPT !.log[e].ids = ids]

\* replaceOwnedPosition for the characters of an undone deletion.
ReplaceOwned(s, e, ids) ==
    LET step(t, i) ==
          LET o == s.log[e].targets[i] IN
          IF o[1] = 0 THEN [t EXCEPT !.log[e].ids[i] = ids[i]]
          ELSE [Unregister(t, {t.log[o[1]].ids[o[2]]}) EXCEPT
                  !.log[o[1]].ids[o[2]] = ids[i], !.owners = @ \cup {<<ids[i], o[1], o[2]>>}]
    IN  FoldLeft(step, s, [i \in DOMAIN ids |-> i])

\* Whether Undo and Redo of the top entry insert, and how many tags they take.
UndoInserts(s) == s.log[Top(s.undo)].op = "delete"
RedoInserts(s) == s.log[Top(s.redo)].op = "insert"

\* Undo with the tags for the characters it brings back.
Undo(s, ids) ==
    LET e == Top(s.undo)
        x == s.log[e]
    IN  IF UndoInserts(s)
        THEN Done(s, Chain(x.pred, x.value, ids), Anchored(s, x.pred), ReplaceOwned(Undone(s), e, ids))
        ELSE Done(s, Removal(ToSet(x.ids)), Retained(s, ToSet(x.ids)), Undone(s))

\* The characters that a repeated deletion removes.
Targets(s, e) ==
    {LET o == s.log[e].targets[i] IN IF o[1] = 0 THEN s.log[e].ids[i] ELSE s.log[o[1]].ids[o[2]]
       : i \in DOMAIN s.log[e].targets}

Redo(s, ids) ==
    LET e == Top(s.redo)
        x == s.log[e]
    IN  IF RedoInserts(s)
        THEN Done(s, Chain(x.pred, x.value, ids), Anchored(s, x.pred),
                  Register([Unregister(Redone(s), ToSet(x.ids)) EXCEPT !.log[e].ids = ids], e))
        ELSE Done(s, Removal(Targets(s, e)), Retained(s, Targets(s, e)), Redone(s))

\* The text changes by other means: deltas, other calls on the RGA, compaction.
Changed(s, t) == [s EXCEPT !.text = t, !.calm = @ /\ t.nodes = s.text.nodes /\ t.tombs = s.text.tombs]
=============================================================================

--------------------------------- MODULE RGA --------------------------------
(***************************************************************************)
(* Replicated text (text/rga.go, text/wire.go, text/snapshot_delta.go):    *)
(* replicas edit their own RGA, exchange deltas over a network that may    *)
(* lose, repeat, delay and reorder them, merge each other's states,        *)
(* compact acknowledged tombstones, and restart from a snapshot.           *)
(*                                                                         *)
(* A local edit is several steps: positions are read under r.mu.RLock, one *)
(* tag per character comes from the clock without r.mu, and the delta is   *)
(* applied under r.mu.  Replace reads its two halves under two locks.      *)
(* Other goroutines apply remote deltas in between.  The host saves a      *)
(* snapshot before the deltas it covers leave the process.                 *)
(***************************************************************************)
EXTENDS RGAState

CONSTANTS Replica,      \* replica identifiers, positive natural numbers
          MaxInsert,    \* longest text of one edit
          MaxEdits, MaxEvents   \* bounds on edits; on edits, crashes and compactions

VARIABLES rga,          \* the RGA of each replica
          edit,         \* the local edit in progress, at most one per replica
          unsent,       \* deltas returned to the host and not sent yet
          saved,        \* the snapshot last saved by the host
          net,          \* deltas that left their process
          compacted,    \* history: tombstones some replica has compacted
          edits, events \* how many there have been

vars == <<rga, edit, unsent, saved, net, compacted, edits, events>>

Init ==
    /\ rga = [r \in Replica |-> Fresh(ZeroStamp)]
    /\ edit = [r \in Replica |-> {}]
    /\ unsent = [r \in Replica |-> {}]
    /\ saved = [r \in Replica |-> [clock |-> ZeroStamp, nodes |-> {}, tombs |-> {}]]
    /\ net = {}
    /\ compacted = {}
    /\ edits = 0 /\ events = 0

----------------------------------------------------------------------------
Event == events < MaxEvents /\ events' = events + 1

\* A local edit.  seen is history: what the replica held when the call began.
StartEdit(r, e) ==
    /\ edit[r] = {}
    /\ edits < MaxEdits /\ edits' = edits + 1
    /\ Event
    /\ edit' = [edit EXCEPT ![r] = {e}]
    /\ UNCHANGED <<rga, unsent, saved, net, compacted>>

Seen(s) == Ids(s.nodes \cup s.pending)

\* prepareInsertWithPredecessor, the read.
InsertRead(r) ==
    \E offset \in 0..Len(Visible(rga[r])), k \in 1..MaxInsert :
      StartEdit(r, [offset |-> offset, dels |-> {}, read |-> TRUE,
                    after |-> Predecessor(rga[r], offset), want |-> k, ids |-> <<>>,
                    seen |-> Seen(rga[r])])

\* prepareDelete of Delete (k = 0) or Replace.
DeleteRead(r) ==
    LET text == Visible(rga[r]) IN
    \E offset \in 0..Len(text) - 1, k \in 0..MaxInsert :
      \E n \in 1..Len(text) - offset :
        StartEdit(r, [offset |-> offset,
                      dels |-> {text[i] : i \in offset + 1..offset + n},
                      read |-> k = 0, after |-> Root, want |-> k, ids |-> <<>>,
                      seen |-> Seen(rga[r])])

\* Replace, the read of prepareInsert; the text may have become too short.
ReplaceRead(r, e) ==
    /\ e \in edit[r] /\ ~e.read
    /\ edit' = [edit EXCEPT ![r] =
                  IF e.offset > Len(Visible(rga[r])) THEN {}
                  ELSE {[e EXCEPT !.read = TRUE, !.after = Predecessor(rga[r], e.offset)]}]
    /\ UNCHANGED <<rga, unsent, saved, net, compacted, edits, events>>

\* clock.Now for the next character.
TakeTag(r, e) ==
    /\ e \in edit[r] /\ e.read /\ Len(e.ids) < e.want
    /\ \E t \in Physical :
         IF NowFails(rga[r].clock, t)
         THEN edit' = [edit EXCEPT ![r] = {}] /\ UNCHANGED rga
         ELSE LET c == NowBase(rga[r].clock, t)
                  id == [wall |-> c.wall, logical |-> c.logical, id |-> r]
              IN  /\ rga' = [rga EXCEPT ![r].clock = c]
                  /\ edit' = [edit EXCEPT ![r] = {[e EXCEPT !.ids = Append(@, id)]}]
    /\ UNCHANGED <<unsent, saved, net, compacted, edits, events>>

\* The delta of an edit: a chain from the predecessor, and the tombstones.
EditDelta(e) ==
    [nodes |-> {[id |-> e.ids[i], parent |-> IF i = 1 THEN e.after ELSE e.ids[i - 1]]
                  : i \in DOMAIN e.ids},
     tombs |-> e.dels]

\* ApplyDelta of the prepared delta; a refused one is dropped.
Commit(r, e) ==
    /\ e \in edit[r] /\ e.read /\ Len(e.ids) = e.want
    /\ edit' = [edit EXCEPT ![r] = {}]
    /\ \E s \in ApplyDelta(rga[r], EditDelta(e)) : rga' = [rga EXCEPT ![r] = s]
    /\ unsent' = IF Accepts(rga[r], EditDelta(e))
                 THEN [unsent EXCEPT ![r] = @ \cup {EditDelta(e)}] ELSE unsent
    /\ UNCHANGED <<saved, net, compacted, edits, events>>

----------------------------------------------------------------------------
\* ApplyDelta of a remote delta that changes something.
Receive(r, d) ==
    /\ \E s \in ApplyDelta(rga[r], d) : s # rga[r] /\ rga' = [rga EXCEPT ![r] = s]
    /\ UNCHANGED <<edit, unsent, saved, net, compacted, edits, events>>

\* Merge: pending nodes of the other replica included.
WholeState(s) == [nodes |-> s.nodes \cup s.pending, tombs |-> s.tombs]

\* What leaves q in a merge has been saved, like what leaves in a delta.
Merge(r, q) ==
    /\ r # q /\ unsent[q] = {}
    /\ Receive(r, WholeState(rga[q]))

\* SnapshotCurrentState, then the host lets the deltas go.
Save(r) ==
    /\ rga[r].pending = {}
    /\ saved' = [saved EXCEPT ![r] = [clock |-> rga[r].clock, nodes |-> rga[r].nodes,
                                      tombs |-> rga[r].tombs]]
    /\ net' = net \cup unsent[r]
    /\ unsent' = [unsent EXCEPT ![r] = {}]
    /\ UNCHANGED <<rga, edit, compacted, edits, events>>

\* NewFromSnapshot: UnmarshalBinary witnesses the state, then the frontier is.
Restored(s) ==
    LET tags == Ids(s.nodes) \cup s.tombs
        twice == UNION {WitnessedClocks(c, tags) : c \in WitnessedClocks(s.clock, tags)}
    IN  {BuildSequence(c, s.nodes, s.tombs) : c \in IF tags = {} THEN {s.clock} ELSE twice}

Restart(r) ==
    /\ Event
    /\ \E s \in Restored(saved[r]) : rga' = [rga EXCEPT ![r] = s]
    /\ edit' = [edit EXCEPT ![r] = {}]
    /\ unsent' = [unsent EXCEPT ![r] = {}]
    /\ UNCHANGED <<saved, net, compacted, edits>>

----------------------------------------------------------------------------
\* What CompactTombstones asks of its callers: every replica acknowledged the
\* tombstones, saved them and can remove them itself, and no delta or edit of
\* before is left.
Acknowledged(tags) ==
    \A q \in Replica :
      /\ tags \subseteq (rga[q].tombs \cap Ids(rga[q].nodes)) \cup compacted
      /\ tags \subseteq saved[q].tombs \cup compacted
      /\ rga[q].pending = {} /\ unsent[q] = {} /\ edit[q] = {}

\* The host retires the deltas of the epoch and saves the compacted state.
Compacts(r, tags) ==
    /\ tags # {}
    /\ Event
    /\ rga' = [rga EXCEPT ![r] = RemoveLeaves(@, tags)]
    /\ compacted' = compacted \cup tags
    /\ saved' = [saved EXCEPT ![r] = [clock |-> rga[r].clock, nodes |-> rga'[r].nodes,
                                      tombs |-> rga'[r].tombs]]
    /\ net' = {}
    /\ UNCHANGED <<edit, unsent, edits>>

\* CompactTombstones.
CompactTombstones(r, tags) ==
    /\ Acknowledged(tags)
    /\ rga[r].pending = {}
    /\ Compactable(rga[r], tags)
    /\ Compacts(r, tags \cap rga[r].tombs)

\* CompactEligibleTombstones.
CompactEligible(r, tags) ==
    /\ Acknowledged(tags)
    /\ rga[r].pending = {}
    /\ Compacts(r, Eligible(rga[r], tags))

Next ==
    \E r \in Replica :
      \/ InsertRead(r) \/ DeleteRead(r)
      \/ \E e \in edit[r] : ReplaceRead(r, e) \/ TakeTag(r, e) \/ Commit(r, e)
      \/ \E d \in net : Receive(r, d)
      \/ \E q \in Replica : Merge(r, q)
      \/ Save(r) \/ Restart(r)
      \/ \E tags \in SUBSET rga[r].tombs : CompactTombstones(r, tags) \/ CompactEligible(r, tags)

Spec == Init /\ [][Next]_vars

----------------------------------------------------------------------------
Place(s, m) == SelectInSeq(s.order, LAMBDA x : x = m)

\* The document order is the one the tree dictates, whatever order the nodes
\* came in, one by one, as a run, out of the pending set or from a snapshot:
\* every integrated node and the root enter and leave once, children between
\* the entry and the exit of their parent, siblings by descending tag, with no
\* overlap.  Replicas with the same nodes hence show the same text.
OrderIsTraversal ==
    \A r \in Replica : LET s == rga[r] IN
      /\ Len(s.order) = 2 * (Cardinality(s.nodes) + 1)
      /\ s.children = {<<n.parent, n.id>> : n \in s.nodes}
      /\ \A n \in s.nodes :
           /\ Place(s, In(n.parent)) < Place(s, In(n.id))
           /\ Place(s, In(n.id)) < Place(s, Out(n.id))
           /\ Place(s, Out(n.id)) < Place(s, Out(n.parent))
           /\ \A m \in s.nodes : m.parent = n.parent /\ TagLess(m.id, n.id)
                => Place(s, Out(n.id)) < Place(s, In(m.id))

\* A character is shown iff it is integrated and its deletion has not been
\* heard of, even when the deletion arrived first.
VisibleExact ==
    \A r \in Replica : rga[r].visible = Ids(rga[r].nodes) \ rga[r].tombs

\* Whatever waits waits for something: no pending node has an integrated
\* parent, the index by parent and the byte count match the pending set, and
\* the limits of Options hold.
PendingExact ==
    \A r \in Replica : LET s == rga[r] IN
      /\ \A n \in s.pending : ~Integrated(s, n.parent) /\ n \notin s.nodes
      /\ s.waiting = {<<n.parent, n.id>> : n \in s.pending}
      /\ s.bytes = Bytes(s.pending)
      /\ Cardinality(s.nodes \cup s.pending) <= MaxNodes
      /\ Cardinality(s.pending) <= MaxPending /\ s.bytes <= MaxPendingBytes
      /\ Cardinality(s.tombs) <= MaxTombs

AllNodes ==
    UNION {rga[r].nodes \cup rga[r].pending \cup saved[r].nodes : r \in Replica}
      \cup UNION {d.nodes : d \in net \cup UNION {unsent[r] : r \in Replica}}

\* A position names one character for ever, across replicas, lives and
\* messages: no two nodes share an id, none is older than its parent, and a
\* tag taken for a character still to be inserted is not in use.
PositionNamesOneNode ==
    /\ \A m, n \in AllNodes : m.id = n.id => m = n
    /\ \A n \in AllNodes : TagLess(n.parent, n.id)
    /\ \A r \in Replica : \A e \in edit[r] : ToSet(e.ids) \cap Ids(AllNodes) = {}

\* Text is inserted where the caller saw it: right after the character the
\* offset named, with nothing in between but what arrived during the call.
InsertsAdjacent ==
    \A r \in Replica : \A e \in edit[r] :
      /\ e.want > 0 /\ Len(e.ids) = e.want /\ edit'[r] = {}
      /\ e.ids[1] \in rga'[r].visible
      => \A i \in Place(rga'[r], In(e.after)) + 1..Place(rga'[r], In(e.ids[1])) - 1 :
           rga'[r].order[i][1] \notin e.seen

\* What has been compacted anywhere is never shown again anywhere.
CompactedStaysGone == \A r \in Replica : rga[r].visible \cap compacted = {}

\* The text and its indexes are right together: order, visibility, pending set and
\* identity of positions, and nothing compacted returns (applyDelta, integrate,
\* Compact, BuildSequence).
TextConsistent ==
    /\ OrderIsTraversal /\ VisibleExact /\ PendingExact
    /\ PositionNamesOneNode /\ CompactedStaysGone

\* DeltaSince against a snapshot some replica saved is enough for whoever is
\* in that state to show the sender's text.
DeltaSinceSuffices ==
    \A r, q \in Replica :
      LET base == saved[q]
          d == DeltaSince(rga[r], base)
      IN  rga[r].pending = {} /\ Compatible(rga[r], base) /\ d # EmptyDelta =>
            \A t \in ApplyDelta(BuildSequence(base.clock, base.nodes, base.tombs), d) :
              t.pending = {} /\ t.tombs = rga[r].tombs /\ Visible(t) = Visible(rga[r])

\* "ReplaceRunBinaryWithLimits atomically replaces count visible runes at
\* offset with value": nothing that was in the text when the call began ends
\* up shown between the deleted characters and those that replace them.
ReplaceInPlace ==
    [][\A r \in Replica : \A e \in edit[r] :
         /\ e.want > 0 /\ Len(e.ids) = e.want /\ e.dels # {} /\ edit'[r] = {}
         /\ e.ids[1] \in rga'[r].visible
         => \A d \in e.dels :
              \A i \in Place(rga'[r], In(e.ids[1])) + 1..Place(rga'[r], In(d)) - 1 :
                rga'[r].order[i][1] \notin e.seen \cap rga'[r].visible]_vars
=============================================================================

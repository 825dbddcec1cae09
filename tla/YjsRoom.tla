------------------------------- MODULE YjsRoom -------------------------------
(***************************************************************************)
(* One y-protocols room of extensions/yjs.go, its connections and its      *)
(* server-side agent (yjs_agent.go).  A room without a store keeps every   *)
(* update to bootstrap later peers; with one (yjs_store.go) the durable    *)
(* document is the store's and a new peer is brought up to date by the     *)
(* state-vector handshake.  Awareness is the room's alone.                 *)
(* A client's Yjs identity is named after its connection; one awareness    *)
(* message carries one entry.                                              *)
(***************************************************************************)
EXTENDS Naturals, Sequences, SequencesExt, FiniteSets

CONSTANTS
    Peer,           \* connections, and the Yjs client at the end of each
    Update,         \* document updates
    MaxUpdates,     \* MaxUpdates of a room without a store
    MaxQueued,      \* MaxQueuedMessages of a subscriber
    MaxClients,     \* MaxAwarenessClients
    MaxTombstones,  \* MaxAwarenessTombstones
    MaxReads        \* bound: client messages and agent publications

VARIABLES
    backed,     \* whether YJSRoom.store is set
    updates,    \* YJSRoom.updates, or the store's document
    lock,       \* the holder of storeMu
    peer,       \* subscribers
    handler,    \* what each handler still has to broadcast, or to reply
    awareness,  \* YJSRoom.awareness and awarenessTombstones
    aged,       \* the tombstones' clients, oldest first
    client,     \* the Yjs clients: document and presence
    reads,
    lost        \* ghost: updates applied with the answer lost; tombstones evicted

vars == <<backed, updates, lock, peer, handler, awareness, aged, client, reads, lost>>

Agent == "agent"
Free == "free"

Rest == [todo |-> <<>>, to |-> {}, casting |-> FALSE, reply |-> {}]
NewPeer == [at |-> "none", member |-> FALSE, done |-> FALSE, queue |-> <<>>,
            boot |-> <<>>, synced |-> FALSE, before |-> {}]
Unknown == [st |-> "none", clock |-> 0, owner |-> Agent]

Doc(us) == [type |-> "doc", updates |-> us]
Aware(c, n, on) == [type |-> "aware", client |-> c, clock |-> n, on |-> on]

Init ==
    /\ backed \in BOOLEAN
    /\ updates = {} /\ lock = Free /\ reads = 0
    /\ peer = [p \in Peer |-> NewPeer]
    /\ handler = [p \in Peer \cup {Agent} |-> Rest]
    /\ awareness = [c \in Peer |-> Unknown] /\ aged = <<>>
    /\ client = [p \in Peer |-> [has |-> {}, view |-> [c \in Peer |-> [clock |-> 0, on |-> FALSE]]]]
    /\ lost = [answers |-> {}, tombstones |-> {}]

Active == {c \in Peer : awareness[c].st = "active"}

\* What a Yjs client does with a message it receives (y-protocols).
Shown(view, m) ==
    IF m.clock > view[m.client].clock
       \/ (m.clock = view[m.client].clock /\ ~m.on /\ view[m.client].on)
    THEN [view EXCEPT ![m.client] = [clock |-> m.clock, on |-> m.on]]
    ELSE view

Heard(c, m) ==
    IF m.type = "doc" THEN [c EXCEPT !.has = @ \cup m.updates]
    ELSE [c EXCEPT !.view = Shown(@, m)]

(***************************************************************************)
(* Connections.                                                            *)
(***************************************************************************)
\* addAndBootstrap, and bootstrap under storeMu: the subscriber is entered and
\* its first messages are copied in one critical section.
Bootstrap(p) ==
    /\ peer[p].at = "none"
    /\ backed => lock = Free
    /\ LET present == SetToSeq({Aware(c, awareness[c].clock, TRUE) : c \in Active})
       IN  peer' = [peer EXCEPT ![p].at = "joined", ![p].member = TRUE,
                      ![p].before = updates,
                      ![p].boot = IF backed THEN present
                                  ELSE <<Doc(updates)>> \o present]
    /\ UNCHANGED <<backed, updates, lock, handler, awareness, aged, client, reads, lost>>

\* ServeHTTP writes them before it starts the write loop.
Greet(p) ==
    /\ peer[p].at = "joined"
    /\ client' = [client EXCEPT ![p] = FoldLeft(Heard, @, peer[p].boot)]
    /\ peer' = [peer EXCEPT ![p].at = "live", ![p].boot = <<>>]
    /\ UNCHANGED <<backed, updates, lock, handler, awareness, aged, reads, lost>>

\* The write loop and the client's receipt.
Deliver(p) ==
    /\ peer[p].at = "live" /\ ~peer[p].done /\ peer[p].queue # <<>>
    /\ client' = [client EXCEPT ![p] = Heard(@, Head(peer[p].queue))]
    /\ peer' = [peer EXCEPT ![p].queue = Tail(@)]
    /\ UNCHANGED <<backed, updates, lock, handler, awareness, aged, reads, lost>>

\* rememberYJSAwarenessTombstone: at the cap the oldest makes room.
Remember(a, c, n) ==
    LET full == c \notin ToSet(a.aged) /\ Len(a.aged) >= MaxTombstones
        aw   == IF full THEN [a.awareness EXCEPT ![Head(a.aged)] = Unknown] ELSE a.awareness
        kept == IF full THEN Tail(a.aged) ELSE SelectSeq(a.aged, LAMBDA x : x # c)
    IN  [awareness |-> [aw EXCEPT ![c] = [@ EXCEPT !.st = "removed", !.clock = n]],
         aged      |-> Append(kept, c),
         evicted   |-> a.evicted \cup (IF full THEN {Head(a.aged)} ELSE {})]

Presence == [awareness |-> awareness, aged |-> aged, evicted |-> lost.tombstones]

\* The mutated form: a leaving peer's presence is dropped without a word.
RemovedQuietly(p) ==
    LET owned == SetToSeq({c \in Active : awareness[c].owner = p})
    IN  [presence |-> FoldLeft(LAMBDA a, c : Remember(a, c, awareness[c].clock), Presence, owned),
         nulls    |-> <<>>]

\* YJSRoom.remove: what the connection owned becomes a tombstone of the same
\* clock, and a null of that clock is broadcast.
Removed(p) ==
    LET owned == SetToSeq({c \in Active : awareness[c].owner = p})
    IN  [presence |-> FoldLeft(LAMBDA a, c : Remember(a, c, awareness[c].clock), Presence, owned),
         nulls    |-> [i \in 1..Len(owned) |->
                          Aware(owned[i], awareness[owned[i]].clock, FALSE)]]

\* The read loop returned: the client left, the queue was closed, a message was
\* refused, the subscription was not renewed, or the greeting failed.
Leave(p) ==
    /\ peer[p].at \in {"joined", "live"}
    /\ handler[p] = Rest /\ lock # p
    /\ LET r == Removed(p)
       IN  /\ awareness' = r.presence.awareness
           /\ aged' = r.presence.aged
           /\ lost' = [lost EXCEPT !.tombstones = r.presence.evicted]
           /\ handler' = [handler EXCEPT ![p].todo = r.nulls]
    /\ peer' = [peer EXCEPT ![p].at = "gone", ![p].member = FALSE, ![p].done = TRUE,
                            ![p].queue = <<>>, ![p].boot = <<>>]
    /\ UNCHANGED <<backed, updates, lock, client, reads>>

(***************************************************************************)
(* broadcast: the table is copied under mu, then each queue is offered the *)
(* message; a full one closes its subscriber.                              *)
(***************************************************************************)
Cast(h) ==
    /\ handler[h].todo # <<>> /\ ~handler[h].casting
    /\ handler' = [handler EXCEPT ![h].casting = TRUE,
                                  ![h].to = {p \in Peer : peer[p].member}]
    /\ UNCHANGED <<backed, updates, lock, peer, awareness, aged, client, reads, lost>>

Offer(h, p) ==
    /\ p \in handler[h].to
    /\ LET fits == ~peer[p].done /\ Len(peer[p].queue) < MaxQueued
       IN  peer' = [peer EXCEPT ![p] =
              IF fits THEN [@ EXCEPT !.queue = Append(@, Head(handler[h].todo))]
              ELSE [@ EXCEPT !.done = TRUE, !.member = FALSE]]
    /\ handler' = [handler EXCEPT ![h].to = @ \ {p}]
    /\ UNCHANGED <<backed, updates, lock, awareness, aged, client, reads, lost>>

Sent(h) ==
    /\ handler[h].casting /\ handler[h].to = {}
    /\ LET rest == Tail(handler[h].todo)
       IN  /\ handler' = [handler EXCEPT ![h] = [Rest EXCEPT !.todo = rest]]
           /\ lock' = IF lock = h /\ rest = <<>> THEN Free ELSE lock
    /\ UNCHANGED <<backed, updates, peer, awareness, aged, client, reads, lost>>

(***************************************************************************)
(* The read loop of a connection, one message at a time.                   *)
(***************************************************************************)
Reads(p) ==
    /\ IF p = Agent THEN backed ELSE peer[p].at = "live" /\ ~peer[p].done
    /\ handler[p] = Rest
    /\ reads < MaxReads
    /\ reads' = reads + 1

\* A refused message ends the read loop.
Refuse(p) ==
    IF p = Agent THEN peer ELSE [peer EXCEPT ![p].done = TRUE]

Authored(p, u) ==
    IF p = Agent THEN client ELSE [client EXCEPT ![p].has = @ \cup {u}]

\* appendUpdateContext without a store: a repeated update is broadcast again,
\* a full history refuses.
AppendUpdate(p, u) ==
    /\ ~backed /\ Reads(p)
    /\ client' = Authored(p, u)
    /\ IF u \in updates \/ Cardinality(updates) < MaxUpdates
         THEN /\ updates' = updates \cup {u}
              /\ handler' = [handler EXCEPT ![p].todo = <<Doc({u})>>]
              /\ UNCHANGED peer
         ELSE /\ peer' = Refuse(p)
              /\ UNCHANGED <<updates, handler>>
    /\ UNCHANGED <<backed, lock, awareness, aged, lost>>

\* The mutated form: the fan-out does not wait for the store's answer.
FanOutAlways(u, applied, answered) == <<Doc({u})>>

\* Only an update the store reports as newly applied is fanned out.
FanOut(u, applied, answered) ==
    IF answered /\ applied /\ u \notin updates THEN <<Doc({u})>> ELSE <<>>

\* applyStoreUpdate, for a connection or the agent's Publish: storeMu is held
\* over the call and the fan-out.  A call may fail before or after it took
\* effect.
ApplyStoreUpdate(p, u) ==
    /\ backed /\ lock = Free /\ Reads(p)
    /\ client' = Authored(p, u)
    /\ \E applied, answered \in BOOLEAN :
          /\ answered => applied
          /\ updates' = IF applied THEN updates \cup {u} ELSE updates
          /\ lost' = [lost EXCEPT !.answers =
                        IF applied /\ ~answered /\ u \notin updates THEN @ \cup {u} ELSE @]
          /\ LET out == FanOut(u, applied, answered)
             IN  /\ handler' = [handler EXCEPT ![p].todo = out]
                 /\ lock' = IF out = <<>> THEN Free ELSE p
          /\ peer' = IF answered THEN peer ELSE Refuse(p)
    /\ UNCHANGED <<backed, awareness, aged>>

\* A client's sync step 1.  The vector is the client's document when it sent it,
\* so the store's difference is at least what the client lacks.
ReplyDiff(p) ==
    /\ Reads(p)
    /\ peer' = IF Len(peer[p].queue) >= MaxQueued THEN Refuse(p)
               ELSE [peer EXCEPT ![p].synced = backed,
                       ![p].queue = Append(@, Doc(IF backed THEN updates \ client[p].has
                                                  ELSE {}))]
    /\ backed => lock = Free
    /\ UNCHANGED <<backed, updates, lock, handler, awareness, aged, client, lost>>

\* An awareness query: awarenessMessages copies every active entry under mu ...
QueryAwareness(p) ==
    /\ Reads(p)
    /\ handler' = [handler EXCEPT ![p].reply =
                      {Aware(c, awareness[c].clock, TRUE) : c \in Active}]
    /\ UNCHANGED <<backed, updates, lock, peer, awareness, aged, client, lost>>

\* ... and they are queued one by one without it, in no particular order, while
\* others may broadcast newer states of the same clients.
Reply(p, m) ==
    /\ m \in handler[p].reply
    /\ LET fits == ~peer[p].done /\ Len(peer[p].queue) < MaxQueued
       IN  /\ peer' = IF fits THEN [peer EXCEPT ![p].queue = Append(@, m)] ELSE Refuse(p)
           /\ handler' = [handler EXCEPT ![p].reply = IF fits THEN @ \ {m} ELSE {}]
    /\ UNCHANGED <<backed, updates, lock, awareness, aged, client, reads, lost>>

\* applyAwarenessFrom: stale and repeated entries are skipped, then a known
\* client's entry must come from the connection that owns it.
ApplyAwareness(p, m) ==
    LET known   == awareness[m.client]
        active  == known.st = "active"
        removed == known.st = "removed"
        stale   == \/ m.clock < known.clock
                   \/ m.clock = known.clock /\ m.on
                   \/ ~active /\ ~removed /\ m.clock = 0
        refused == \/ known.st # "none" /\ known.owner # p
                   \/ m.on /\ ~active /\ Cardinality(Active) >= MaxClients
        ignored == ~m.on /\ ~active /\ (removed => m.clock = known.clock)
        next    == IF m.on
                   THEN [Presence EXCEPT
                           !.awareness[m.client] = [st |-> "active", clock |-> m.clock, owner |-> p],
                           !.aged = SelectSeq(@, LAMBDA x : x # m.client)]
                   ELSE Remember(Presence, m.client, m.clock)
    IN  IF stale \/ (~refused /\ ignored)
        THEN UNCHANGED <<peer, handler, awareness, aged, lost>>
        ELSE IF refused
        THEN /\ peer' = Refuse(p)
             /\ UNCHANGED <<handler, awareness, aged, lost>>
        ELSE /\ awareness' = next.awareness
             /\ aged' = next.aged
             /\ lost' = [lost EXCEPT !.tombstones = next.evicted]
             /\ handler' = [handler EXCEPT ![p].todo = <<m>>]
             /\ UNCHANGED peer

\* A client announces its own next state ...
Announce(p, on) ==
    /\ Reads(p)
    /\ on \/ client[p].view[p].on
    /\ LET n == client[p].view[p].clock + 1
       IN  /\ client' = [client EXCEPT ![p].view[p] = [clock |-> n, on |-> on]]
           /\ ApplyAwareness(p, Aware(p, n, on))
    /\ UNCHANGED <<backed, updates, lock>>

\* ... or forwards an entry it was sent, as y-websocket does.
Forward(p, c) ==
    /\ Reads(p)
    /\ c # p /\ client[p].view[c].clock > 0
    /\ ApplyAwareness(p, Aware(c, client[p].view[c].clock, client[p].view[c].on))
    /\ UNCHANGED <<backed, updates, lock, client>>

Next ==
    \/ \E p \in Peer :
          \/ Bootstrap(p) \/ Greet(p) \/ Deliver(p) \/ Leave(p)
          \/ ReplyDiff(p) \/ QueryAwareness(p)
          \/ \E m \in handler[p].reply : Reply(p, m)
          \/ \E u \in Update : AppendUpdate(p, u)
          \/ \E on \in BOOLEAN : Announce(p, on)
          \/ \E c \in Peer : Forward(p, c)
    \/ \E h \in Peer \cup {Agent} :
          \/ Cast(h) \/ Sent(h)
          \/ \E p \in Peer : Offer(h, p)
          \/ \E u \in Update : ApplyStoreUpdate(h, u)

Spec == Init /\ [][Next]_vars

-----------------------------------------------------------------------------
Queued(p) == UNION {m.updates : m \in {x \in ToSet(peer[p].queue) : x.type = "doc"}}

\* A broadcast of u that has still to reach p's queue.
OnItsWay(u, p) ==
    \E h \in Peer \cup {Agent} : \E i \in 1..Len(handler[h].todo) :
        /\ handler[h].todo[i].type = "doc" /\ u \in handler[h].todo[i].updates
        /\ i = 1 /\ handler[h].casting => p \in handler[h].to

\* Every connected client has, or will be sent on this connection, every update
\* the room retains: those from before it joined by the bootstrap or the
\* state-vector handshake, later ones by the fan-out; an update the store took
\* without the room learning of it is excepted.  And nothing is sent to a client
\* that the room or the store does not hold.
NoUpdateMissed ==
    \A p \in Peer :
        /\ Queued(p) \subseteq updates
        /\ peer[p].at = "live" /\ ~peer[p].done =>
              \A u \in updates \ lost.answers :
                  \/ u \in client[p].has \cup Queued(p)
                  \/ OnItsWay(u, p)
                  \/ backed /\ ~peer[p].synced /\ u \in peer[p].before

\* Once nothing is on its way to a connected client, the presence it shows for
\* the others is the room's: nobody who left is still shown, nobody present is
\* missing, and no forwarded entry brought a state back.  Clients whose
\* tombstone was evicted at the cap are excepted.
PresenceSettled ==
    \A p \in Peer :
        /\ peer[p].at = "live" /\ ~peer[p].done /\ peer[p].queue = <<>>
        /\ handler[p].reply = {} /\ \A h \in Peer : handler[h].todo = <<>>
        => \A c \in Peer \ ({p} \cup lost.tombstones) :
              /\ client[p].view[c].on <=> c \in Active
              /\ c \in Active => client[p].view[c].clock = awareness[c].clock
=============================================================================

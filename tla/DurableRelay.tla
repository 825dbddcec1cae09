----------------------------- MODULE DurableRelay ---------------------------
(***************************************************************************)
(* The durable relay (durable/store.go, handler.go, client.go): one group, *)
(* its committed log, the WebSocket handler that appends and fans out, and *)
(* the reconnecting clients with the hosts behind them.                    *)
(*                                                                         *)
(* A change is a record [actor, counter, payload]; an event is a position  *)
(* of the log, which has one HLC identity.  A client's session uses the    *)
(* cursor protocol (v1), the state-vector protocol (v2) or the Merkle      *)
(* protocol (v3).  The catch-up of the last two ends with a Complete       *)
(* marker; that of v3 starts with an exchange of inventory and request. A  *)
(* Merkle root stands for the set of events it commits to.                 *)
(*                                                                         *)
(* Group.publish and Group.subscribe hold group.mu, so an append with its  *)
(* fan-out is one step, and so is a replay with the registration of the    *)
(* peer.  Bytes between the two processes are the sequences `pipe' (to the *)
(* client) and `up' (to the server).  Connections break, processes crash,  *)
(* and the server may still read what a dead connection had delivered.     *)
(***************************************************************************)
EXTENDS Integers, Sequences, FiniteSets, SequencesExt

CONSTANTS Client,
          Scenario,    \* protocols, the log at the start, the changes of the hosts
          MaxEvents,   \* store.maxEvents
          MaxQueue,    \* limits.maxQueuedEvents of a server peer
          MaxReplay,   \* limits.maxReplayEvents
          MaxLeaves,   \* limits.maxMerkleLeaves
          MaxOutbound, \* limits.maxQueued of a client
          MaxWire      \* changes the connection to the server can hold

ASSUME RelayAssumption ==
    {MaxEvents, MaxQueue, MaxReplay, MaxLeaves, MaxOutbound, MaxWire} \subseteq Nat \ {0}

VARIABLES mode,       \* the protocol of each client: "cursor", "vector" or "merkle"
          log,        \* committed events, in sequence order
          sub,        \* clients whose peer is in group.peers
          queue,      \* peer.outbound
          pipe,       \* events on their way to the client
          up,         \* changes on their way to the server
          stale,      \* changes the server may still read from a dead connection
          link,       \* the client has a session
          stage,      \* of a Merkle handshake: "none", "inventory" or "request" is sent
          caught,     \* catchUpComplete
          high,       \* highWater of the session's welcome
          writer,     \* writerStarted
          cursor,     \* client.cursor
          memory,     \* client.pending followed by client.outbound
          run,        \* Run is "on", or returned because it is "unavailable" to
                      \* bring the client up to date, or of an "invalid" message
          installed,  \* changes the host durably installed
          resume,     \* the cursor the host durably recorded
          outbox      \* changes the host has not seen committed

server == <<log, sub, queue>>
wire == <<pipe, up, stale>>
session == <<link, stage, caught, high, writer>>
client == <<cursor, memory, run>>
host == <<installed, resume, outbox>>
vars == <<mode, server, wire, session, client, host>>

Change == UNION {s.own[c] : s \in Scenario, c \in Client}
Complete == 0

All(v) == [c \in Client |-> v]

Init ==
    /\ \E s \in Scenario : mode = s.mode /\ log = s.log /\ outbox = s.own
    /\ sub = {} /\ queue = All(<<>>)
    /\ pipe = All(<<>>) /\ up = All(<<>>) /\ stale = All(<<>>)
    /\ link = All(FALSE) /\ stage = All("none") /\ caught = All(FALSE)
    /\ high = All(0) /\ writer = All(FALSE)
    /\ cursor = All(0) /\ memory = All(<<>>) /\ run = All("on")
    /\ installed = All({}) /\ resume = All(0)

----------------------------------------------------------------------------
(* The server.                                                             *)

SameDot(x, y) == x.actor = y.actor /\ x.counter = y.counter

\* Append of a change whose dot is not bound yet, below the store's capacity.
AppendNew(x) ==
    /\ ~ \E n \in DOMAIN log : SameDot(log[n], x)
    /\ Len(log) < MaxEvents
    /\ log' = Append(log, x)

\* Mutated form: a peer whose queue is full misses the event and stays.
FanOutDrops(n) ==
    /\ queue' = [c \in Client |-> IF c \in sub /\ Len(queue[c]) < MaxQueue
                                  THEN Append(queue[c], n) ELSE queue[c]]
    /\ UNCHANGED sub

\* enqueue for every peer; a peer whose queue is full is closed and removed.
FanOut(n) ==
    /\ sub' = {c \in sub : Len(queue[c]) < MaxQueue}
    /\ queue' = [c \in Client |-> IF c \in sub' THEN Append(queue[c], n) ELSE <<>>]

\* publish of x, read from the connection of c: append and fan out; nothing for
\* a duplicate; or an error (conflicting dot, store full), which closes the
\* connection it came from.
Publish(c, x) ==
    \/ AppendNew(x) /\ FanOut(Len(log) + 1)
    \/ /\ \E n \in DOMAIN log : log[n] = x
       /\ UNCHANGED server
    \/ /\ ~ \E n \in DOMAIN log : log[n] = x
       /\ Len(log) = MaxEvents \/ \E n \in DOMAIN log : SameDot(log[n], x)
       /\ sub' = sub \ {c}
       /\ queue' = [queue EXCEPT ![c] = <<>>]
       /\ UNCHANGED log

\* readLoop on the live connection, or on the remains of a dead one.
ServerRead(c) ==
    /\ up[c] # <<>> /\ c \in sub
    /\ Publish(c, Head(up[c]))
    /\ up' = [up EXCEPT ![c] = Tail(@)]
    /\ UNCHANGED <<mode, pipe, stale, session, client, host>>

ServerReadStale(c) ==
    /\ stale[c] # <<>>
    /\ Publish(c, Head(stale[c]))
    /\ stale' = [stale EXCEPT ![c] = Tail(@)]
    /\ UNCHANGED <<mode, pipe, up, session, client, host>>

\* writeLoop moves one queued event to the connection, once the handshake is over.
ServerWrite(c) ==
    /\ c \in sub /\ queue[c] # <<>> /\ stage[c] = "none"
    /\ pipe' = [pipe EXCEPT ![c] = Append(@, Head(queue[c]))]
    /\ queue' = [queue EXCEPT ![c] = Tail(@)]
    /\ UNCHANGED <<mode, log, sub, up, stale, session, client, host>>

\* The relay process restarts over the same store.
ServerRestart ==
    /\ sub # {}
    /\ sub' = {}
    /\ queue' = All(<<>>)
    /\ stale' = All(<<>>)
    /\ UNCHANGED <<mode, log, pipe, up, session, client, host>>

----------------------------------------------------------------------------
(* The client and its host.                                                *)

\* The contiguous frontier of actor a in a set of changes.
Frontier(a, xs) ==
    LET has(n) == \E x \in xs : x.actor = a /\ x.counter = n
        ns == {n \in 0..Cardinality(xs) : \A k \in 1..n : has(k)}
    IN  CHOOSE n \in ns : \A k \in ns : k <= n

Suffix(n) == [i \in 1..(Len(log) - n) |-> n + i]

\* Store.Replay after position n: the complete suffix.
Replay(n) ==
    IF n <= Len(log) /\ Len(log) - n <= MaxReplay THEN {Suffix(n)} ELSE {}

\* Mutated form: what exceeds the replay window is cut off.
CatchUpTruncated(xs) ==
    LET missing == {n \in DOMAIN log : log[n].counter > Frontier(log[n].actor, xs)}
        events == SetToSortSeq(missing, LAMBDA m, n : m < n)
    IN  {SubSeq(events, 1, IF Len(events) > MaxReplay THEN MaxReplay ELSE Len(events))}

\* Store.CatchUp for the vector of a host that installed xs: every event the
\* vector does not cover, by sequence.  (A host installs only committed
\* changes, so its vector is never ahead of the store's actor maxima.)
CatchUp(xs) ==
    LET missing == {n \in DOMAIN log : log[n].counter > Frontier(log[n].actor, xs)}
    IN  IF Cardinality(missing) > MaxReplay THEN {}
        ELSE {SetToSortSeq(missing, LAMBDA m, n : m < n)}

\* What the group answers to a subscription: the missing events, or nothing
\* when the client is too far behind or ahead.
Replays(c) == IF mode[c] = "vector" THEN CatchUp(installed[c]) ELSE Replay(cursor[c])

\* The events of the log's first n that the index of c's host does not hold
\* (MerkleIndex.Reconcile; hosts hold nothing that the log does not).
Missing(c, n) == {m \in 1..n : log[m] \notin installed[c]}

\* Store.MerkleSnapshot: the inventory of the whole log, or nothing when it is
\* larger than the limit.
MerkleSnapshot == IF Len(log) > MaxLeaves THEN {} ELSE {Len(log)}

\* subscribe registers the peer under the group's lock, together with the
\* replay; ServeHTTP then writes the replay and, to a state-vector client, the
\* end of the catch-up.  Live events wait in the queue until that is done.
Subscribe(c, events) ==
    /\ sub' = sub \cup {c}
    /\ queue' = [queue EXCEPT ![c] = <<>>]
    /\ pipe' = [pipe EXCEPT ![c] = IF mode[c] = "vector" THEN Append(events, Complete)
                                                         ELSE events]
    /\ stage' = [stage EXCEPT ![c] = "none"]
    /\ UNCHANGED log

\* subscribeMerkle registers the peer together with the snapshot; ServeHTTP then
\* answers equal roots with the end of the catch-up and others with the inventory.
SubscribeMerkle(c, n) ==
    /\ sub' = sub \cup {c}
    /\ queue' = [queue EXCEPT ![c] = <<>>]
    /\ pipe' = [pipe EXCEPT ![c] = IF Missing(c, n) = {} THEN <<Complete>> ELSE <<>>]
    /\ stage' = [stage EXCEPT ![c] = IF Missing(c, n) = {} THEN "none" ELSE "inventory"]
    /\ UNCHANGED log

\* runSession up to the welcome and the client's tests of it.
Welcomed(c) ==
    /\ up' = [up EXCEPT ![c] = <<>>]
    /\ link' = [link EXCEPT ![c] = TRUE]
    /\ caught' = [caught EXCEPT ![c] = mode[c] = "cursor"]
    /\ high' = [high EXCEPT ![c] = Len(log)]
    /\ writer' = [writer EXCEPT ![c] = mode[c] # "merkle" /\ cursor[c] = Len(log)]
    /\ UNCHANGED <<mode, stale, client, host>>

Unavailable(c) ==
    /\ run' = [run EXCEPT ![c] = "unavailable"]
    /\ UNCHANGED <<mode, server, wire, session, cursor, memory, host>>

Connect(c) ==
    /\ mode[c] # "merkle" /\ ~link[c] /\ run[c] = "on"
    /\ \/ (Replays(c) = {} \/ cursor[c] > Len(log)) /\ Unavailable(c)
       \/ /\ cursor[c] <= Len(log)
          /\ \E events \in Replays(c) : Subscribe(c, events)
          /\ Welcomed(c)

ConnectMerkle(c) ==
    /\ mode[c] = "merkle" /\ ~link[c] /\ run[c] = "on"
    /\ \/ (MerkleSnapshot = {} \/ cursor[c] > Len(log)) /\ Unavailable(c)
       \/ /\ cursor[c] <= Len(log)
          /\ \E n \in MerkleSnapshot : SubscribeMerkle(c, n)
          /\ Welcomed(c)

\* The connection is lost after it was made and before the welcome was read: Run
\* takes that for an invalid message and returns.
HandshakeFails(c) ==
    /\ ~link[c] /\ run[c] = "on"
    /\ run' = [run EXCEPT ![c] = "invalid"]
    /\ UNCHANGED <<mode, server, wire, session, cursor, memory, host>>

\* runMerkleSession: the client asks for what its inventory lacks.
RequestMerkle(c) ==
    /\ link[c] /\ stage[c] = "inventory"
    /\ stage' = [stage EXCEPT ![c] = "request"]
    /\ UNCHANGED <<mode, server, wire, link, caught, high, writer, client, host>>

\* The handler reads the request and sends the events of Store.MerkleEvents and
\* the end of the catch-up; a request over the replay window closes the connection.
AnswerMerkle(c) ==
    /\ c \in sub /\ stage[c] = "request"
    /\ LET missing == Missing(c, high[c]) IN
       IF Cardinality(missing) > MaxReplay
       THEN /\ sub' = sub \ {c}
            /\ queue' = [queue EXCEPT ![c] = <<>>]
            /\ UNCHANGED <<pipe, stage>>
       ELSE /\ pipe' = [pipe EXCEPT ![c] =
                          Append(SetToSortSeq(missing, LAMBDA m, n : m < n), Complete)]
            /\ stage' = [stage EXCEPT ![c] = "none"]
            /\ UNCHANGED <<sub, queue>>
    /\ UNCHANGED <<mode, log, up, stale, link, caught, high, writer, client, host>>

\* The host's transaction in OnEvent: state, cursor and outbox together.
InstallEvent(c, n) ==
    /\ installed' = [installed EXCEPT ![c] = @ \cup {log[n]}]
    /\ resume' = [resume EXCEPT ![c] = n]
    /\ outbox' = [outbox EXCEPT ![c] = @ \ {log[n]}]

\* The session is over: what was on the wire to the client is lost, and the
\* server may or may not still read what was on the wire to it.
Hangup(c) ==
    /\ link' = [link EXCEPT ![c] = FALSE]
    /\ stage' = [stage EXCEPT ![c] = "none"]
    /\ caught' = [caught EXCEPT ![c] = FALSE]
    /\ high' = [high EXCEPT ![c] = 0]
    /\ writer' = [writer EXCEPT ![c] = FALSE]
    /\ pipe' = [pipe EXCEPT ![c] = <<>>]
    /\ up' = [up EXCEPT ![c] = <<>>]
    /\ \/ stale' = [stale EXCEPT ![c] = <<>>]
       \/ stale' = [stale EXCEPT ![c] = up[c]]
    /\ sub' = sub \ {c}
    /\ queue' = [queue EXCEPT ![c] = <<>>]
    /\ UNCHANGED <<mode, log>>

\* A live event that does not follow the cursor ends Run.
OutOfOrder(c, n) == caught[c] /\ n # cursor[c] + 1

\* Mutated form: the writer starts with the first event of the replay.
ReplayedFirst(c, n) == mode[c] = "cursor"

\* The end of the replay of the cursor protocol, which starts the writer.
Replayed(c, n) == mode[c] = "cursor" /\ n = high[c]

\* An event arrives: OnEvent succeeds, unless a sequence gap ends Run with
\* ErrReplayUnavailable first.
Receive(c) ==
    /\ link[c] /\ pipe[c] # <<>> /\ Head(pipe[c]) # Complete
    /\ LET n == Head(pipe[c]) IN
       IF OutOfOrder(c, n)
       THEN /\ run' = [run EXCEPT ![c] = "unavailable"]
            /\ Hangup(c)
            /\ UNCHANGED <<cursor, memory, host>>
       ELSE /\ InstallEvent(c, n)
            /\ cursor' = IF caught[c] THEN [cursor EXCEPT ![c] = n] ELSE cursor
            /\ writer' = [writer EXCEPT ![c] = @ \/ Replayed(c, n)]
            /\ pipe' = [pipe EXCEPT ![c] = Tail(@)]
            /\ UNCHANGED <<mode, server, up, stale, link, stage, caught, high, memory, run>>

\* The catch-up is complete and OnCatchUp or OnMerkleCatchUp succeeds; a Merkle
\* client first compares its root with that of the boundary.
ReceiveComplete(c) ==
    /\ link[c] /\ pipe[c] # <<>> /\ Head(pipe[c]) = Complete
    /\ IF mode[c] = "merkle" /\ Missing(c, high[c]) # {}
       THEN /\ run' = [run EXCEPT ![c] = "unavailable"]
            /\ Hangup(c)
            /\ UNCHANGED <<cursor, memory, host>>
       ELSE /\ resume' = [resume EXCEPT ![c] = high[c]]
            /\ cursor' = [cursor EXCEPT ![c] = high[c]]
            /\ caught' = [caught EXCEPT ![c] = TRUE]
            /\ writer' = [writer EXCEPT ![c] = TRUE]
            /\ pipe' = [pipe EXCEPT ![c] = Tail(@)]
            /\ UNCHANGED <<mode, server, up, stale, link, stage, high, memory, run,
                            installed, outbox>>

\* OnEvent fails, with or without its transaction having been committed.
ReceiveFails(c) ==
    /\ link[c] /\ pipe[c] # <<>> /\ Head(pipe[c]) # Complete
    /\ ~OutOfOrder(c, Head(pipe[c]))
    /\ UNCHANGED host \/ InstallEvent(c, Head(pipe[c]))
    /\ Hangup(c)
    /\ UNCHANGED client

\* OnCatchUp or OnMerkleCatchUp fails, with or without having recorded the boundary.
CatchUpFails(c) ==
    /\ link[c] /\ pipe[c] # <<>> /\ Head(pipe[c]) = Complete
    /\ mode[c] = "merkle" => Missing(c, high[c]) = {}
    /\ resume' = resume \/ resume' = [resume EXCEPT ![c] = high[c]]
    /\ Hangup(c)
    /\ UNCHANGED <<client, installed, outbox>>

\* The connection breaks (read error, write error with restore, heartbeat).  A read
\* that fails during a Merkle catch-up is taken for an invalid message.
Disconnect(c) ==
    /\ link[c]
    /\ Hangup(c)
    /\ \/ mode[c] = "merkle" /\ ~caught[c] /\ run' = [run EXCEPT ![c] = "invalid"]
       \/ (mode[c] # "merkle" \/ caught[c] \/ stage[c] = "inventory") /\ UNCHANGED run
    /\ UNCHANGED <<cursor, memory, host>>

\* The host hands an unsettled change to Publish; a full queue refuses it.
Submit(c, x) ==
    /\ x \in outbox[c] /\ run[c] # "unavailable"
    /\ ~ \E i \in DOMAIN memory[c] : memory[c][i] = x
    /\ Len(memory[c]) < MaxOutbound
    /\ memory' = [memory EXCEPT ![c] = Append(@, x)]
    /\ UNCHANGED <<mode, server, wire, session, cursor, run, host>>

\* writeLoop sends the next change.
ClientWrite(c) ==
    /\ link[c] /\ writer[c] /\ memory[c] # <<>> /\ Len(up[c]) < MaxWire
    /\ up' = [up EXCEPT ![c] = Append(@, Head(memory[c]))]
    /\ memory' = [memory EXCEPT ![c] = Tail(@)]
    /\ UNCHANGED <<mode, server, pipe, stale, session, cursor, run, host>>

\* The client process dies and starts again from what its host stored.
ClientRestart(c) ==
    /\ Hangup(c)
    /\ cursor' = [cursor EXCEPT ![c] = resume[c]]
    /\ memory' = [memory EXCEPT ![c] = <<>>]
    /\ run' = [run EXCEPT ![c] = IF @ = "invalid" THEN "on" ELSE @]
    /\ UNCHANGED host

\* The host calls Run again after it returned for an invalid message.
RunAgain(c) ==
    /\ run[c] = "invalid"
    /\ run' = [run EXCEPT ![c] = "on"]
    /\ UNCHANGED <<mode, server, wire, session, cursor, memory, host>>

\* After ErrReplayUnavailable or ErrAntiEntropyUnavailable the host installs a
\* validated checkpoint of the whole log and starts a new client.
Bootstrap(c) ==
    /\ run[c] = "unavailable"
    /\ installed' = [installed EXCEPT ![c] = @ \cup ToSet(log)]
    /\ outbox' = [outbox EXCEPT ![c] = @ \ ToSet(log)]
    /\ resume' = [resume EXCEPT ![c] = Len(log)]
    /\ cursor' = [cursor EXCEPT ![c] = Len(log)]
    /\ memory' = [memory EXCEPT ![c] = <<>>]
    /\ run' = [run EXCEPT ![c] = "on"]
    /\ UNCHANGED <<mode, server, wire, session>>

Next ==
    \/ \E c \in Client :
          \/ ServerRead(c) \/ ServerReadStale(c) \/ ServerWrite(c)
          \/ Connect(c) \/ ConnectMerkle(c) \/ HandshakeFails(c)
          \/ RequestMerkle(c) \/ AnswerMerkle(c) \/ Receive(c)
          \/ ReceiveComplete(c) \/ ReceiveFails(c) \/ CatchUpFails(c) \/ Disconnect(c)
          \/ ClientWrite(c) \/ ClientRestart(c) \/ RunAgain(c) \/ Bootstrap(c)
          \/ \E x \in Change : Submit(c, x)
    \/ ServerRestart

Spec == Init /\ [][Next]_vars

----------------------------------------------------------------------------

(* The group's log binds a dot once: a change that is retried, read late    *)
(* from a dead connection or produced twice with different content never   *)
(* makes a second event (Store.Append).                                    *)
DotsOnce ==
    \A m, n \in DOMAIN log : SameDot(log[m], log[n]) => m = n

(* Everything up to the cursor a host recorded is installed at that host:  *)
(* no overflow, disconnect, crash, partial catch-up or bootstrap makes a   *)
(* client resume behind an event it never saw (ReconnectClient.runSession).*)
ResumeCovered ==
    \A c \in Client : \A n \in 1..resume[c] : log[n] \in installed[c]

(* What is on its way to a client whose peer is registered continues its    *)
(* cursor without a gap up to the end of the log: nothing committed between *)
(* the replay and the live events is missed (Group.subscribe and publish). *)
StreamContiguous ==
    \A c \in sub : link[c] /\ caught[c] => pipe[c] \o queue[c] = Suffix(cursor[c])

(* While a client catches up by state vector or Merkle inventory, all that *)
(* its host lacks is on its way, in the queue or still to be requested     *)
(* (Store.CatchUp, Store.MerkleEvents, Group.subscribeMerkle).             *)
CatchUpCovers ==
    \A c \in sub : link[c] /\ ~caught[c] =>
        Missing(c, Len(log)) \subseteq
            ToSet(pipe[c] \o queue[c]) \cup (IF stage[c] = "none" THEN {} ELSE 1..high[c])

(* The four together: one event per dot, and no client is past an event    *)
(* that it does not have and will not be sent (Store.Append and Replay,    *)
(* Group.subscribe, ReconnectClient.runSession).                           *)
StreamsComplete == DotsOnce /\ ResumeCovered /\ StreamContiguous /\ CatchUpCovers

(* A client sends changes of its host only once the host has installed all  *)
(* that the log held when the session was welcomed, in each protocol and   *)
(* after whatever restarts, failed callbacks and bootstraps                *)
(* (ReconnectClient.runSession and runMerkleSession, startWriter).         *)
WritesAfterReplay ==
    \A c \in Client : writer[c] => Missing(c, high[c]) = {}

----------------------------------------------------------------------------
(* Liveness.  The servers and clients keep running; a client reconnects    *)
(* with backoff for ever (Run), and its host submits what is unsettled and *)
(* calls Run again when it returned for an invalid message.                *)

Fairness ==
    \A c \in Client :
       /\ WF_vars(ServerRead(c)) /\ WF_vars(ServerWrite(c))
       /\ WF_vars(Connect(c)) /\ WF_vars(ConnectMerkle(c)) /\ WF_vars(RunAgain(c))
       /\ WF_vars(RequestMerkle(c)) /\ WF_vars(AnswerMerkle(c))
       /\ WF_vars(Receive(c)) /\ WF_vars(ReceiveComplete(c)) /\ WF_vars(ClientWrite(c))
       /\ WF_vars(Bootstrap(c)) /\ \A x \in Change : WF_vars(Submit(c, x))
       /\ WF_vars(c \notin sub /\ Disconnect(c))

Faults ==
    \/ ServerRestart
    \/ \E c \in Client : (c \in sub /\ Disconnect(c)) \/ ReceiveFails(c) \/ ClientRestart(c)
                        \/ HandshakeFails(c) \/ CatchUpFails(c)

LiveSpec == Spec /\ Fairness /\ <>[][~Faults]_vars

\* A host holds a change whose dot the log has bound to other content.
Conflict ==
    \E c \in Client : \E x \in outbox[c] :
        \E n \in DOMAIN log : SameDot(log[n], x) /\ log[n] # x

\* A Merkle client is beyond the limits of the handler: the inventory is larger
\* than maxMerkleLeaves, or it lacks more events than maxReplayEvents.
Stranded ==
    \E c \in Client : mode[c] = "merkle" /\ (\/ Len(log) > MaxLeaves
                                             \/ Cardinality(Missing(c, Len(log))) > MaxReplay)

(* Once connections and processes stop failing, every change is committed  *)
(* and every host has settled its outbox and installed every change,       *)
(* whatever was lost before; unless two hosts bound one dot to different   *)
(* content, which the relay refuses for ever (Store.Append), or a Merkle   *)
(* client is beyond the limits of the handler.                             *)
EventuallySettled ==
    \/ <>[]Conflict
    \/ <>[]Stranded
    \/ <>[](\A c \in Client : outbox[c] = {} /\ installed[c] = ToSet(log))
=============================================================================

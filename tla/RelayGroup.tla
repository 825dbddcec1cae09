----------------------------- MODULE RelayGroup -----------------------------
(***************************************************************************)
(* One live group of the provider extensions (extensions/group.go): the    *)
(* handlers of its WebSocket, event-stream and gRPC subscribers, their     *)
(* bounded queues, and the clients at the other end.  The receive lock     *)
(* serialises what the inbox accepts with its broadcast; joining a group   *)
(* takes only the lock of the peer table.  WebSocket and gRPC clients      *)
(* publish over the connection they subscribe with, HTTP clients with a    *)
(* request of its own.                                                     *)
(***************************************************************************)
EXTENDS Naturals, Sequences, SequencesExt, FiniteSets

CONSTANTS
    Peer,           \* connections that may be made
    Transport,      \* "websocket", "batch" (its batch subprotocol), "events", "grpc"
    Change,         \* change envelopes, named by their encoded size
    MaxMessages,    \* MaxQueuedMessages
    MaxBytes,       \* MaxQueuedBytes
    MaxBatch,       \* MaxBatchChanges
    MaxFailures,    \* bound: broken connections and failed applications
    MaxPublishes    \* bound: calls of Publish and PublishBatch

VARIABLES
    kind,       \* the transport of each peer
    log,        \* ghost: the changes the inbox accepted, in order
    rx,         \* the holder of Group.receiveMu
    peer,       \* subscribers and their handlers
    client,     \* the clients: what is on the wire either way, and what was applied
    from,       \* ghost: by peer, how many changes were accepted before it joined
    failures, publishes

vars == <<kind, log, rx, peer, client, from, failures, publishes>>

WebSocket == {"websocket", "batch"}

Idle == [by |-> "none", phase |-> "idle", changes |-> <<>>, to |-> {}, failed |-> FALSE]

\* A peer's queue holds messages; a message is the changes it carries.  A handler
\* goes from "joined" to "live" to "gone"; that of a gRPC stream may wait, between
\* the last two, for its receiving goroutine.
NewPeer == [at |-> "none", member |-> FALSE, done |-> FALSE, broken |-> FALSE,
            queue |-> <<>>, bytes |-> 0, taken |-> <<>>, writing |-> <<>>,
            receiving |-> FALSE]

\* A client goes from "dialing" to "greeted" (its answer is on the wire) to "open"
\* to "stopped"; up is what it sent and the server has not taken (bound: one message).
NewClient == [at |-> "dialing", wire |-> <<>>, got |-> <<>>, up |-> <<>>]

Init ==
    /\ kind \in [Peer -> Transport]
    /\ log = <<>> /\ rx = Idle /\ failures = 0 /\ publishes = 0
    /\ peer = [p \in Peer |-> NewPeer]
    /\ client = [p \in Peer |-> NewClient]
    /\ from = [p \in Peer |-> 0]

Bytes(message) == FoldLeft(LAMBDA n, c : n + c, 0, message)

\* The mutated form: what does not fit is dropped and the peer kept.
EnqueueDropping(q, messages) ==
    LET size == Bytes(FlattenSeq(messages))
    IN  IF q.done THEN [ok |-> FALSE, q |-> q]
        ELSE IF \/ Len(messages) > MaxMessages - Len(q.queue)
                \/ q.bytes + size > MaxBytes
        THEN [ok |-> TRUE, q |-> q]
        ELSE [ok |-> TRUE,
              q  |-> [q EXCEPT !.queue = @ \o messages, !.bytes = @ + size]]

\* peerQueue.enqueueAll: all of the messages or none.
EnqueueAll(q, messages) ==
    LET size == Bytes(FlattenSeq(messages))
    IN  IF \/ q.done
           \/ Len(messages) > MaxMessages - Len(q.queue)
           \/ q.bytes + size > MaxBytes
        THEN [ok |-> FALSE, q |-> q]
        ELSE [ok |-> TRUE,
              q  |-> [q EXCEPT !.queue = @ \o messages, !.bytes = @ + size]]

\* subscriber.close: that of a WebSocket also ends the connection.
Closed(p, q) == [q EXCEPT !.done = TRUE, !.broken = @ \/ kind[p] \in WebSocket]

\* What a handler does when it returns: group.remove and close, after which the
\* server ends the connection.
Gone(q) == [q EXCEPT !.at = "gone", !.member = FALSE, !.done = TRUE, !.broken = TRUE]

(***************************************************************************)
(* The handlers.  Each joins its subscriber to the group before it answers *)
(* with the manifest of the group.                                         *)
(***************************************************************************)
Join(p) ==
    /\ peer[p].at = "none"
    /\ peer' = [peer EXCEPT ![p].at = "joined", ![p].member = TRUE]
    /\ from' = [from EXCEPT ![p] =
                  Len(log) - (IF rx.phase = "accepted" THEN Len(rx.changes) ELSE 0)]
    /\ UNCHANGED <<kind, log, rx, client, failures, publishes>>

ServeWebSocket(p) == kind[p] \in WebSocket /\ Join(p)
ServeHTTPEvents(p) == kind[p] = "events" /\ Join(p)
Sync(p) == kind[p] = "grpc" /\ Join(p)

\* The manifest is written and the loops of the handler start, or it returns.
Hello(p) ==
    /\ peer[p].at = "joined"
    /\ \/ /\ ~peer[p].broken
          /\ peer' = [peer EXCEPT ![p].at = "live", ![p].receiving = kind[p] # "events"]
          /\ client' = [client EXCEPT ![p].at = "greeted"]
          /\ UNCHANGED failures
       \/ /\ peer[p].broken \/ failures < MaxFailures
          /\ failures' = IF peer[p].broken THEN failures ELSE failures + 1
          /\ peer' = [peer EXCEPT ![p] = Gone(@)]
          /\ UNCHANGED client
    /\ UNCHANGED <<kind, log, rx, from, publishes>>

(***************************************************************************)
(* Group.receive and receiveBatch: decoding, validation and authorisation  *)
(* touch nothing.  Under the lock the inbox takes the changes one by one   *)
(* until one fails; a change it already knows is not accepted.  A message  *)
(* read before its connection broke is still received.                     *)
(***************************************************************************)
FirstUses(changes) ==
    SelectSeq(changes, LAMBDA c : c \notin ToSet(log))

Receive(p) ==
    /\ rx = Idle
    /\ client[p].up # <<>>
    /\ client' = [client EXCEPT ![p].up = <<>>]
    /\ \E n \in 0..Len(client[p].up) :
          LET fails    == n < Len(client[p].up)
              accepted == FirstUses(SubSeq(client[p].up, 1, n))
          IN  /\ fails => failures < MaxFailures
              /\ failures' = IF fails THEN failures + 1 ELSE failures
              /\ log' = log \o accepted
              /\ rx' = [by |-> p, to |-> {}, changes |-> accepted, failed |-> fails,
                        phase |-> IF accepted = <<>> THEN "sent" ELSE "accepted"]
    /\ UNCHANGED <<kind, peer, from, publishes>>

ReadLoop(p) == kind[p] \in WebSocket /\ peer[p].receiving /\ Receive(p)
ServeHTTPChanges(p) == kind[p] = "events" /\ Receive(p)
ReceiveGRPCChanges(p) == kind[p] = "grpc" /\ peer[p].receiving /\ Receive(p)

\* broadcastToSubscribers copies the peer table under its lock ...
Snapshot ==
    /\ rx.phase = "accepted"
    /\ rx' = [rx EXCEPT !.phase = "sending", !.to = {p \in Peer : peer[p].member}]
    /\ UNCHANGED <<kind, log, peer, client, from, failures, publishes>>

\* ... and then offers each the batch, or its changes one message each.  A
\* peer that cannot take them is closed and removed.
Broadcast(p) ==
    /\ rx.phase = "sending" /\ p \in rx.to
    /\ LET messages == IF kind[p] = "batch" \/ Len(rx.changes) = 1 THEN <<rx.changes>>
                       ELSE [i \in 1..Len(rx.changes) |-> <<rx.changes[i]>>]
           result   == EnqueueAll(peer[p], messages)
       IN  peer' = [peer EXCEPT ![p] =
                      IF result.ok THEN result.q
                      ELSE [Closed(p, @) EXCEPT !.member = FALSE]]
    /\ rx' = [rx EXCEPT !.to = @ \ {p},
                        !.phase = IF rx.to = {p} THEN "sent" ELSE "sending"]
    /\ UNCHANGED <<kind, log, client, from, failures, publishes>>

\* With nobody to send to the broadcast ends at once.
NobodyToSend ==
    /\ rx.phase = "sending" /\ rx.to = {}
    /\ rx' = [rx EXCEPT !.phase = "sent"]
    /\ UNCHANGED <<kind, log, peer, client, from, failures, publishes>>

\* The call returns.  An error ends the read loop that made it: a WebSocket's with
\* its handler, a gRPC stream's by closing the subscriber; a POST is answered.
Received ==
    /\ rx.phase = "sent"
    /\ rx' = Idle
    /\ LET p == rx.by
       IN  peer' = CASE rx.failed /\ kind[p] \in WebSocket ->
                          [peer EXCEPT ![p] = [Gone(@) EXCEPT !.receiving = FALSE]]
                     [] rx.failed /\ kind[p] = "grpc" ->
                          [peer EXCEPT ![p] = [Closed(p, @) EXCEPT !.receiving = FALSE]]
                     [] OTHER -> peer
    /\ UNCHANGED <<kind, log, client, from, failures, publishes>>

(***************************************************************************)
(* The loop that writes: dequeueContext takes a message, gives its bytes   *)
(* back and looks once more whether the queue was closed or, for the       *)
(* handlers that pass the context of their request, whether that ended.    *)
(***************************************************************************)
Ended(p) == peer[p].done \/ (peer[p].broken /\ kind[p] \notin WebSocket)

Take(p) ==
    /\ peer[p].at = "live" /\ ~Ended(p)
    /\ peer[p].queue # <<>> /\ peer[p].taken = <<>> /\ peer[p].writing = <<>>
    /\ peer' = [peer EXCEPT ![p].queue = Tail(@), ![p].taken = Head(peer[p].queue)]
    /\ UNCHANGED <<kind, log, rx, client, from, failures, publishes>>

Account(p) ==
    /\ peer[p].taken # <<>>
    /\ peer' = [peer EXCEPT ![p].bytes = @ - Bytes(peer[p].taken),
                            ![p].taken = <<>>,
                            ![p].writing = IF Ended(p) THEN <<>> ELSE peer[p].taken]
    /\ UNCHANGED <<kind, log, rx, client, from, failures, publishes>>

\* A broken connection fails the write: the write loop of a WebSocket closes the
\* subscriber, the other handlers return.
Write(p) ==
    /\ peer[p].writing # <<>>
    /\ IF peer[p].broken
         THEN /\ peer' = [peer EXCEPT ![p] =
                            LET q == [@ EXCEPT !.writing = <<>>]
                            IN  IF kind[p] \in WebSocket THEN Closed(p, q) ELSE Gone(q)]
              /\ UNCHANGED client
         ELSE /\ peer' = [peer EXCEPT ![p].writing = <<>>]
              /\ client' = [client EXCEPT ![p].wire = @ \o peer[p].writing]
    /\ UNCHANGED <<kind, log, rx, from, failures, publishes>>

\* dequeueContext fails.  The event stream's handler returns; that of a gRPC stream
\* waits for what its receiving goroutine answers.
Dequeued(p) ==
    /\ peer[p].at = "live" /\ kind[p] \notin WebSocket
    /\ Ended(p) /\ peer[p].taken = <<>> /\ peer[p].writing = <<>>
    /\ peer' = [peer EXCEPT ![p] =
                  IF kind[p] = "events" THEN Gone(@) ELSE [@ EXCEPT !.at = "waiting"]]
    /\ UNCHANGED <<kind, log, rx, client, from, failures, publishes>>

SyncReturns(p) ==
    /\ peer[p].at = "waiting" /\ ~peer[p].receiving
    /\ peer' = [peer EXCEPT ![p] = Gone(@)]
    /\ UNCHANGED <<kind, log, rx, client, from, failures, publishes>>

\* Reading from a broken or closed connection fails.  A WebSocket's handler returns
\* with its read loop; a gRPC stream's receiving goroutine closes the subscriber.
ReadFails(p) ==
    /\ peer[p].receiving /\ peer[p].broken /\ rx.by # p
    /\ peer' = [peer EXCEPT ![p] =
                  LET q == [@ EXCEPT !.receiving = FALSE]
                  IN  IF kind[p] \in WebSocket THEN Gone(q) ELSE Closed(p, q)]
    /\ UNCHANGED <<kind, log, rx, client, from, failures, publishes>>

(***************************************************************************)
(* The clients.  DialWebSocket, ConnectHTTP and OpenGRPC return once they  *)
(* have read the manifest; a connection that ends before is given up.      *)
(***************************************************************************)
Stop(p) ==
    /\ client' = [client EXCEPT ![p].at = "stopped", ![p].wire = <<>>]
    /\ peer' = [peer EXCEPT ![p].broken = TRUE]

Opened(p) ==
    /\ client[p].at = "greeted"
    /\ client' = [client EXCEPT ![p].at = "open"]
    /\ UNCHANGED <<kind, log, rx, peer, from, failures, publishes>>

DialWebSocket(p) == kind[p] \in WebSocket /\ Opened(p)
ConnectHTTP(p) == kind[p] = "events" /\ Opened(p)
OpenGRPC(p) == kind[p] = "grpc" /\ Opened(p)

\* Publishing over the stream: a failed write stops the client.  Nothing is
\* published once the client has stopped.
SendOnStream(p, changes) ==
    /\ client[p].at = "open" /\ client[p].up = <<>>
    /\ publishes < MaxPublishes
    /\ publishes' = publishes + 1
    /\ IF peer[p].broken THEN Stop(p)
       ELSE client' = [client EXCEPT ![p].up = changes] /\ UNCHANGED peer
    /\ UNCHANGED <<kind, log, rx, from, failures>>

PublishWebSocket(p, c) == kind[p] \in WebSocket /\ SendOnStream(p, <<c>>)
PublishGRPC(p, c) == kind[p] = "grpc" /\ SendOnStream(p, <<c>>)
PublishBatch(p, changes) ==
    kind[p] = "batch" /\ Len(changes) \in 1..MaxBatch /\ SendOnStream(p, changes)

\* A POST needs the client not stopped, not its event stream; one that fails
\* before the server has it changes nothing.
PublishHTTP(p, c) ==
    /\ kind[p] = "events"
    /\ client[p].at = "open" /\ client[p].up = <<>>
    /\ publishes < MaxPublishes
    /\ publishes' = publishes + 1
    /\ client' = [client EXCEPT ![p].up = <<c>>]
    /\ UNCHANGED <<kind, log, rx, peer, from, failures>>

\* A read loop hands changes to onChange one at a time; when that fails the
\* client stops and drops what else it read.
Apply(p) ==
    /\ client[p].at = "open" /\ client[p].wire # <<>>
    /\ \/ /\ client' = [client EXCEPT ![p].got = Append(@, Head(client[p].wire)),
                                      ![p].wire = Tail(@)]
          /\ UNCHANGED <<peer, failures>>
       \/ /\ failures < MaxFailures
          /\ failures' = failures + 1
          /\ Stop(p)
    /\ UNCHANGED <<kind, log, rx, from, publishes>>

ReadWebSocket(p) == kind[p] \in WebSocket /\ Apply(p)
ReadHTTP(p) == kind[p] = "events" /\ Apply(p)
ReadGRPC(p) == kind[p] = "grpc" /\ Apply(p)

\* The stream ended: nothing more can be read.
StreamEnds(p) ==
    /\ client[p].at # "stopped" /\ peer[p].broken /\ client[p].wire = <<>>
    /\ Stop(p)
    /\ UNCHANGED <<kind, log, rx, from, failures, publishes>>

\* The application closes the client.
Close(p) ==
    /\ client[p].at = "open"
    /\ failures < MaxFailures
    /\ failures' = failures + 1
    /\ Stop(p)
    /\ UNCHANGED <<kind, log, rx, from, publishes>>

\* The network loses the connection and what was on its way down.
Break(p) ==
    /\ peer[p].at \notin {"none", "gone"} /\ ~peer[p].broken
    /\ failures < MaxFailures
    /\ failures' = failures + 1
    /\ peer' = [peer EXCEPT ![p].broken = TRUE]
    /\ client' = [client EXCEPT ![p].wire = <<>>]
    /\ UNCHANGED <<kind, log, rx, from, publishes>>

-----------------------------------------------------------------------------
\* What the relay does of its own accord once a subscriber has joined.
ServerStep(p) ==
    \/ Hello(p) \/ ReadLoop(p) \/ ServeHTTPChanges(p) \/ ReceiveGRPCChanges(p)
    \/ Broadcast(p) \/ Take(p) \/ Account(p) \/ Write(p) \/ Dequeued(p) \/ SyncReturns(p) \/ ReadFails(p)

ClientStep(p) ==
    \/ DialWebSocket(p) \/ ConnectHTTP(p) \/ OpenGRPC(p)
    \/ ReadWebSocket(p) \/ ReadHTTP(p) \/ ReadGRPC(p) \/ StreamEnds(p)
    \/ Close(p) \/ Break(p)
    \/ \E c \in Change : PublishWebSocket(p, c) \/ PublishHTTP(p, c) \/ PublishGRPC(p, c)
    \/ \E changes \in SeqOf(Change, MaxBatch) :
          IsInjective(changes) /\ PublishBatch(p, changes)

Next ==
    \/ \E p \in Peer :
          \/ ServeWebSocket(p) \/ ServeHTTPEvents(p) \/ Sync(p)
          \/ ServerStep(p)
          \/ ClientStep(p)
    \/ Snapshot
    \/ NobodyToSend
    \/ Received

Spec == Init /\ [][Next]_vars

\* Each goroutine of the relay goes on as long as it can.
FairSpec ==
    /\ Spec
    /\ WF_vars(Snapshot) /\ WF_vars(NobodyToSend) /\ WF_vars(Received)
    /\ \A p \in Peer :
          /\ WF_vars(Broadcast(p)) /\ WF_vars(Account(p)) /\ WF_vars(Write(p))
          /\ WF_vars(Hello(p)) /\ WF_vars(Dequeued(p))
          /\ WF_vars(SyncReturns(p)) /\ WF_vars(ReadFails(p))

-----------------------------------------------------------------------------
\* The changes on their way to a peer, in the order they will reach it.
Coming(p) == client[p].wire \o peer[p].writing \o peer[p].taken \o FlattenSeq(peer[p].queue)

\* How much of the log has been offered to p.
Offered(p) ==
    IF rx.phase = "accepted" \/ (rx.phase = "sending" /\ p \in rx.to)
    THEN Len(log) - Len(rx.changes) ELSE Len(log)

\* What a client applied is, in order and without a gap, what the group
\* accepted since the client's subscriber joined, whatever was closed, refused
\* for lack of room or failed on the way, over every transport; and a stream
\* whose subscriber is not closed will bring it all the rest: a slow peer is
\* cut off, never skipped.  The bytes a queue counts are those of its messages
\* and of the one being taken.
StreamUnbroken ==
    \A p \in Peer : peer[p].at # "none" =>
        /\ IsPrefix(client[p].got, SubSeq(log, from[p] + 1, Len(log)))
        /\ ~peer[p].broken /\ ~peer[p].done =>
              client[p].got \o Coming(p) = SubSeq(log, from[p] + 1, Offered(p))
        /\ peer[p].bytes = Bytes(FlattenSeq(peer[p].queue) \o peer[p].taken)
        /\ peer[p].bytes <= MaxBytes

\* A stream whose bounded queue was closed is disconnected, as the comment of
\* GRPCRelay.Sync says of a slow stream: its handler returns.
SlowStreamDisconnected == \A p \in Peer : peer[p].done ~> peer[p].at = "gone"
=============================================================================

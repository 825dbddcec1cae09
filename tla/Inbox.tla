-------------------------------- MODULE Inbox -------------------------------
(***************************************************************************)
(* replica.Inbox (replica/replica.go): a bounded receiver that turns an    *)
(* unreliable, duplicating, reordering transport into per-actor in-order   *)
(* installation of changes.                                                *)
(*                                                                         *)
(* A change is a record [actor, counter, payload]; the transport may offer *)
(* any element of Offer at any time, any number of times, or never.  Two   *)
(* elements of Offer with one dot and different payloads model an actor    *)
(* that reused a counter.                                                  *)
(*                                                                         *)
(* Receive holds i.mu from its first check to its return, but calls the    *)
(* host's apply callback once per installed dot and may return early with  *)
(* an error from each.  `draining' is the actor whose buffered changes the *)
(* call in progress is installing; no other call runs meanwhile.           *)
(***************************************************************************)
EXTENDS Integers, Sequences, FiniteSets, FiniteSetsExt

CONSTANTS Actor, Payload,
          Offer,        \* changes the transport may deliver
          Size(_),      \* bytes of a payload
          MaxPending,   \* i.maxPending
          MaxBytes,     \* i.maxBytes
          NoActor

Change == [actor : Actor, counter : Nat \ {0}, payload : Payload]

ASSUME OfferAssumption == Offer \subseteq Change
ASSUME LimitAssumption == MaxPending \in Nat \ {0} /\ MaxBytes \in Nat \ {0}
ASSUME SizeAssumption == \A p \in Payload : Size(p) \in Nat \ {0}
ASSUME NoActorAssumption == NoActor \notin Actor

VARIABLES frontier,      \* i.frontier: greatest contiguous counter per actor
          pending,       \* i.pending, as a set of changes
          pendingCount,  \* i.pendingCount
          pendingSize,   \* i.pendingSize
          applied,       \* the host's CRDT: payloads applied, per actor, in order
          draining,      \* actor whose buffered changes Receive is installing
          durable        \* applied, as last saved together with its frontier

vars == <<frontier, pending, pendingCount, pendingSize, applied, draining, durable>>

TypeOK ==
    /\ frontier \in [Actor -> Nat]
    /\ pending \subseteq Offer
    /\ pendingCount \in 0..MaxPending
    /\ pendingSize \in Int
    /\ applied \in [Actor -> Seq(Payload)]
    /\ draining \in Actor \cup {NoActor}
    /\ durable \in [Actor -> Seq(Payload)]

Empty == [a \in Actor |-> <<>>]

Lengths(f) == [a \in Actor |-> Len(f[a])]

\* NewInbox with an empty frontier.
Init ==
    /\ frontier = Lengths(Empty)
    /\ pending = {}
    /\ pendingCount = 0
    /\ pendingSize = 0
    /\ applied = Empty
    /\ draining = NoActor
    /\ durable = Empty

SameDot(c, d) == c.actor = d.actor /\ c.counter = d.counter

\* A buffered change with c's dot and other bytes: ErrDotConflict.
Conflicts(c) == \E d \in pending : SameDot(c, d) /\ d.payload # c.payload

\* Mutated form: the limits are tested after the change is counted.
HasRoomOffByOne(c) ==
    /\ pendingCount <= MaxPending
    /\ Size(c.payload) <= MaxBytes - pendingSize

\* buffer's limit test.
HasRoom(c) ==
    /\ pendingCount < MaxPending
    /\ Size(c.payload) <= MaxBytes - pendingSize

\* Mutated form: a later payload for a buffered dot replaces the first one.
BufferReplaces(c) ==
    /\ draining = NoActor
    /\ c.counter > frontier[c.actor] + 1
    /\ c \notin pending
    /\ HasRoom(c)
    /\ pending' = {d \in pending : ~SameDot(c, d)} \cup {c}
    /\ pendingCount' = Cardinality(pending')
    /\ pendingSize' = pendingSize
    /\ UNCHANGED <<frontier, applied, draining, durable>>

\* Receive of a change beyond the next expected dot, when buffer retains it.
\* The other outcomes of buffer (already buffered, ErrDotConflict,
\* ErrPendingLimit) and of Receive (Duplicate) change nothing.
Buffer(c) ==
    /\ draining = NoActor
    /\ c.counter > frontier[c.actor] + 1
    /\ ~ \E d \in pending : SameDot(c, d)
    /\ HasRoom(c)
    /\ pending' = pending \cup {c}
    /\ pendingCount' = pendingCount + 1
    /\ pendingSize' = pendingSize + Size(c.payload)
    /\ UNCHANGED <<frontier, applied, draining, durable>>

\* apply succeeded for c: the host's state and the frontier advance.
Install(c) ==
    /\ applied' = [applied EXCEPT ![c.actor] = Append(@, c.payload)]
    /\ frontier' = [frontier EXCEPT ![c.actor] = c.counter]

\* Mutated form: the next expected dot also needs room in the buffer.
InstallNextNeedsRoom(c) ==
    /\ HasRoom(c)
    /\ draining = NoActor
    /\ c.counter = frontier[c.actor] + 1
    /\ ~Conflicts(c)
    /\ Install(c)
    /\ draining' = c.actor
    /\ pending' = pending \ {c}
    /\ UNCHANGED <<pendingCount, pendingSize, durable>>

\* Receive of the next expected dot, up to the start of the drain loop.  A
\* failing apply returns the error and changes nothing.
InstallNext(c) ==
    /\ draining = NoActor
    /\ c.counter = frontier[c.actor] + 1
    /\ ~Conflicts(c)
    /\ Install(c)
    /\ draining' = c.actor
    /\ pending' = pending \ {c}
    /\ IF c \in pending
       THEN /\ pendingCount' = pendingCount - 1
            /\ pendingSize' = pendingSize - Size(c.payload)
       ELSE UNCHANGED <<pendingCount, pendingSize>>
    /\ UNCHANGED durable

NextBuffered(c) == c \in pending /\ c.actor = draining /\ c.counter = frontier[draining] + 1

\* Mutated form: the loop installs the smallest buffered change, gap or not.
DrainSkipsGap(c) ==
    /\ draining # NoActor
    /\ c \in pending /\ c.actor = draining
    /\ \A d \in pending : d.actor = draining => c.counter <= d.counter
    /\ Install(c)
    /\ pending' = pending \ {c}
    /\ pendingCount' = pendingCount - 1
    /\ pendingSize' = pendingSize - Size(c.payload)
    /\ UNCHANGED <<draining, durable>>

\* One iteration of the drain loop whose apply succeeds.
Drain(c) ==
    /\ draining # NoActor
    /\ NextBuffered(c)
    /\ Install(c)
    /\ pending' = pending \ {c}
    /\ pendingCount' = pendingCount - 1
    /\ pendingSize' = pendingSize - Size(c.payload)
    /\ UNCHANGED <<draining, durable>>

\* The loop finds no next dot: Receive returns.
DrainDone ==
    /\ draining # NoActor
    /\ ~ \E c \in pending : NextBuffered(c)
    /\ draining' = NoActor
    /\ UNCHANGED <<frontier, pending, pendingCount, pendingSize, applied, durable>>

\* apply fails in the loop: Receive returns and the change stays buffered.
DrainFails ==
    /\ draining # NoActor
    /\ \E c \in pending : NextBuffered(c)
    /\ draining' = NoActor
    /\ UNCHANGED <<frontier, pending, pendingCount, pendingSize, applied, durable>>

\* The host saves its CRDT state and the frontier in one transaction.
Save ==
    /\ draining = NoActor
    /\ durable' = applied
    /\ UNCHANGED <<frontier, pending, pendingCount, pendingSize, applied, draining>>

\* Crash at any point, then NewInbox with the saved frontier.
Restart ==
    /\ applied' = durable
    /\ frontier' = Lengths(durable)
    /\ pending' = {}
    /\ pendingCount' = 0
    /\ pendingSize' = 0
    /\ draining' = NoActor
    /\ UNCHANGED durable

Next ==
    \/ \E c \in Offer : Buffer(c) \/ InstallNext(c) \/ Drain(c)
    \/ DrainDone
    \/ DrainFails
    \/ Save
    \/ Restart

Spec == Init /\ [][Next]_vars

----------------------------------------------------------------------------
\* "its frontier advances only across contiguous persisted actor counters":
\* the frontier counts exactly the changes applied to the host, each dot once
\* and in dot order, whatever was lost, duplicated, reordered, buffered, failed
\* or cut short by a crash.
FrontierContiguous ==
    \A a \in Actor :
      /\ frontier[a] = Len(applied[a])
      /\ \A n \in 1..Len(applied[a]) :
            [actor |-> a, counter |-> n, payload |-> applied[a][n]] \in Offer

\* Buffered changes lie strictly beyond the frontier and bind one payload per
\* dot, so what the drain loop installs does not depend on arrival order.
PendingBeyondFrontier ==
    \A c \in pending :
      /\ c.counter > frontier[c.actor]
      /\ \A d \in pending : SameDot(c, d) => c = d

\* i.pendingCount, maintained by separate increments and decrements on three
\* paths, is the number of buffered changes.
CountExact == pendingCount = Cardinality(pending)

\* i.pendingSize is the number of buffered bytes and respects maxBytes.
SizeExact ==
    /\ pendingSize = MapThenSumSet(LAMBDA c : Size(c.payload), pending)
    /\ pendingSize <= MaxBytes

\* Receive and drain leave the inbox consistent on every path: the frontier is the
\* number of changes applied, and the buffer's two counters are exact and within
\* the limits.
InboxConsistent == TypeOK /\ FrontierContiguous /\ CountExact /\ SizeExact

\* A change that was accepted into the buffer leaves it only by being
\* installed with the bytes that were buffered, or because of a crash.
BufferedNotLost ==
    [][\A c \in pending : \/ c \in pending'
                          \/ /\ frontier'[c.actor] = c.counter
                             /\ applied'[c.actor][c.counter] = c.payload
                          \/ Restart]_vars

----------------------------------------------------------------------------
\* What the inbox promises: the in-order delivery specification.
Abstract == INSTANCE InOrderDelivery WITH log <- applied, saved <- durable

RefinesInOrderDelivery == Abstract!Spec

\* The transport keeps retransmitting every change, apply does not fail forever
\* on one change, and a call that holds i.mu runs to its end.
Fairness ==
    /\ \A c \in Offer : SF_vars(InstallNext(c) \/ Drain(c))
    /\ WF_vars(DrainDone)

LiveSpec == Spec /\ Fairness

\* Once the process stays up, the frontier reaches the end of every actor's
\* log however small the buffer is: a full buffer or a stuck buffered head
\* never blocks the next expected dot.
EventuallyInstalled ==
    <>[][~Restart]_vars => \A c \in Offer : <>(frontier[c.actor] >= c.counter)
=============================================================================

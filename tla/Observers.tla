------------------------------ MODULE Observers ------------------------------
(***************************************************************************)
(* The observable store of observe/observe.go.  Every mutation runs under  *)
(* the store's lock and publishes its version to each subscriber's mailbox *)
(* of one event, under the hub's lock; the subscriber's own goroutine      *)
(* delivers.  An event put in a mailbox and the token sent on the wake     *)
(* channel are two steps, and so are the token's receipt and the look in   *)
(* the mailbox: everything else runs in between.                           *)
(***************************************************************************)
EXTENDS Naturals, FiniteSets

CONSTANTS
    Subscriber,    \* subscriptions that may be made
    MaxVersion     \* bound: mutations that change the value

VARIABLES
    version,    \* Store.version
    closed,     \* Store.closed
    holder,     \* what the holder of the store's lock still has to do
    sub,        \* the subscriptions
    log         \* ghost: by subscription, what was enqueued and delivered

vars == <<version, closed, holder, sub, log>>

NoEvent == [version |-> 0, coalesced |-> 0, full |-> FALSE]
Event(v) == [version |-> v, coalesced |-> 0, full |-> TRUE]

\* members: still in hub.subscribers; run: where the goroutine is.
NewSubscriber == [member |-> FALSE, pending |-> NoEvent, wake |-> FALSE,
                  stopped |-> FALSE, run |-> "none", taken |-> NoEvent]

Rest == [task |-> "rest", to |-> {}, wakes |-> {}]

Init ==
    /\ version = 0 /\ closed = FALSE /\ holder = Rest
    /\ sub = [s \in Subscriber |-> NewSubscriber]
    /\ log = [s \in Subscriber |-> [enqueued |-> 0, delivered |-> 0, last |-> 0]]

Members == {s \in Subscriber : sub[s].member}

\* MutateIf with a mutation that succeeded and changed the value: without
\* subscribers nothing is published.
MutateIf ==
    /\ holder = Rest /\ ~closed
    /\ version < MaxVersion
    /\ version' = version + 1
    /\ holder' = IF Members = {} THEN Rest
                 ELSE [task |-> "publish", to |-> Members, wakes |-> {}]
    /\ UNCHANGED <<closed, sub, log>>

\* Subscribe, which queues the current view, and SubscribeFromNow.
Subscribe(s, initial) ==
    /\ holder = Rest /\ ~closed
    /\ sub[s].run = "none"
    /\ sub' = [sub EXCEPT ![s].member = TRUE, ![s].run = "idle"]
    /\ holder' = IF initial THEN [task |-> "initial", to |-> {s}, wakes |-> {}]
                 ELSE Rest
    /\ log' = [log EXCEPT ![s].last = version]
    /\ UNCHANGED <<version, closed>>

\* The first half of enqueue, under the mailbox's lock.
Enqueue(s) ==
    /\ holder.task \in {"publish", "initial"} /\ holder.wakes = {}
    /\ s \in holder.to
    /\ IF sub[s].stopped
         THEN UNCHANGED <<sub, log>> /\ holder' = [holder EXCEPT !.to = @ \ {s}]
         ELSE /\ sub' = [sub EXCEPT ![s].pending =
                            [Event(version) EXCEPT !.coalesced =
                                IF sub[s].pending.full
                                THEN sub[s].pending.coalesced + 1 ELSE 0]]
              /\ log' = [log EXCEPT ![s].enqueued = @ + 1]
              /\ holder' = [holder EXCEPT !.to = @ \ {s}, !.wakes = {s}]
    /\ UNCHANGED <<version, closed>>

\* The second half: a token, unless one is waiting.
Wake(s) ==
    /\ s \in holder.wakes
    /\ sub' = [sub EXCEPT ![s].wake = TRUE]
    /\ holder' = [holder EXCEPT !.wakes = {}]
    /\ UNCHANGED <<version, closed, log>>

Unlock ==
    /\ holder # Rest /\ holder.to = {} /\ holder.wakes = {}
    /\ holder' = Rest
    /\ UNCHANGED <<version, closed, sub, log>>

\* hub.remove waits for a publication in progress.
Remove(s) ==
    /\ sub[s].member
    /\ holder.task # "publish"
    /\ s \notin holder.to \cup holder.wakes
    /\ sub' = [sub EXCEPT ![s].member = FALSE]
    /\ UNCHANGED <<version, closed, holder, log>>

StopDelivery(s) ==
    /\ ~sub[s].member /\ sub[s].run # "none" /\ ~sub[s].stopped
    /\ sub' = [sub EXCEPT ![s].stopped = TRUE, ![s].pending = NoEvent]
    /\ UNCHANGED <<version, closed, holder, log>>

\* Close empties the hub, then stops every delivery; StopDelivery is that.
Close ==
    /\ holder = Rest /\ ~closed
    /\ closed' = TRUE
    /\ sub' = [s \in Subscriber |-> [sub[s] EXCEPT !.member = FALSE]]
    /\ UNCHANGED <<version, holder, log>>

(***************************************************************************)
(* The subscriber's goroutine.                                             *)
(***************************************************************************)
\* The select: with both channels ready, either is taken.
Receive(s) ==
    /\ sub[s].run = "idle"
    /\ \/ /\ sub[s].stopped
          /\ sub' = [sub EXCEPT ![s].run = "done"]
       \/ /\ sub[s].wake
          /\ sub' = [sub EXCEPT ![s].run = "woken", ![s].wake = FALSE]
    /\ UNCHANGED <<version, closed, holder, log>>

Look(s) ==
    /\ sub[s].run = "woken"
    /\ sub' = [sub EXCEPT
                 ![s].run = IF sub[s].stopped THEN "done"
                            ELSE IF sub[s].pending.full THEN "calling" ELSE "idle",
                 ![s].taken = IF sub[s].stopped THEN NoEvent ELSE sub[s].pending,
                 ![s].pending = NoEvent]
    /\ UNCHANGED <<version, closed, holder, log>>

\* The mutated form: the goroutine drops the token that came during the call.
ReturnedDrained(s) ==
    [sub[s] EXCEPT !.run = "idle", !.taken = NoEvent, !.wake = FALSE]

Returned(s) == [sub[s] EXCEPT !.run = "idle", !.taken = NoEvent]

\* The callback returns, or panics and its subscription is cancelled.
Call(s) ==
    /\ sub[s].run = "calling"
    /\ log' = [log EXCEPT ![s].delivered = @ + 1 + sub[s].taken.coalesced,
                          ![s].last = sub[s].taken.version]
    /\ \/ sub' = [sub EXCEPT ![s] = Returned(s)]
       \/ sub' = [sub EXCEPT ![s].run = "panicked"]
    /\ UNCHANGED <<version, closed, holder>>

\* Nothing obliges a caller to unsubscribe; a panicking goroutine does and ends.
Panicked(s) ==
    /\ sub[s].run = "panicked" /\ sub[s].stopped
    /\ sub' = [sub EXCEPT ![s].run = "done"]
    /\ UNCHANGED <<version, closed, holder, log>>

Next ==
    \/ MutateIf
    \/ Unlock
    \/ Close
    \/ \E s \in Subscriber, initial \in BOOLEAN : Subscribe(s, initial)
    \/ \E s \in Subscriber :
          \/ Enqueue(s) \/ Wake(s) \/ Remove(s) \/ StopDelivery(s)
          \/ Receive(s) \/ Look(s) \/ Call(s) \/ Panicked(s)

Spec == Init /\ [][Next]_vars

-----------------------------------------------------------------------------
\* A subscriber whose goroutine waits, with no token to wake it and nobody
\* about to send one, has been given the store's present version; and every
\* event its mailbox ever took is delivered, counted as coalesced by a
\* delivered one, or still there.
SubscriberCurrent ==
    \A s \in Members :
        ~sub[s].stopped =>
            /\ holder = Rest /\ sub[s].run = "idle" /\ ~sub[s].wake =>
                   log[s].last = version
            /\ log[s].enqueued =
                   log[s].delivered
                   + (IF sub[s].pending.full THEN 1 + sub[s].pending.coalesced ELSE 0)
                   + (IF sub[s].run = "calling" THEN 1 + sub[s].taken.coalesced ELSE 0)
=============================================================================

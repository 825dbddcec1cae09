------------------------------ MODULE Awareness -----------------------------
(***************************************************************************)
(* awareness.Store (awareness/awareness.go, awareness/observe.go): the     *)
(* ephemeral presence of actors, its expiry, and the latest-state mailboxes*)
(* of local observers.                                                     *)
(*                                                                         *)
(* Goroutines call the store at the same time.  A call reads the time,     *)
(* waits for store.mu, changes the records and publishes: still under      *)
(* store.mu it takes the subscribers one by one, puts the event into the   *)
(* mailbox of one and then wakes it.  Subscriber goroutines take the latest*)
(* event and run a callback that may panic.  Updates of remote actors, and *)
(* late copies of those of this store, arrive in any order and number.     *)
(***************************************************************************)
EXTENDS Integers, FiniteSets

CONSTANTS Caller, Timer,   \* goroutines; Timer runs StartExpiry's loop
          Actor,           \* actors that this process owns
          Remote, Leaving, \* actors of another process; those that go offline
          State, Invalid,  \* states given to Set; those Normalize refuses
          Offline,         \* the nil state of a removal
          Subscriber, MaxSubscribers,
          MaxActors, Timeout,
          MaxClock,        \* math.MaxUint64, small
          MaxTime,         \* bound on the time
          MaxCalls         \* bound on the calls of a behaviour, expiry excluded

ASSUME AwarenessAssumption ==
    /\ Timer \notin Caller
    /\ Remote \cap Actor = {} /\ Leaving \subseteq Remote
    /\ Invalid \subseteq State /\ Offline \notin State
    /\ {MaxActors, MaxClock, Timeout, MaxTime, MaxCalls, MaxSubscribers} \subseteq Nat

Goroutine == Caller \cup {Timer}
Free == "free"
Idle == [op |-> "none", step |-> "idle", todo |-> {}, waking |-> {}]

Update(a, n, st) == [actor |-> a, clock |-> n, state |-> st]

\* What the other process sends: a state of each actor, and the removal of some.
RemoteUpdates ==
    {Update(a, 1, CHOOSE st \in State \ Invalid : TRUE) : a \in Remote}
        \cup {Update(a, 2, Offline) : a \in Leaving}

VARIABLES time,
          mu,         \* store.mu: Free or the goroutine that holds it
          call,       \* the call of each goroutine
          records,    \* store.records: a set with one record per actor
          version,    \* store.version
          hub,        \* store.hub.subscribers
          mailbox,    \* pending event of each subscriber, at most one
          wake,       \* subscribers whose wake channel holds a token
          stopped,    \* subscribers whose stop channel is closed
          at,         \* where the goroutine of each subscriber stands
          net,        \* updates in transit, never consumed
          calls,      \* number of calls so far
          delivered   \* history: last event given to each callback

vars == <<time, mu, call, records, version, hub, mailbox, wake, stopped, at, net, calls,
          delivered>>

Init ==
    /\ time = 0
    /\ mu = Free
    /\ call = [g \in Goroutine |-> Idle]
    /\ records = {}
    /\ version = 0
    /\ hub = {}
    /\ mailbox = [s \in Subscriber |-> {}]
    /\ wake = {}
    /\ stopped = {}
    /\ at = [s \in Subscriber |-> "new"]
    /\ net = RemoteUpdates
    /\ calls = 0
    /\ delivered = [s \in Subscriber |-> {}]

RecordOf(a) == {x \in records : x.update.actor = a}
Record(u, now) == [update |-> u, lastSeen |-> now, expired |-> FALSE]

\* activeAtLocked.
ActiveAt(rs, now) ==
    {x.update : x \in {y \in rs : /\ y.update.state # Offline /\ ~y.expired
                                  /\ now - y.lastSeen <= Timeout}}

----------------------------------------------------------------------------
\* What a call does to the records under store.mu: nothing (a set without
\* members), or new records with the update that is published.
Changed(u, now) ==
    {[records |-> (records \ RecordOf(u.actor)) \cup {Record(u, now)}, update |-> {u}]}

Full(a) == RecordOf(a) = {} /\ Cardinality(records) >= MaxActors

\* Heartbeat.
Heartbeat(a, now) ==
    UNION {IF x.update.state = Offline \/ x.update.clock = MaxClock THEN {}
           ELSE Changed(Update(a, x.update.clock + 1, x.update.state), now) : x \in RecordOf(a)}

\* next, for Set and Remove, unless Normalize refuses the state.
NextUpdate(a, st, now) ==
    IF \E x \in RecordOf(a) : x.update.clock = MaxClock THEN {}
    ELSE IF RecordOf(a) = {} THEN IF Full(a) THEN {} ELSE Changed(Update(a, 1, st), now)
    ELSE UNION {Changed(Update(a, x.update.clock + 1, st), now) : x \in RecordOf(a)}

\* next calls Normalize unless the clock is exhausted or the state is the
\* retained one.
Refused(c) ==
    /\ c.op = "set" /\ c.arg.state \in Invalid
    /\ \A x \in RecordOf(c.arg.actor) : x.update.clock # MaxClock

\* Mutated form: a late update replaces a newer one.
ApplyLate(u, now) ==
    IF RecordOf(u.actor) = {} THEN IF Full(u.actor) THEN {} ELSE Changed(u, now)
    ELSE IF \E x \in RecordOf(u.actor) : u.clock = x.update.clock THEN {}
    ELSE Changed(u, now)

\* Apply: older updates, duplicates and conflicts change nothing.
Apply(u, now) ==
    IF RecordOf(u.actor) = {} THEN IF Full(u.actor) THEN {} ELSE Changed(u, now)
    ELSE IF \E x \in RecordOf(u.actor) : u.clock <= x.update.clock THEN {}
    ELSE Changed(u, now)

\* Expire.
Expire(now) ==
    LET gone == {x \in records : /\ x.update.state # Offline /\ ~x.expired
                                 /\ now - x.lastSeen > Timeout}
    IN  IF gone = {} THEN {}
        ELSE {[records |-> (records \ gone) \cup {[x EXCEPT !.expired = TRUE] : x \in gone},
               update |-> {}]}

Outcome(c) ==
    CASE c.op = "set" -> NextUpdate(c.arg.actor, c.arg.state, c.now)
      [] c.op = "remove" -> NextUpdate(c.arg.actor, Offline, c.now)
      [] c.op = "heartbeat" -> Heartbeat(c.arg.actor, c.now)
      [] c.op = "apply" -> Apply(c.arg, c.now)
      [] OTHER -> Expire(c.now)

----------------------------------------------------------------------------
\* A goroutine calls the store and reads the time; only then it locks.
Call(g, op, arg) ==
    /\ call[g] = Idle
    /\ call' = [call EXCEPT ![g] = [op |-> op, arg |-> arg, now |-> time, todo |-> {},
                                    waking |-> {}, step |-> "lock"]]
    /\ calls' = calls + 1
    /\ calls < MaxCalls
    /\ UNCHANGED <<time, mu, records, version, hub, mailbox, wake, stopped, at, net, delivered>>

\* StartExpiry, an iteration of its loop; one that finds no actor to expire is
\* left out.
Tick ==
    /\ call[Timer] = Idle
    /\ Expire(time) # {}
    /\ call' = [call EXCEPT ![Timer] = [op |-> "expire", now |-> time, todo |-> {},
                                        waking |-> {}, step |-> "lock"]]
    /\ UNCHANGED <<time, mu, records, version, hub, mailbox, wake, stopped, at, net, calls,
                   delivered>>

\* subscriber.enqueue, up to the release of subscriber.mu.
Enqueued(s, event) ==
    IF s \in stopped THEN {}
    ELSE {[event EXCEPT !.coalesced =
             IF mailbox[s] = {} THEN 0 ELSE 1 + (CHOOSE e \in mailbox[s] : TRUE).coalesced]}

\* The call goes on to give an event to the subscribers todo.
Publishes(c, todo, event) ==
    [op |-> c.op, step |-> "publish", todo |-> todo, waking |-> {}, event |-> event]

\* The whole call under store.mu, up to hub.publish; a call without effect
\* returns at once.  A refused state returns with store.mu held.
Execute(g) ==
    /\ call[g].step = "lock" /\ call[g].op # "subscribe"
    /\ mu = Free
    /\ LET c == call[g] IN
       IF Refused(c)
       THEN /\ mu' = g
            /\ call' = [call EXCEPT ![g] = Idle]
            /\ UNCHANGED <<records, version, net>>
       ELSE IF Outcome(c) = {}
       THEN /\ call' = [call EXCEPT ![g] = Idle]
            /\ UNCHANGED <<mu, records, version, net>>
       ELSE \E o \in Outcome(c) :
            /\ mu' = g
            /\ records' = o.records
            /\ version' = version + 1
            /\ call' = [call EXCEPT ![g] =
                  Publishes(c, hub, [version |-> version + 1, coalesced |-> 0,
                                     active |-> ActiveAt(o.records, c.now)])]
            /\ net' = IF c.op = "apply" THEN net ELSE net \cup o.update
    /\ UNCHANGED <<time, hub, mailbox, wake, stopped, at, calls, delivered>>

\* SubscribeAt: registration, up to enqueue of the initial event.
Subscribe(g) ==
    /\ call[g].step = "lock" /\ call[g].op = "subscribe"
    /\ mu = Free
    /\ LET s == call[g].arg IN
       IF Cardinality(hub) >= MaxSubscribers
       THEN /\ call' = [call EXCEPT ![g] = Idle]
            /\ UNCHANGED <<mu, hub, at, delivered>>
       ELSE /\ mu' = g
            /\ hub' = hub \cup {s}
            /\ at' = [at EXCEPT ![s] = "select"]
            /\ delivered' = [delivered EXCEPT ![s] =
                  {[version |-> version - 1, coalesced |-> 0, active |-> {}]}]
            /\ call' = [call EXCEPT ![g] =
                  Publishes(@, {s}, [version |-> version, coalesced |-> 0,
                                     active |-> ActiveAt(records, @.now)])]
    /\ UNCHANGED <<time, records, version, mailbox, wake, stopped, net, calls>>

\* subscriber.enqueue: the mailbox under subscriber.mu.
Enqueue(g, s) ==
    /\ s \in call[g].todo /\ call[g].waking = {}
    /\ mailbox' = [mailbox EXCEPT ![s] = Enqueued(s, call[g].event)]
    /\ call' = [call EXCEPT ![g].todo = @ \ {s},
                            ![g].waking = IF s \in stopped THEN {} ELSE {s}]
    /\ UNCHANGED <<time, mu, records, version, hub, wake, stopped, at, net, calls, delivered>>

\* subscriber.enqueue: the non-blocking send on the wake channel.
Wake(g, s) ==
    /\ s \in call[g].waking
    /\ wake' = wake \cup {s}
    /\ call' = [call EXCEPT ![g].waking = {}]
    /\ UNCHANGED <<time, mu, records, version, hub, mailbox, stopped, at, net, calls, delivered>>

\* store.mu.Unlock, and the call returns.
Return(g) ==
    /\ call[g].step = "publish" /\ call[g].todo \cup call[g].waking = {}
    /\ mu' = Free
    /\ call' = [call EXCEPT ![g] = Idle]
    /\ UNCHANGED <<time, records, version, hub, mailbox, wake, stopped, at, net, calls, delivered>>

----------------------------------------------------------------------------
\* hub.mu is held while publish fills and wakes the mailboxes.
HubFree == \A g \in Goroutine : call[g].step = "publish" => call[g].op = "subscribe"

\* unsubscribe, hub.remove; by the host or by the callback that panicked.
Leave(s) ==
    /\ s \in hub /\ HubFree
    /\ \A g \in Goroutine : s \notin call[g].todo \cup call[g].waking
    /\ hub' = hub \ {s}
    /\ UNCHANGED <<time, mu, call, records, version, mailbox, wake, stopped, at, net, calls,
                   delivered>>

\* unsubscribe, stopOnce.
Stop(s) ==
    /\ at[s] # "new" /\ s \notin hub \cup stopped
    /\ stopped' = stopped \cup {s}
    /\ mailbox' = [mailbox EXCEPT ![s] = {}]
    /\ at' = [at EXCEPT ![s] = IF @ = "panicked" THEN "done" ELSE @]
    /\ UNCHANGED <<time, mu, call, records, version, hub, wake, net, calls, delivered>>

\* run: the select, either of its cases when both are ready.
RunStop(s) ==
    /\ at[s] = "select" /\ s \in stopped
    /\ at' = [at EXCEPT ![s] = "done"]
    /\ UNCHANGED <<time, mu, call, records, version, hub, mailbox, wake, stopped, net, calls,
                   delivered>>

RunWake(s) ==
    /\ at[s] = "select" /\ s \in wake
    /\ wake' = wake \ {s}
    /\ at' = [at EXCEPT ![s] = "take"]
    /\ UNCHANGED <<time, mu, call, records, version, hub, mailbox, stopped, net, calls, delivered>>

\* run: the pending event is taken under subscriber.mu and given to the callback.
RunTake(s) ==
    /\ at[s] = "take"
    /\ IF s \in stopped
       THEN at' = [at EXCEPT ![s] = "done"] /\ UNCHANGED <<mailbox, delivered>>
       ELSE /\ mailbox' = [mailbox EXCEPT ![s] = {}]
            /\ at' = [at EXCEPT ![s] = IF mailbox[s] = {} THEN "select" ELSE "callback"]
            /\ delivered' = [delivered EXCEPT ![s] = IF mailbox[s] = {} THEN @ ELSE mailbox[s]]
    /\ UNCHANGED <<time, mu, call, records, version, hub, wake, stopped, net, calls>>

\* Mutated form: also empties the wake channel.
CallbackReturnsDrains(s) ==
    /\ at[s] = "callback"
    /\ at' = [at EXCEPT ![s] = "select"]
    /\ wake' = wake \ {s}
    /\ UNCHANGED <<time, mu, call, records, version, hub, mailbox, stopped, net, calls, delivered>>

CallbackReturns(s) ==
    /\ at[s] = "callback"
    /\ at' = [at EXCEPT ![s] = "select"]
    /\ UNCHANGED <<time, mu, call, records, version, hub, mailbox, wake, stopped, net, calls,
                   delivered>>

\* call recovers from a panic; unsubscribe follows, then the goroutine ends.
CallbackPanics(s) ==
    /\ at[s] = "callback"
    /\ at' = [at EXCEPT ![s] = IF s \in stopped THEN "done" ELSE "panicked"]
    /\ UNCHANGED <<time, mu, call, records, version, hub, mailbox, wake, stopped, net, calls,
                   delivered>>

----------------------------------------------------------------------------
TimePasses ==
    /\ time < MaxTime
    /\ time' = time + 1
    /\ UNCHANGED <<mu, call, records, version, hub, mailbox, wake, stopped, at, net, calls,
                   delivered>>

CallAny(g) ==
    \/ \E a \in Actor, st \in State : Call(g, "set", [actor |-> a, state |-> st])
    \/ \E a \in Actor, op \in {"remove", "heartbeat"} : Call(g, op, [actor |-> a])
    \/ \E u \in net : Call(g, "apply", u)
    \/ \E s \in {r \in Subscriber : at[r] = "new" /\ \A h \in Caller :
                      call[h].op = "subscribe" /\ call[h].step = "lock" => call[h].arg # r} :
          Call(g, "subscribe", s)

Next ==
    \/ \E g \in Caller : CallAny(g)
    \/ Tick
    \/ \E g \in Goroutine : Execute(g) \/ Subscribe(g) \/ Return(g)
                            \/ \E s \in Subscriber : Enqueue(g, s) \/ Wake(g, s)
    \/ \E s \in Subscriber : \/ Leave(s) \/ Stop(s) \/ RunStop(s) \/ RunWake(s) \/ RunTake(s)
                             \/ CallbackReturns(s) \/ CallbackPanics(s)
    \/ TimePasses

Spec == Init /\ [][Next]_vars

\* Goroutines run, callbacks return, the expiry loop keeps ticking and time
\* passes; nobody has to call, unsubscribe or panic.
Fairness ==
    /\ \A g \in Goroutine : WF_vars(Execute(g) \/ Subscribe(g) \/ Return(g)
                                      \/ \E s \in Subscriber : Enqueue(g, s) \/ Wake(g, s))
    /\ \A s \in Subscriber :
          /\ WF_vars(RunStop(s) \/ RunWake(s) \/ RunTake(s) \/ CallbackReturns(s))
          /\ WF_vars(Stop(s) \/ (at[s] = "panicked" /\ Leave(s)))
    /\ WF_vars(Tick) /\ WF_vars(TimePasses)

FairSpec == Spec /\ Fairness

----------------------------------------------------------------------------
\* One clock value of an actor stands for one state, in the store and in every
\* update in transit, although goroutines call Set, Heartbeat and Remove for
\* the same actor at the same time: ErrStateConflict never arises.
ClocksAgree ==
    \A u, v \in net \cup {x.update : x \in records} :
        u.actor = v.actor /\ u.clock = v.clock => u = v

\* What is retained of an actor changes only for a strictly newer clock: a
\* removed or expired actor is not revived by a duplicate, a late update or a
\* call that read the time long ago, and no record is dropped; and two records
\* of one clock never differ.
OnlyNewerRevives ==
    /\ []ClocksAgree
    /\ [][\A x \in records : \E y \in records' :
          /\ y.update.actor = x.update.actor
          /\ y = x \/ y = [x EXCEPT !.expired = TRUE] \/ y.update.clock > x.update.clock]_vars

\* Event.Coalesced "reports how many pending events were replaced": to a
\* subscriber that is told of version v after version u, it accounts for every
\* version in between, the initial one included.
DeliveredExact ==
    [][\A s \in Subscriber : at[s] = "take" /\ at'[s] = "callback" =>
          \A d \in delivered[s], e \in delivered'[s] :
              e.version = d.version + 1 + e.coalesced]_vars

\* When calls have stopped, every subscriber that neither left nor panicked has
\* been shown exactly the actors that are online and not expired: no wake-up is
\* lost, and expiry is noticed although the events' times are out of order.  On
\* the way every event accounts for those it replaced.
SettledView ==
    /\ DeliveredExact
    /\ <>[](\A s \in hub : \A d \in delivered[s] : d.active = ActiveAt(records, MaxTime))

\* The Store "is safe for concurrent UI, timer, and transport goroutines": a
\* call returns.
EveryCallReturns == \A g \in Caller : call[g] # Idle ~> call[g] = Idle
=============================================================================

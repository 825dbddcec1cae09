--------------------------- MODULE ObserversProofs ---------------------------
(***************************************************************************)
(* SubscriberCurrent for any number of subscriptions and of mutations.     *)
(* The invariant follows the newest event of a subscription from the       *)
(* mailbox into the callback and to what was delivered (Newest), and says  *)
(* that an event in a mailbox always has a token, or the sender of one,    *)
(* behind it.                                                              *)
(***************************************************************************)
EXTENDS Observers, TLAPS

Events == [version : Nat, coalesced : Nat, full : BOOLEAN]

Subscriptions ==
    [member : BOOLEAN, pending : Events, wake : BOOLEAN, stopped : BOOLEAN,
     run : {"none", "idle", "woken", "calling", "panicked", "done"}, taken : Events]

Logs == [enqueued : Nat, delivered : Nat, last : Nat]

TypeOK ==
    /\ version \in Nat /\ closed \in BOOLEAN
    /\ holder \in [task : {"rest", "publish", "initial"},
                   to : SUBSET Subscriber, wakes : SUBSET Subscriber]
    /\ sub \in [Subscriber -> Subscriptions]
    /\ log \in [Subscriber -> Logs]

\* The version of the newest event on its way to the callback, or delivered.
Newest(s) ==
    IF sub[s].pending.full THEN sub[s].pending.version
    ELSE IF sub[s].run = "calling" THEN sub[s].taken.version
    ELSE log[s].last

Accounted(s) ==
    log[s].enqueued =
        log[s].delivered
        + (IF sub[s].pending.full THEN 1 + sub[s].pending.coalesced ELSE 0)
        + (IF sub[s].run = "calling" THEN 1 + sub[s].taken.coalesced ELSE 0)

\* A subscription that was not made yet.
Untouched(s) ==
    sub[s].run = "none" =>
        /\ ~sub[s].member /\ ~sub[s].pending.full /\ ~sub[s].wake
        /\ log[s].enqueued = log[s].delivered

Sound(s) ==
    sub[s].member /\ ~sub[s].stopped =>
        /\ s \notin holder.to => Newest(s) = version
        /\ sub[s].pending.full /\ s \notin holder.wakes =>
               sub[s].wake \/ sub[s].run = "woken"
        /\ Accounted(s)

HolderSound ==
    /\ holder.task = "rest" => holder.to = {} /\ holder.wakes = {}
    /\ \A s, t \in holder.wakes : s = t
    /\ \A s \in holder.to \cup holder.wakes : sub[s].run # "none"

Inv ==
    /\ TypeOK /\ HolderSound
    /\ \A s \in Subscriber : Untouched(s) /\ Sound(s)

\* Enqueue, Wake, Remove, StopDelivery, Subscribe and the steps of a goroutine
\* touch one subscription: the invariant of the others stays.
LEMMA OthersKept ==
    ASSUME Inv, NEW s \in Subscriber,
           \A t \in Subscriber : t # s => sub'[t] = sub[t] /\ log'[t] = log[t],
           version' = version,
           \A t \in Subscriber : t # s /\ t \in holder.to => t \in holder'.to,
           \A t \in Subscriber : t # s /\ t \in holder.wakes => t \in holder'.wakes,
           \A t \in Subscriber : t # s /\ t \in holder'.to => t \in holder.to,
           TypeOK', HolderSound', Untouched(s)', Sound(s)'
    PROVE  Inv'
<1>1. ASSUME NEW t \in Subscriber, t # s PROVE Untouched(t)' /\ Sound(t)'
  <2>1. sub'[t] = sub[t] /\ log'[t] = log[t]
    BY <1>1
  <2>2. Untouched(t)'
    BY <2>1 DEF Inv, Untouched
  <2>3. Newest(t)' = Newest(t)
    BY <2>1 DEF Newest
  <2>4. Accounted(t)' = Accounted(t)
    BY <2>1 DEF Accounted
  <2>5. t \in holder.to <=> t \in holder'.to
    BY <1>1
  <2>6. t \in holder.wakes => t \in holder'.wakes
    BY <1>1
  <2>7. Sound(t)
    BY DEF Inv
  <2> QED
    BY <2>1, <2>2, <2>3, <2>4, <2>5, <2>6, <2>7 DEF Sound
<1> QED
  BY <1>1 DEF Inv

LEMMA OneTyped ==
    ASSUME TypeOK, NEW s \in Subscriber, NEW r \in Subscriptions,
           sub' = [sub EXCEPT ![s] = r]
    PROVE  /\ sub' \in [Subscriber -> Subscriptions] /\ sub'[s] = r
           /\ \A t \in Subscriber : t # s => sub'[t] = sub[t]
BY DEF TypeOK

LEMMA OneLogTyped ==
    ASSUME TypeOK, NEW s \in Subscriber, NEW l \in Logs, log' = [log EXCEPT ![s] = l]
    PROVE  log' \in [Subscriber -> Logs]
BY DEF TypeOK

LEMMA InitInv == Init => Inv
<1> SUFFICES ASSUME Init PROVE Inv
  OBVIOUS
<1>1. TypeOK
  BY DEF Init, TypeOK, Rest, NewSubscriber, NoEvent, Subscriptions, Events, Logs
<1>2. HolderSound
  BY DEF Init, HolderSound, Rest
<1>3. \A s \in Subscriber : Untouched(s) /\ Sound(s)
  BY DEF Init, Untouched, Sound, NewSubscriber, NoEvent
<1> QED
  BY <1>1, <1>2, <1>3 DEF Inv

LEMMA Mutated == ASSUME Inv, MutateIf PROVE Inv'
<1> USE DEF MutateIf
<1>1. TypeOK'
  BY DEF Inv, TypeOK, Rest, Members
<1>2. \A s \in Members : sub[s].run # "none"
  BY DEF Inv, Untouched, Members
<1>3. HolderSound'
  BY <1>2 DEF Inv, HolderSound, Rest
<1>4. ASSUME NEW s \in Subscriber PROVE Untouched(s)' /\ Sound(s)'
  <2>1. Untouched(s)'
    BY DEF Inv, Untouched
  <2>2. CASE s \in Members
    <3>1. s \in holder'.to
      BY <2>2
    <3>2. sub[s].pending.full => sub[s].wake \/ sub[s].run = "woken" \/ sub[s].stopped
      BY <2>2 DEF Inv, Sound, Rest, Members
    <3>3. Accounted(s)' \/ sub[s].stopped
      BY <2>2 DEF Inv, Sound, Accounted, Members
    <3> QED
      BY <2>1, <3>1, <3>2, <3>3 DEF Sound
  <2>3. CASE s \notin Members
    BY <2>1, <2>3 DEF Members, Sound
  <2> QED
    BY <2>2, <2>3
<1> QED
  BY <1>1, <1>3, <1>4 DEF Inv

LEMMA Closed == ASSUME Inv, Close PROVE Inv'
<1>1. TypeOK'
  BY DEF Inv, TypeOK, Close, Subscriptions
<1>2. ASSUME NEW s \in Subscriber
      PROVE  /\ sub'[s].member = FALSE
             /\ sub'[s].run = sub[s].run /\ sub'[s].pending = sub[s].pending
             /\ sub'[s].wake = sub[s].wake
  BY DEF Inv, TypeOK, Close, Subscriptions
<1>3. HolderSound'
  BY <1>2 DEF Inv, HolderSound, Close, TypeOK, Rest
<1>4. ASSUME NEW s \in Subscriber PROVE Untouched(s)' /\ Sound(s)'
  BY <1>2 DEF Inv, Untouched, Sound, Close
<1> QED
  BY <1>1, <1>3, <1>4 DEF Inv

LEMMA Unlocked == ASSUME Inv, Unlock PROVE Inv'
<1>1. TypeOK'
  BY DEF Inv, TypeOK, Unlock, Rest
<1>2. HolderSound'
  BY DEF HolderSound, Unlock, Rest
<1>3. ASSUME NEW s \in Subscriber PROVE Untouched(s)' /\ Sound(s)'
  <2>1. Newest(s)' = Newest(s) /\ Accounted(s)' = Accounted(s)
    BY DEF Unlock, Newest, Accounted
  <2> QED
    BY <2>1 DEF Inv, Untouched, Sound, Unlock, Rest
<1> QED
  BY <1>1, <1>2, <1>3 DEF Inv

LEMMA Subscribed ==
    ASSUME Inv, NEW s \in Subscriber, NEW initial \in BOOLEAN, Subscribe(s, initial)
    PROVE  Inv'
<1> USE DEF Subscribe
<1>1. TypeOK'
  BY DEF Inv, TypeOK, Rest, Subscriptions, Logs
<1>2. /\ sub'[s].run = "idle" /\ sub'[s].pending = sub[s].pending
      /\ log'[s].last = version
      /\ log'[s].enqueued = log[s].enqueued /\ log'[s].delivered = log[s].delivered
  BY DEF Inv, TypeOK, Subscriptions, Logs
<1>3. HolderSound'
  BY <1>2 DEF HolderSound, Rest
<1>4. Untouched(s)'
  BY <1>2 DEF Untouched
<1>5. Sound(s)'
  <2>1. ~sub[s].pending.full /\ log[s].enqueued = log[s].delivered
    BY DEF Inv, Untouched
  <2>2. log[s].delivered \in Nat
    BY DEF Inv, TypeOK, Logs
  <2> QED
    BY <1>2, <2>1, <2>2 DEF Sound, Newest, Accounted
<1>6. \A t \in Subscriber : t # s => sub'[t] = sub[t] /\ log'[t] = log[t]
  BY DEF Inv, TypeOK
<1>7. holder.to = {} /\ holder.wakes = {} /\ holder'.to \subseteq {s}
  BY DEF Rest
<1> QED
  BY <1>1, <1>3, <1>4, <1>5, <1>6, <1>7, OthersKept

\* An event enters the mailbox: its version is the store's, and the sender of
\* its token is the holder of the lock.
LEMMA Enqueued == ASSUME Inv, NEW s \in Subscriber, Enqueue(s) PROVE Inv'
<1> USE DEF Enqueue
<1>1. CASE sub[s].stopped
  <2>1. TypeOK'
    BY <1>1 DEF Inv, TypeOK
  <2>2. holder'.to = holder.to \ {s} /\ holder'.wakes = holder.wakes /\ holder'.task = holder.task
    BY <1>1 DEF Inv, TypeOK
  <2>3. HolderSound'
    BY <1>1, <2>2 DEF Inv, HolderSound
  <2>4. Untouched(s)' /\ Sound(s)'
    BY <1>1 DEF Inv, Untouched, Sound
  <2> QED
    BY <1>1, <2>1, <2>2, <2>3, <2>4, OthersKept
<1>2. CASE ~sub[s].stopped
  <2> DEFINE e == [Event(version) EXCEPT !.coalesced =
                     IF sub[s].pending.full THEN sub[s].pending.coalesced + 1 ELSE 0]
             r == [sub[s] EXCEPT !.pending = e]
  <2>e. sub[s].pending.full => sub[s].pending.coalesced + 1 \in Nat
    BY DEF Inv, TypeOK, Subscriptions, Events, Logs
  <2>a. e \in Events
    BY <2>e DEF Event, Inv, TypeOK, Events
  <2>b. r \in Subscriptions
    BY <2>a DEF Inv, TypeOK, Subscriptions
  <2>c. sub' = [sub EXCEPT ![s] = r]
    BY <1>2
  <2>d. sub' \in [Subscriber -> Subscriptions]
    BY <2>b, <2>c, OneTyped DEF Inv
  <2>f. log' \in [Subscriber -> Logs]
    <3> DEFINE l == [log[s] EXCEPT !.enqueued = @ + 1]
    <3>1. l \in Logs
      BY DEF Inv, TypeOK, Logs
    <3>2. log' = [log EXCEPT ![s] = l]
      BY <1>2
    <3> QED
      BY <3>1, <3>2, OneLogTyped DEF Inv
  <2>g. holder' \in [task : {"rest", "publish", "initial"},
                     to : SUBSET Subscriber, wakes : SUBSET Subscriber]
    <3>1. holder' = [holder EXCEPT !.to = @ \ {s}, !.wakes = {s}]
      BY <1>2
    <3>2. holder.to \ {s} \in SUBSET Subscriber /\ {s} \in SUBSET Subscriber
      BY DEF Inv, TypeOK
    <3> QED
      BY <3>1, <3>2 DEF Inv, TypeOK
  <2>1. TypeOK'
    BY <2>d, <2>f, <2>g DEF Inv, TypeOK
  <2>2. holder'.to = holder.to \ {s} /\ holder'.wakes = {s} /\ holder'.task = holder.task
    BY <1>2 DEF Inv, TypeOK
  <2>3. /\ sub'[s].pending.full /\ sub'[s].pending.version = version
        /\ sub'[s].pending.coalesced =
               IF sub[s].pending.full THEN sub[s].pending.coalesced + 1 ELSE 0
        /\ sub'[s].run = sub[s].run /\ sub'[s].taken = sub[s].taken
        /\ sub'[s].member = sub[s].member
        /\ log'[s].enqueued = log[s].enqueued + 1
        /\ log'[s].delivered = log[s].delivered
    BY <1>2 DEF Inv, TypeOK, Event, Subscriptions, Events, Logs
  <2>4. sub[s].run # "none"
    BY DEF Inv, HolderSound
  <2>5. \A t \in Subscriber : t # s => sub'[t] = sub[t] /\ log'[t] = log[t]
    BY <1>2 DEF Inv, TypeOK
  <2>6. HolderSound'
    BY <2>2, <2>3, <2>4, <2>5 DEF Inv, HolderSound, TypeOK
  <2>7. Untouched(s)'
    BY <2>3, <2>4 DEF Untouched
  <2>8. Sound(s)'
    <3>1. /\ log[s].enqueued \in Nat /\ log[s].delivered \in Nat
          /\ sub[s].pending.coalesced \in Nat /\ sub[s].taken.coalesced \in Nat
      BY DEF Inv, TypeOK, Subscriptions, Events, Logs
    <3>2. sub[s].member => Accounted(s)
      BY <1>2 DEF Inv, Sound
    <3>3. sub[s].member => Accounted(s)'
      BY <2>3, <3>1, <3>2 DEF Accounted
    <3> QED
      BY <2>2, <2>3, <3>3 DEF Sound, Newest
  <2> QED
    BY <2>1, <2>2, <2>5, <2>6, <2>7, <2>8, OthersKept
<1> QED
  BY <1>1, <1>2

LEMMA Woken == ASSUME Inv, NEW s \in Subscriber, Wake(s) PROVE Inv'
<1> USE DEF Wake
<1>1. TypeOK'
  BY DEF Inv, TypeOK, Subscriptions
<1>2. holder'.to = holder.to /\ holder'.wakes = {} /\ holder'.task = holder.task
  BY DEF Inv, TypeOK
<1>3. /\ sub'[s].wake /\ sub'[s].pending = sub[s].pending /\ sub'[s].run = sub[s].run
      /\ sub'[s].taken = sub[s].taken /\ sub'[s].member = sub[s].member
      /\ sub'[s].stopped = sub[s].stopped /\ log' = log
  BY DEF Inv, TypeOK, Subscriptions
<1>4. sub[s].run # "none"
  BY DEF Inv, HolderSound
<1>5. \A t \in Subscriber : t # s => sub'[t] = sub[t]
  BY DEF Inv, TypeOK
<1>6. HolderSound'
  BY <1>2, <1>3, <1>5 DEF Inv, HolderSound, TypeOK
<1>7. Untouched(s)'
  BY <1>3, <1>4 DEF Untouched
<1>8. Sound(s)'
  BY <1>2, <1>3 DEF Inv, Sound, Newest, Accounted
<1>9. \A t \in holder.wakes : t = s
  BY DEF Inv, HolderSound
<1> QED
  BY <1>1, <1>2, <1>3, <1>5, <1>6, <1>7, <1>8, <1>9, OthersKept

\* The steps that leave the holder of the lock alone.
LEMMA HolderKept ==
    ASSUME Inv, NEW s \in Subscriber, UNCHANGED <<version, holder>>,
           \A t \in Subscriber : t # s => sub'[t] = sub[t] /\ log'[t] = log[t],
           TypeOK', sub[s].run # "none", sub'[s].run # "none", Sound(s)'
    PROVE  Inv'
<1>1. HolderSound'
  BY DEF Inv, HolderSound, TypeOK
<1>2. Untouched(s)'
  BY DEF Untouched
<1> QED
  BY <1>1, <1>2, OthersKept

LEMMA Removed == ASSUME Inv, NEW s \in Subscriber, Remove(s) PROVE Inv'
<1> DEFINE r == [sub[s] EXCEPT !.member = FALSE]
<1>a. r \in Subscriptions /\ r.member = FALSE /\ r.run = sub[s].run
  BY DEF Inv, TypeOK, Subscriptions
<1>b. sub' = [sub EXCEPT ![s] = r]
  BY DEF Remove
<1> HIDE DEF r
<1>1. TypeOK'
  BY <1>a, <1>b, OneTyped DEF Remove, Inv, TypeOK
<1>2. sub'[s].member = FALSE /\ sub'[s].run = sub[s].run
  BY <1>a, <1>b, OneTyped DEF Inv
<1>3. sub[s].run # "none"
  BY DEF Remove, Inv, Untouched
<1>4. \A t \in Subscriber : t # s => sub'[t] = sub[t] /\ log'[t] = log[t]
  BY DEF Remove, Inv, TypeOK
<1>5. Sound(s)'
  BY <1>2 DEF Sound
<1> QED
  BY <1>1, <1>2, <1>3, <1>4, <1>5, HolderKept DEF Remove

LEMMA Stopped == ASSUME Inv, NEW s \in Subscriber, StopDelivery(s) PROVE Inv'
<1> DEFINE r == [sub[s] EXCEPT !.stopped = TRUE, !.pending = NoEvent]
<1>a. NoEvent \in Events
  BY DEF NoEvent, Events
<1>b. r \in Subscriptions /\ r.stopped /\ r.run = sub[s].run
  BY <1>a DEF Inv, TypeOK, Subscriptions
<1>c. sub' = [sub EXCEPT ![s] = r]
  BY DEF StopDelivery
<1> HIDE DEF r
<1>1. TypeOK'
  BY <1>b, <1>c, OneTyped DEF StopDelivery, Inv, TypeOK
<1>2. sub'[s].stopped /\ sub'[s].run = sub[s].run
  BY <1>b, <1>c, OneTyped DEF Inv
<1>3. \A t \in Subscriber : t # s => sub'[t] = sub[t] /\ log'[t] = log[t]
  BY DEF StopDelivery, Inv, TypeOK
<1>4. Sound(s)'
  BY <1>2 DEF Sound
<1> QED
  BY <1>1, <1>2, <1>3, <1>4, HolderKept DEF StopDelivery

LEMMA Received == ASSUME Inv, NEW s \in Subscriber, Receive(s) PROVE Inv'
<1>a. PICK r \in Subscriptions :
        /\ sub' = [sub EXCEPT ![s] = r]
        /\ r.pending = sub[s].pending /\ r.member = sub[s].member
        /\ r.stopped = sub[s].stopped
        /\ (r.run = "done" /\ sub[s].stopped) \/ r.run = "woken"
  <2> DEFINE done == [sub[s] EXCEPT !.run = "done"]
             woken == [sub[s] EXCEPT !.run = "woken", !.wake = FALSE]
  <2>1. done \in Subscriptions /\ woken \in Subscriptions
    BY DEF Inv, TypeOK, Subscriptions
  <2>2. \/ sub' = [sub EXCEPT ![s] = done] /\ sub[s].stopped
        \/ sub' = [sub EXCEPT ![s] = woken]
    BY DEF Receive
  <2>3. CASE sub' = [sub EXCEPT ![s] = done] /\ sub[s].stopped
    BY <2>1, <2>3 DEF Inv, TypeOK, Subscriptions
  <2>4. CASE sub' = [sub EXCEPT ![s] = woken]
    BY <2>1, <2>4 DEF Inv, TypeOK, Subscriptions
  <2> QED
    BY <2>2, <2>3, <2>4
<1>1. TypeOK'
  BY <1>a, OneTyped DEF Receive, Inv, TypeOK
<1>2. /\ sub'[s].pending = sub[s].pending /\ sub'[s].member = sub[s].member
      /\ sub'[s].stopped = sub[s].stopped /\ sub[s].run = "idle"
      /\ \/ sub'[s].run = "done" /\ sub[s].stopped
         \/ sub'[s].run = "woken"
  BY <1>a, OneTyped DEF Receive, Inv
<1>3. \A t \in Subscriber : t # s => sub'[t] = sub[t] /\ log'[t] = log[t]
  BY DEF Receive, Inv, TypeOK
<1>4. Sound(s)'
  BY <1>2 DEF Receive, Inv, Sound, Newest, Accounted
<1> QED
  BY <1>1, <1>2, <1>3, <1>4, HolderKept DEF Receive

LEMMA Looked == ASSUME Inv, NEW s \in Subscriber, Look(s) PROVE Inv'
<1> DEFINE r == [sub[s] EXCEPT
                   !.run = IF sub[s].stopped THEN "done"
                           ELSE IF sub[s].pending.full THEN "calling" ELSE "idle",
                   !.taken = IF sub[s].stopped THEN NoEvent ELSE sub[s].pending,
                   !.pending = NoEvent]
<1>a. NoEvent \in Events /\ ~NoEvent.full
  BY DEF NoEvent, Events
<1>b. r \in Subscriptions
  BY <1>a DEF Inv, TypeOK, Subscriptions
<1>c. /\ r.member = sub[s].member /\ r.stopped = sub[s].stopped /\ ~r.pending.full
      /\ r.run = IF sub[s].stopped THEN "done"
                 ELSE IF sub[s].pending.full THEN "calling" ELSE "idle"
      /\ ~sub[s].stopped => r.taken = sub[s].pending
  BY <1>a DEF Inv, TypeOK, Subscriptions
<1>d. sub' = [sub EXCEPT ![s] = r]
  BY DEF Look
<1> HIDE DEF r
<1>1. TypeOK'
  BY <1>b, <1>d, OneTyped DEF Look, Inv, TypeOK
<1>2. /\ sub'[s].member = sub[s].member /\ sub'[s].stopped = sub[s].stopped
      /\ ~sub'[s].pending.full /\ sub[s].run = "woken"
      /\ sub'[s].run = IF sub[s].stopped THEN "done"
                       ELSE IF sub[s].pending.full THEN "calling" ELSE "idle"
      /\ ~sub[s].stopped => sub'[s].taken = sub[s].pending
  BY <1>b, <1>c, <1>d, OneTyped DEF Look, Inv
<1>3. \A t \in Subscriber : t # s => sub'[t] = sub[t] /\ log'[t] = log[t]
  BY DEF Look, Inv, TypeOK
<1>4. Sound(s)'
  <2>1. /\ log[s].enqueued \in Nat /\ log[s].delivered \in Nat
        /\ sub[s].pending.coalesced \in Nat
    BY DEF Inv, TypeOK, Subscriptions, Events, Logs
  <2>2. Sound(s)
    BY DEF Inv
  <2> QED
    BY <1>2, <2>1, <2>2 DEF Look, Sound, Newest, Accounted
<1>5. sub[s].run # "none" /\ sub'[s].run # "none"
  BY <1>2
<1> QED
  BY <1>1, <1>3, <1>4, <1>5, HolderKept DEF Look

LEMMA Delivered == ASSUME Inv, NEW s \in Subscriber, Call(s) PROVE Inv'
<1>a. PICK r \in Subscriptions :
        /\ sub' = [sub EXCEPT ![s] = r]
        /\ r.pending = sub[s].pending /\ r.member = sub[s].member
        /\ r.stopped = sub[s].stopped /\ r.wake = sub[s].wake
        /\ r.run \in {"idle", "panicked"}
  <2> DEFINE panicked == [sub[s] EXCEPT !.run = "panicked"]
  <2>1. NoEvent \in Events
    BY DEF NoEvent, Events
  <2>2. Returned(s) \in Subscriptions /\ panicked \in Subscriptions
    BY <2>1 DEF Returned, Inv, TypeOK, Subscriptions
  <2>3. sub' = [sub EXCEPT ![s] = Returned(s)] \/ sub' = [sub EXCEPT ![s] = panicked]
    BY DEF Call
  <2>4. CASE sub' = [sub EXCEPT ![s] = Returned(s)]
    BY <2>2, <2>4 DEF Returned, Inv, TypeOK, Subscriptions
  <2>5. CASE sub' = [sub EXCEPT ![s] = panicked]
    BY <2>2, <2>5 DEF Inv, TypeOK, Subscriptions
  <2> QED
    BY <2>3, <2>4, <2>5
<1>b. log' \in [Subscriber -> Logs]
  <2>1. sub[s].taken.coalesced \in Nat /\ sub[s].taken.version \in Nat
    BY DEF Inv, TypeOK, Subscriptions, Events, Logs
  <2> DEFINE l == [log[s] EXCEPT !.delivered = @ + 1 + sub[s].taken.coalesced,
                                 !.last = sub[s].taken.version]
  <2>2. l \in Logs
    <3>1. log[s] \in Logs
      BY DEF Inv, TypeOK
    <3>2. log[s].delivered + 1 + sub[s].taken.coalesced \in Nat
      BY <2>1, <3>1 DEF Logs
    <3> QED
      BY <2>1, <3>1, <3>2 DEF Logs
  <2>3. log' = [log EXCEPT ![s] = l]
    BY DEF Call
  <2> QED
    BY <2>2, <2>3, OneLogTyped DEF Inv
<1>1. TypeOK'
  BY <1>a, <1>b, OneTyped DEF Call, Inv, TypeOK
<1>2. /\ sub'[s].member = sub[s].member /\ sub'[s].stopped = sub[s].stopped
      /\ sub'[s].pending = sub[s].pending /\ sub'[s].wake = sub[s].wake
      /\ sub[s].run = "calling" /\ sub'[s].run \in {"idle", "panicked"}
      /\ log'[s].last = sub[s].taken.version
      /\ log'[s].enqueued = log[s].enqueued
      /\ log'[s].delivered = log[s].delivered + 1 + sub[s].taken.coalesced
  <2>1. /\ log'[s].last = sub[s].taken.version
        /\ log'[s].enqueued = log[s].enqueued
        /\ log'[s].delivered = log[s].delivered + 1 + sub[s].taken.coalesced
    BY DEF Call, Inv, TypeOK, Logs
  <2> QED
    BY <1>a, <2>1, OneTyped DEF Call, Inv
<1>3. \A t \in Subscriber : t # s => sub'[t] = sub[t] /\ log'[t] = log[t]
  BY DEF Call, Inv, TypeOK
<1>4. Sound(s)'
  <2>1. /\ log[s].enqueued \in Nat /\ log[s].delivered \in Nat
        /\ sub[s].pending.coalesced \in Nat /\ sub[s].taken.coalesced \in Nat
    BY DEF Inv, TypeOK, Subscriptions, Events, Logs
  <2>2. Sound(s)
    BY DEF Inv
  <2> QED
    BY <1>2, <2>1, <2>2 DEF Call, Sound, Newest, Accounted
<1> QED
  BY <1>1, <1>2, <1>3, <1>4, HolderKept DEF Call

LEMMA Ended == ASSUME Inv, NEW s \in Subscriber, Panicked(s) PROVE Inv'
<1>1. TypeOK'
  BY DEF Panicked, Inv, TypeOK, Subscriptions
<1>2. sub'[s].stopped /\ sub'[s].run = "done"
  BY DEF Panicked, Inv, TypeOK, Subscriptions
<1>3. \A t \in Subscriber : t # s => sub'[t] = sub[t] /\ log'[t] = log[t]
  BY DEF Panicked, Inv, TypeOK
<1>4. Sound(s)'
  BY <1>2 DEF Sound
<1> QED
  BY <1>1, <1>2, <1>3, <1>4, HolderKept DEF Panicked

LEMMA NextInv == Inv /\ [Next]_vars => Inv'
<1> SUFFICES ASSUME Inv, [Next]_vars PROVE Inv'
  OBVIOUS
<1>1. CASE UNCHANGED vars
  BY <1>1 DEF vars, Inv, TypeOK, HolderSound, Untouched, Sound, Newest, Accounted
<1> QED
  BY <1>1, Mutated, Unlocked, Closed, Subscribed, Enqueued, Woken, Removed, Stopped,
     Received, Looked, Delivered, Ended DEF Next

\* hub.publish and subscription.run: for any number of subscriptions, a
\* subscriber that waits without a token has been given the present version,
\* and no event of a mailbox is lost or counted twice.
THEOREM ObserversSubscriberCurrent == Spec => []SubscriberCurrent
<1>1. Inv => SubscriberCurrent
  BY DEF Inv, HolderSound, Sound, Newest, Accounted, SubscriberCurrent, Members, Rest
<1> QED
  BY <1>1, InitInv, NextInv, PTL DEF Spec
=============================================================================

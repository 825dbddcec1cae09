----------------------------- MODULE MergeLocks -----------------------------
(***************************************************************************)
(* The locks of set/orset.go while goroutines merge observed-remove sets   *)
(* into one another.  Merge holds the destination for writing and the      *)
(* source for reading, taken in the order of the lock ids that the         *)
(* constructors assigned; the other methods hold the lock of one set.      *)
(*                                                                         *)
(* sync.RWMutex is external: the writer that has announced itself keeps    *)
(* later readers out, waits for the readers that are in, and lets the      *)
(* readers that came meanwhile in when it leaves.                          *)
(***************************************************************************)
EXTENDS Naturals, Sequences

CONSTANTS
    Goroutine,
    Set         \* the sets, named by their lockID

\* What the proofs assume: lock ids are natural numbers, of which finitely many
\* have been assigned, so that any of them have a greatest.
LockAssumption ==
    /\ "nobody" \notin Goroutine
    /\ Set \subseteq Nat
    /\ \A ids \in SUBSET Set : ids # {} => \E m \in ids : \A s \in ids : s <= m

VARIABLES
    mu,         \* the RWMutex of each set: announced writer, readers, readers kept out
    todo        \* what each goroutine still has to lock, and what it holds

vars == <<mu, todo>>

Nobody == "nobody"
Idle == [locks |-> <<>>, held |-> <<>>, asked |-> FALSE]

Init ==
    /\ mu = [s \in Set |-> [writer |-> Nobody, readers |-> {}, kept |-> {}]]
    /\ todo = [g \in Goroutine |-> Idle]

W(s) == [set |-> s, write |-> TRUE]
R(s) == [set |-> s, write |-> FALSE]

\* Mutated form: the destination first, whatever the ids.
LockOrderReceiver(destination, source) == <<W(destination), R(source)>>

\* lockORSetMerge.
LockOrder(destination, source) ==
    IF destination < source THEN <<W(destination), R(source)>>
                            ELSE <<R(source), W(destination)>>

\* The locks that a call takes: Merge, unless a set is merged into itself, and the
\* methods that change or read one set.
Calls ==
    {LockOrder(p[1], p[2]) : p \in {q \in Set \X Set : q[1] # q[2]}}
        \cup {<<W(s)>> : s \in Set} \cup {<<R(s)>> : s \in Set}

Call(g) ==
    /\ todo[g] = Idle
    /\ \E c \in Calls : todo' = [todo EXCEPT ![g].locks = c]
    /\ UNCHANGED mu

Wanted(g) == Head(todo[g].locks)

\* RLock and Lock arrive at the mutex.
Ask(g) ==
    /\ todo[g].locks # <<>> /\ ~todo[g].asked
    /\ LET m == mu[Wanted(g).set] IN
       mu' = [mu EXCEPT ![Wanted(g).set] =
                CASE Wanted(g).write       -> [m EXCEPT !.writer = g]
                  [] ~Wanted(g).write /\ m.writer = Nobody -> [m EXCEPT !.readers = @ \cup {g}]
                  [] OTHER                 -> [m EXCEPT !.kept = @ \cup {g}]]
    /\ Wanted(g).write => mu[Wanted(g).set].writer = Nobody
    /\ todo' = [todo EXCEPT ![g].asked = TRUE]

\* The mutex is g's.
Granted(g) ==
    LET m == mu[Wanted(g).set] IN
    IF Wanted(g).write THEN m.writer = g /\ m.readers = {} ELSE g \in m.readers

Acquire(g) ==
    /\ todo[g].asked /\ Granted(g)
    /\ todo' = [todo EXCEPT ![g] = [locks |-> Tail(@.locks), asked |-> FALSE,
                                    held |-> <<Wanted(g)>> \o @.held]]
    /\ UNCHANGED mu

\* unlockORSetMerge, once the work is done: the last lock taken is the first freed.
Unlock(g) ==
    /\ todo[g].locks = <<>> /\ todo[g].held # <<>>
    /\ LET l == Head(todo[g].held)
           m == mu[l.set] IN
       mu' = [mu EXCEPT ![l.set] =
                IF l.write THEN [writer |-> Nobody, readers |-> m.kept, kept |-> {}]
                           ELSE [m EXCEPT !.readers = @ \ {g}]]
    /\ todo' = [todo EXCEPT ![g].held = Tail(@)]

Next == \E g \in Goroutine : Call(g) \/ Ask(g) \/ Acquire(g) \/ Unlock(g)

Spec == Init /\ [][Next]_vars

----------------------------------------------------------------------------
\* A goroutine in a lock call that cannot return or get further now.
Waiting(g) ==
    /\ todo[g].locks # <<>>
    /\ IF todo[g].asked THEN ~Granted(g)
       ELSE Wanted(g).write /\ mu[Wanted(g).set].writer # Nobody

Holds(g, s, write) == \E i \in DOMAIN todo[g].held : todo[g].held[i] = [set |-> s, write |-> write]

\* ORSet.Merge: whatever sets the goroutines merge into one another, in whatever
\* direction, one that is at work can go on; and a set that one holds for writing
\* is held by no other.
MergesNeverDeadlock ==
    /\ (\E g \in Goroutine : todo[g] # Idle) =>
          \E g \in Goroutine : todo[g] # Idle /\ ~Waiting(g)
    /\ \A g, h \in Goroutine, s \in Set :
          g # h /\ Holds(g, s, TRUE) => ~Holds(h, s, TRUE) /\ ~Holds(h, s, FALSE)
=============================================================================

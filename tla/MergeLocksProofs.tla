-------------------------- MODULE MergeLocksProofs --------------------------
(***************************************************************************)
(* The proof that merges never deadlock, for any number of goroutines and  *)
(* sets.  The invariant says who is registered at a mutex: those that hold *)
(* it and those that have asked for it; and that a goroutine wants locks   *)
(* with greater ids than those it holds.  Were everybody waiting, whoever  *)
(* holds what a goroutine waits for would wait for a greater id.           *)
(***************************************************************************)
EXTENDS MergeLocks, SequenceTheorems, TLAPS

Lock == [set : Set, write : BOOLEAN]

Held(g) == {todo[g].held[i] : i \in DOMAIN todo[g].held}
Asked(g) == IF todo[g].asked THEN {Wanted(g)} ELSE {}

TypeOK ==
    /\ mu \in [Set -> [writer : Goroutine \cup {Nobody},
                       readers : SUBSET Goroutine, kept : SUBSET Goroutine]]
    /\ todo \in [Goroutine -> [locks : Seq(Lock), held : Seq(Lock), asked : BOOLEAN]]

\* What a goroutine wants comes after what it holds, and the next lock first.
Ordered(t) ==
    /\ t.asked => t.locks # <<>>
    /\ \A i \in DOMAIN t.locks, j \in DOMAIN t.held : t.held[j].set < t.locks[i].set
    /\ \A i, j \in DOMAIN t.locks : i < j => t.locks[i].set < t.locks[j].set
    /\ \A i, j \in DOMAIN t.held : t.held[i].set = t.held[j].set => i = j

\* The mutex m of set s: who is registered at it, and why.
MutexOK(m, s) ==
    /\ \A g \in Goroutine :
          /\ m.writer = g <=> W(s) \in Held(g) \cup Asked(g)
          /\ g \in m.readers => R(s) \in Held(g) \cup Asked(g)
          /\ R(s) \in Held(g) => g \in m.readers
          /\ R(s) \in Asked(g) => g \in m.readers \cup m.kept
          /\ g \in m.kept => R(s) \in Asked(g) /\ g \notin m.readers
          /\ W(s) \in Held(g) => m.readers = {}
    /\ m.kept # {} => m.writer # Nobody

LocksInv ==
    /\ TypeOK
    /\ \A g \in Goroutine : Ordered(todo[g])
    /\ \A s \in Set : MutexOK(mu[s], s)

LEMMA CallShape ==
    ASSUME LockAssumption, NEW c \in Calls
    PROVE  /\ c \in Seq(Lock) /\ Len(c) <= 2
           /\ \A i, j \in DOMAIN c : i < j => c[i].set < c[j].set
<1>1. ASSUME NEW s \in Set
      PROVE  W(s) \in Lock /\ R(s) \in Lock /\ W(s).set = s /\ R(s).set = s
  BY DEF W, R, Lock
<1>2. ASSUME NEW l \in Lock, c = <<l>>
      PROVE  /\ c \in Seq(Lock) /\ Len(c) <= 2
             /\ \A i, j \in DOMAIN c : i < j => c[i].set < c[j].set
  BY <1>2
<1>3. ASSUME NEW l \in Lock, NEW m \in Lock, l.set < m.set, c = <<l, m>>
      PROVE  /\ c \in Seq(Lock) /\ Len(c) <= 2
             /\ \A i, j \in DOMAIN c : i < j => c[i].set < c[j].set
  <2>1. c \in Seq(Lock) /\ Len(c) = 2 /\ DOMAIN c = {1, 2} /\ c[1] = l /\ c[2] = m
    BY <1>3
  <2> QED
    BY <1>3, <2>1
<1>4. CASE \E s \in Set : c = <<W(s)>> \/ c = <<R(s)>>
  BY <1>1, <1>2, <1>4
<1>5. CASE \E d, s \in Set : d # s /\ c = LockOrder(d, s)
  <2>1. PICK d \in Set, s \in Set : d # s /\ c = LockOrder(d, s)
    BY <1>5
  <2>2. d \in Nat /\ s \in Nat
    BY DEF LockAssumption
  <2>3. CASE d < s
    BY <1>1, <1>3, <2>1, <2>3 DEF LockOrder
  <2>4. CASE s < d
    <3>1. c = <<R(s), W(d)>>
      BY <2>1, <2>2, <2>4 DEF LockOrder
    <3> QED
      BY <1>1, <1>3, <2>4, <3>1
  <2> QED
    BY <2>1, <2>2, <2>3, <2>4
<1> QED
  BY <1>4, <1>5 DEF Calls

LEMMA HeldPushed ==
    ASSUME NEW l \in Lock, NEW h \in Seq(Lock)
    PROVE  LET k == <<l>> \o h IN
           /\ k \in Seq(Lock) /\ Len(k) = Len(h) + 1
           /\ k[1] = l /\ \A i \in 1..Len(h) : k[i + 1] = h[i]
           /\ {k[i] : i \in DOMAIN k} = {l} \cup {h[i] : i \in DOMAIN h}
<1> DEFINE k == <<l>> \o h
<1>1. /\ k \in Seq(Lock) /\ Len(k) = Len(h) + 1 /\ Len(h) \in Nat
      /\ k[1] = l /\ \A i \in 1..Len(h) : k[i + 1] = h[i]
  OBVIOUS
<1>2. DOMAIN k = 1..(Len(h) + 1) /\ DOMAIN h = 1..Len(h)
  BY <1>1
<1> HIDE DEF k
<1>3. \A i \in DOMAIN k : k[i] \in {l} \cup {h[j] : j \in DOMAIN h}
  <2> SUFFICES ASSUME NEW i \in 1..(Len(h) + 1), i # 1
               PROVE  \E j \in 1..Len(h) : k[i] = h[j]
    BY <1>1, <1>2
  <2>1. i - 1 \in 1..Len(h) /\ k[i] = h[i - 1]
    BY <1>1
  <2> QED
    BY <2>1
<1>4. \A j \in DOMAIN h : j + 1 \in DOMAIN k /\ k[j + 1] = h[j]
  BY <1>1, <1>2
<1>5. {k[i] : i \in DOMAIN k} = {l} \cup {h[i] : i \in DOMAIN h}
  BY <1>1, <1>2, <1>3, <1>4
<1> QED
  BY <1>1, <1>5 DEF k

LEMMA HeldPopped ==
    ASSUME NEW h \in Seq(Lock), h # <<>>,
           \A i, j \in DOMAIN h : h[i].set = h[j].set => i = j
    PROVE  /\ Tail(h) \in Seq(Lock) /\ Len(Tail(h)) = Len(h) - 1 /\ Head(h) \in Lock
           /\ \A i \in 1..Len(Tail(h)) : Tail(h)[i] = h[i + 1]
           /\ {Tail(h)[i] : i \in DOMAIN Tail(h)} = {h[i] : i \in DOMAIN h} \ {Head(h)}
           /\ \A i \in DOMAIN Tail(h) : Tail(h)[i].set # Head(h).set
<1> DEFINE k == Tail(h)
<1>1. /\ k \in Seq(Lock) /\ Len(k) = Len(h) - 1 /\ Len(h) \in Nat /\ Len(h) >= 1
      /\ Head(h) = h[1] /\ Head(h) \in Lock
      /\ \A i \in 1..Len(k) : k[i] = h[i + 1]
  OBVIOUS
<1>2. DOMAIN k = 1..(Len(h) - 1) /\ DOMAIN h = 1..Len(h)
  BY <1>1
<1> HIDE DEF k
<1>3. \A i \in DOMAIN k : i + 1 \in DOMAIN h /\ i + 1 # 1 /\ 1 \in DOMAIN h /\ k[i] = h[i + 1]
  BY <1>1, <1>2
<1>4. \A i \in DOMAIN k : k[i].set # Head(h).set
  BY <1>1, <1>3
<1>5. \A j \in DOMAIN h : j # 1 => j - 1 \in DOMAIN k /\ k[j - 1] = h[j]
  BY <1>1, <1>2
<1>6. {k[i] : i \in DOMAIN k} = {h[i] : i \in DOMAIN h} \ {Head(h)}
  <2>1. ASSUME NEW i \in DOMAIN k PROVE k[i] \in {h[j] : j \in DOMAIN h} \ {Head(h)}
    BY <1>3, <1>4
  <2>2. ASSUME NEW j \in DOMAIN h, h[j] # Head(h) PROVE h[j] \in {k[i] : i \in DOMAIN k}
    <3>1. j # 1
      BY <1>1, <2>2
    <3> QED
      BY <1>5, <3>1
  <2> QED
    BY <2>1, <2>2
<1> QED
  BY <1>1, <1>4, <1>6 DEF k

LEMMA LockForms ==
    ASSUME NEW l \in Lock, NEW s \in Set
    PROVE  /\ l.set \in Set
           /\ l = W(s) <=> l.write /\ l.set = s
           /\ l = R(s) <=> ~l.write /\ l.set = s
           /\ W(s) # R(s)
BY DEF Lock, W, R

\* A mutex that is left alone, with the same holders and the same askers.
LEMMA MutexKept ==
    ASSUME NEW s \in Set, MutexOK(mu[s], s), mu'[s] = mu[s],
           \A g \in Goroutine :
              /\ W(s) \in Held(g)' <=> W(s) \in Held(g)
              /\ R(s) \in Held(g)' <=> R(s) \in Held(g)
              /\ W(s) \in Asked(g)' <=> W(s) \in Asked(g)
              /\ R(s) \in Asked(g)' <=> R(s) \in Asked(g)
    PROVE  MutexOK(mu[s], s)'
BY DEF MutexOK, W, R

LEMMA OthersKept ==
    ASSUME NEW g \in Goroutine, todo'[g] = todo[g]
    PROVE  Held(g)' = Held(g) /\ Asked(g)' = Asked(g)
BY DEF Held, Asked, Wanted

LEMMA NextLock ==
    ASSUME NEW g \in Goroutine, todo[g].locks \in Seq(Lock), todo[g].locks # <<>>
    PROVE  \E l \in Lock, s \in Set :
             l = Wanted(g) /\ s = l.set /\ 1 \in DOMAIN todo[g].locks /\ l = todo[g].locks[1]
<1> DEFINE q == todo[g].locks
<1>1. Head(q) = q[1] /\ 1 \in DOMAIN q /\ q[1] \in Lock
  OBVIOUS
<1>2. q[1].set \in Set
  BY <1>1 DEF Lock
<1> QED
  BY <1>1, <1>2 DEF Wanted

LEMMA LocksInit == LockAssumption /\ Init => LocksInv
<1> SUFFICES ASSUME LockAssumption, Init PROVE LocksInv
  OBVIOUS
<1>1. TypeOK
  BY DEF Init, TypeOK, Idle
<1>2. ASSUME NEW g \in Goroutine
      PROVE  Ordered(todo[g]) /\ Held(g) = {} /\ Asked(g) = {}
  <2>1. todo[g] = Idle /\ Idle.locks = <<>> /\ Idle.held = <<>> /\ Idle.asked = FALSE
    BY DEF Init, Idle
  <2>2. Ordered(todo[g])
    BY <2>1 DEF Ordered
  <2> QED
    BY <2>1, <2>2 DEF Held, Asked
<1>3. \A s \in Set : MutexOK(mu[s], s)
  BY <1>2 DEF Init, MutexOK, LockAssumption, Nobody
<1> QED
  BY <1>1, <1>2, <1>3 DEF LocksInv

LEMMA CallStep ==
    ASSUME LockAssumption, LocksInv, NEW g \in Goroutine, Call(g)
    PROVE  LocksInv'
<1>1. PICK c \in Calls : todo' = [todo EXCEPT ![g].locks = c]
  BY DEF Call
<1>2. todo[g] = Idle /\ mu' = mu
  BY DEF Call
<1> DEFINE t == [todo[g] EXCEPT !.locks = c]
<1>3. /\ todo' = [todo EXCEPT ![g] = t]
      /\ todo'[g] = t /\ \A h \in Goroutine : h # g => todo'[h] = todo[h]
  BY <1>1 DEF LocksInv, TypeOK
<1>4. /\ c \in Seq(Lock) /\ Len(c) <= 2
      /\ \A i, j \in DOMAIN c : i < j => c[i].set < c[j].set
  BY CallShape
<1>5. todo[g].held = <<>> /\ todo[g].asked = FALSE
  BY <1>2 DEF Idle
<1>6. /\ t \in [locks : Seq(Lock), held : Seq(Lock), asked : BOOLEAN]
      /\ t.locks = c /\ t.held = <<>> /\ t.asked = FALSE
  BY <1>4, <1>5 DEF LocksInv, TypeOK
<1> HIDE DEF t
<1>7. TypeOK'
  BY <1>2, <1>3, <1>6 DEF LocksInv, TypeOK
<1>8. Ordered(t)
  BY <1>4, <1>6 DEF Ordered
<1>9. /\ Held(g) = {} /\ Held(g)' = {} /\ Asked(g) = {} /\ Asked(g)' = {}
  BY <1>3, <1>5, <1>6 DEF Held, Asked
<1>10. ASSUME NEW s \in Set PROVE MutexOK(mu[s], s)'
  BY <1>2, <1>3, <1>9, MutexKept, OthersKept DEF LocksInv
<1>11. \A h \in Goroutine : Ordered(todo[h])'
  BY <1>3, <1>8 DEF LocksInv, Ordered
<1> QED
  BY <1>7, <1>10, <1>11 DEF LocksInv

LEMMA AskStep ==
    ASSUME LockAssumption, LocksInv, NEW g \in Goroutine, Ask(g)
    PROVE  LocksInv'
<1>1. /\ todo[g].locks \in Seq(Lock) /\ todo[g].locks # <<>> /\ ~todo[g].asked
      /\ todo[g] \in [locks : Seq(Lock), held : Seq(Lock), asked : BOOLEAN]
  BY DEF Ask, LocksInv, TypeOK
<1>2. PICK l \in Lock, s \in Set :
        l = Wanted(g) /\ s = l.set /\ 1 \in DOMAIN todo[g].locks /\ l = todo[g].locks[1]
  BY <1>1, NextLock
<1> DEFINE m == mu[s]
           n == CASE l.write                        -> [m EXCEPT !.writer = g]
                  [] ~l.write /\ m.writer = Nobody -> [m EXCEPT !.readers = @ \cup {g}]
                  [] OTHER                          -> [m EXCEPT !.kept = @ \cup {g}]
           t == [todo[g] EXCEPT !.asked = TRUE]
<1>3. /\ mu' = [mu EXCEPT ![s] = n] /\ todo' = [todo EXCEPT ![g] = t]
      /\ l.write => m.writer = Nobody
  BY <1>2 DEF Ask
<1>4. /\ t.asked /\ t.locks = todo[g].locks /\ t.held = todo[g].held
      /\ t \in [locks : Seq(Lock), held : Seq(Lock), asked : BOOLEAN]
  BY <1>1
<1>5. /\ m.writer \in Goroutine \cup {Nobody} /\ m.readers \subseteq Goroutine
      /\ m.kept \subseteq Goroutine
      /\ m \in [writer : Goroutine \cup {Nobody},
                readers : SUBSET Goroutine, kept : SUBSET Goroutine]
  BY <1>2 DEF LocksInv, TypeOK
<1>6. /\ l.write => n.writer = g /\ n.readers = m.readers /\ n.kept = m.kept
      /\ ~l.write /\ m.writer = Nobody =>
            n.writer = m.writer /\ n.readers = m.readers \cup {g} /\ n.kept = m.kept
      /\ ~l.write /\ m.writer # Nobody =>
            n.writer = m.writer /\ n.readers = m.readers /\ n.kept = m.kept \cup {g}
  BY <1>5
<1>7. n \in [writer : Goroutine \cup {Nobody},
             readers : SUBSET Goroutine, kept : SUBSET Goroutine]
  BY <1>5
<1> HIDE DEF n, t
<1>8. TypeOK'
  BY <1>2, <1>3, <1>4, <1>7 DEF LocksInv, TypeOK
<1>9. /\ mu'[s] = n /\ \A q \in Set : q # s => mu'[q] = mu[q]
      /\ todo'[g] = t /\ \A h \in Goroutine : h # g => todo'[h] = todo[h]
  BY <1>2, <1>3 DEF LocksInv, TypeOK
<1>10. Ordered(t)
  BY <1>1, <1>4 DEF LocksInv, Ordered
<1>11. Held(g)' = Held(g) /\ Asked(g) = {} /\ Asked(g)' = {l}
  BY <1>1, <1>2, <1>4, <1>9 DEF Held, Asked, Wanted
<1>12. W(s) \notin Held(g) /\ R(s) \notin Held(g)
  <2>1. \A j \in DOMAIN todo[g].held : todo[g].held[j].set < s
    BY <1>2 DEF LocksInv, Ordered
  <2>2. s \in Nat
    BY <1>2 DEF LockAssumption
  <2> QED
    BY <2>1, <2>2 DEF Held, W, R
<1> HIDE DEF m
<1>13. ASSUME NEW q \in Set, q # s PROVE MutexOK(mu[q], q)'
  <2>1. W(q) # l /\ R(q) # l
    BY <1>2, <1>13, LockForms
  <2> QED
    BY <1>9, <1>11, <1>13, <2>1, MutexKept, OthersKept DEF LocksInv
<1>14. MutexOK(mu[s], s)'
  <2>1. MutexOK(m, s)
    BY <1>2 DEF LocksInv, m
  <2>2. \A h \in Goroutine : h # g => Held(h)' = Held(h) /\ Asked(h)' = Asked(h)
    BY <1>9, OthersKept
  <2>3. (l = W(s) <=> l.write) /\ (l = R(s) <=> ~l.write) /\ W(s) # R(s)
    BY <1>2, LockForms
  <2>4. Nobody \notin Goroutine
    BY DEF LockAssumption, Nobody
  <2>5. CASE l.write
    <3>1. m.kept = {} /\ \A h \in Goroutine : W(s) \notin Held(h) \cup Asked(h)
      BY <1>3, <1>5, <2>1, <2>4, <2>5 DEF MutexOK
    <3> QED
      BY <1>6, <1>9, <1>11, <1>12, <2>1, <2>2, <2>3, <2>4, <2>5, <3>1 DEF MutexOK
  <2>6. CASE ~l.write /\ m.writer = Nobody
    <3>1. m.kept = {} /\ \A h \in Goroutine : W(s) \notin Held(h) \cup Asked(h)
      BY <1>5, <2>1, <2>4, <2>6 DEF MutexOK
    <3> QED
      BY <1>6, <1>9, <1>11, <1>12, <2>1, <2>2, <2>3, <2>4, <2>6, <3>1 DEF MutexOK
  <2>7. CASE ~l.write /\ m.writer # Nobody
    <3>1. g \notin m.readers
      BY <1>11, <1>12, <2>1 DEF MutexOK
    <3> QED
      BY <1>6, <1>9, <1>11, <1>12, <2>1, <2>2, <2>3, <2>4, <2>7, <3>1 DEF MutexOK
  <2> QED
    BY <2>5, <2>6, <2>7
<1>15. \A h \in Goroutine : Ordered(todo[h])'
  BY <1>9, <1>10 DEF LocksInv, Ordered
<1> QED
  BY <1>8, <1>13, <1>14, <1>15 DEF LocksInv

LEMMA AcquireStep ==
    ASSUME LockAssumption, LocksInv, NEW g \in Goroutine, Acquire(g)
    PROVE  LocksInv'
<1> DEFINE t == [locks |-> Tail(todo[g].locks), asked |-> FALSE,
                 held |-> <<Wanted(g)>> \o todo[g].held]
<1>1. /\ todo[g].locks \in Seq(Lock) /\ todo[g].locks # <<>> /\ todo[g].asked
      /\ todo[g].held \in Seq(Lock) /\ Ordered(todo[g])
      /\ Granted(g) /\ mu' = mu /\ todo' = [todo EXCEPT ![g] = t]
  BY DEF Acquire, LocksInv, TypeOK, Ordered
<1>2. PICK l \in Lock, s \in Set :
        l = Wanted(g) /\ s = l.set /\ 1 \in DOMAIN todo[g].locks /\ l = todo[g].locks[1]
  BY <1>1, NextLock
<1>3. /\ Tail(todo[g].locks) \in Seq(Lock)
      /\ Len(Tail(todo[g].locks)) = Len(todo[g].locks) - 1
      /\ \A i \in 1..Len(Tail(todo[g].locks)) :
            Tail(todo[g].locks)[i] = todo[g].locks[i + 1] /\ i + 1 \in DOMAIN todo[g].locks
  BY <1>1
<1> DEFINE k == <<l>> \o todo[g].held
           n == Len(todo[g].held)
<1>4. /\ k \in Seq(Lock) /\ Len(k) = n + 1 /\ k[1] = l
      /\ \A i \in 1..n : k[i + 1] = todo[g].held[i]
      /\ {k[i] : i \in DOMAIN k} = {l} \cup {todo[g].held[i] : i \in DOMAIN todo[g].held}
  BY <1>1, HeldPushed
<1>5. /\ t \in [locks : Seq(Lock), held : Seq(Lock), asked : BOOLEAN]
      /\ t.locks = Tail(todo[g].locks) /\ t.held = k /\ ~t.asked
  BY <1>2, <1>3, <1>4
<1> HIDE DEF t, k
<1>6. /\ todo'[g] = t /\ \A h \in Goroutine : h # g => todo'[h] = todo[h]
  BY <1>1 DEF LocksInv, TypeOK
<1>7. TypeOK'
  BY <1>1, <1>5 DEF LocksInv, TypeOK
<1>8. Held(g)' = Held(g) \cup {l} /\ Asked(g) = {l} /\ Asked(g)' = {}
  <2>1. Held(g)' = {k[i] : i \in DOMAIN k}
    BY <1>5, <1>6 DEF Held
  <2>2. Held(g) = {todo[g].held[i] : i \in DOMAIN todo[g].held}
    BY DEF Held
  <2>3. Held(g)' = Held(g) \cup {l}
    BY <1>4, <2>1, <2>2
  <2> QED
    BY <1>1, <1>2, <1>5, <1>6, <2>3 DEF Asked
<1>9. n \in Nat /\ DOMAIN k = 1..(n + 1) /\ DOMAIN todo[g].held = 1..n
  BY <1>1, <1>4
<1>10. \A i \in DOMAIN k : i = 1 \/ (i - 1 \in DOMAIN todo[g].held /\ k[i] = todo[g].held[i - 1])
  BY <1>4, <1>9
<1>11. \A j \in DOMAIN todo[g].held : todo[g].held[j].set < s
  BY <1>1, <1>2 DEF Ordered
<1>12. \A l1 \in Lock : l1.set \in Nat
  BY DEF Lock, LockAssumption
<1>13. Ordered(t)
  <2> DEFINE r == Tail(todo[g].locks)
  <2>1. DOMAIN r = 1..Len(r) /\ r \in Seq(Lock)
    BY <1>3
  <2>2. \A i \in DOMAIN r : r[i] = todo[g].locks[i + 1] /\ i + 1 \in DOMAIN todo[g].locks /\ i + 1 > 1
    BY <1>3, <2>1
  <2> HIDE DEF r
  <2>3. ASSUME NEW i \in DOMAIN r, NEW j \in DOMAIN k PROVE k[j].set < r[i].set
    <3>1. CASE j = 1
      BY <1>1, <1>2, <1>4, <2>2, <3>1 DEF Ordered
    <3>2. CASE j # 1
      BY <1>1, <1>10, <2>2, <3>2 DEF Ordered
    <3> QED
      BY <3>1, <3>2
  <2>4. ASSUME NEW i \in DOMAIN r, NEW j \in DOMAIN r, i < j PROVE r[i].set < r[j].set
    <3>1. i + 1 < j + 1
      BY <2>1, <2>4
    <3> QED
      BY <1>1, <2>2, <3>1 DEF Ordered
  <2>5. ASSUME NEW i \in DOMAIN k, NEW j \in DOMAIN k, k[i].set = k[j].set PROVE i = j
    <3>1. i \in Nat /\ j \in Nat /\ s \in Nat
      BY <1>9 DEF LockAssumption
    <3>2. \A q \in DOMAIN todo[g].held : todo[g].held[q].set # s
      BY <1>1, <1>11, <1>12, <3>1
    <3>3. (i = 1 /\ j = 1) \/ (i # 1 /\ j # 1)
      BY <1>2, <1>4, <1>10, <2>5, <3>2
    <3>4. CASE i # 1 /\ j # 1
      <4>1. i - 1 = j - 1
        BY <1>1, <1>10, <2>5, <3>4 DEF Ordered
      <4> QED
        BY <3>1, <4>1
    <3> QED
      BY <3>3, <3>4
  <2> QED
    BY <1>5, <2>3, <2>4, <2>5 DEF Ordered, r
<1>14. ASSUME NEW q \in Set, q # s PROVE MutexOK(mu[q], q)'
  <2>1. W(q) # l /\ R(q) # l
    BY <1>2, <1>14, LockForms
  <2> QED
    BY <1>1, <1>6, <1>8, <1>14, <2>1, MutexKept, OthersKept DEF LocksInv
<1>15. MutexOK(mu[s], s)'
  <2>1. MutexOK(mu[s], s)
    BY DEF LocksInv
  <2>2. \A h \in Goroutine : h # g => Held(h)' = Held(h) /\ Asked(h)' = Asked(h)
    BY <1>6, OthersKept
  <2>3. (l = W(s) <=> l.write) /\ (l = R(s) <=> ~l.write) /\ W(s) # R(s)
    BY <1>2, LockForms
  <2>4. /\ l.write => mu[s].writer = g /\ mu[s].readers = {}
        /\ ~l.write => g \in mu[s].readers
    BY <1>1, <1>2 DEF Granted
  <2> QED
    BY <1>1, <1>8, <2>1, <2>2, <2>3, <2>4 DEF MutexOK
<1>16. \A h \in Goroutine : Ordered(todo[h])'
  BY <1>6, <1>13 DEF LocksInv, Ordered
<1> QED
  BY <1>7, <1>14, <1>15, <1>16 DEF LocksInv

LEMMA UnlockStep ==
    ASSUME LockAssumption, LocksInv, NEW g \in Goroutine, Unlock(g)
    PROVE  LocksInv'
<1> DEFINE k == Tail(todo[g].held)
           t == [todo[g] EXCEPT !.held = k]
<1>1. /\ todo[g] \in [locks : Seq(Lock), held : Seq(Lock), asked : BOOLEAN]
      /\ todo[g].locks = <<>> /\ todo[g].held # <<>> /\ ~todo[g].asked
      /\ todo[g].held \in Seq(Lock) /\ Ordered(todo[g])
      /\ todo' = [todo EXCEPT ![g] = t]
  BY DEF Unlock, LocksInv, TypeOK, Ordered
<1>2. /\ k \in Seq(Lock) /\ Len(k) = Len(todo[g].held) - 1 /\ Head(todo[g].held) \in Lock
      /\ \A i \in 1..Len(k) : k[i] = todo[g].held[i + 1]
      /\ {k[i] : i \in DOMAIN k} =
            {todo[g].held[i] : i \in DOMAIN todo[g].held} \ {Head(todo[g].held)}
      /\ \A i \in DOMAIN k : k[i].set # Head(todo[g].held).set
  BY <1>1, HeldPopped DEF Ordered
<1>3. PICK l \in Lock, s \in Set : l = Head(todo[g].held) /\ s = l.set
  BY <1>2 DEF Lock
<1>4. l \in Held(g)
  BY <1>1, <1>3 DEF Held
<1> DEFINE m == mu[s]
           n == IF l.write THEN [writer |-> Nobody, readers |-> m.kept, kept |-> {}]
                           ELSE [m EXCEPT !.readers = @ \ {g}]
<1>5. /\ m \in [writer : Goroutine \cup {Nobody},
                readers : SUBSET Goroutine, kept : SUBSET Goroutine]
  BY DEF LocksInv, TypeOK
<1>6. mu' = [mu EXCEPT ![s] = n]
  BY <1>3 DEF Unlock
<1>7. /\ n \in [writer : Goroutine \cup {Nobody},
                readers : SUBSET Goroutine, kept : SUBSET Goroutine]
      /\ l.write => n.writer = Nobody /\ n.readers = m.kept /\ n.kept = {}
      /\ ~l.write => n.writer = m.writer /\ n.readers = m.readers \ {g} /\ n.kept = m.kept
  BY <1>5
<1>8. /\ t \in [locks : Seq(Lock), held : Seq(Lock), asked : BOOLEAN]
      /\ t.locks = <<>> /\ t.held = k /\ ~t.asked
  BY <1>1, <1>2
<1> HIDE DEF k, t, n
<1>9. TypeOK'
  BY <1>1, <1>6, <1>7, <1>8 DEF LocksInv, TypeOK
<1>10. /\ mu'[s] = n /\ \A q \in Set : q # s => mu'[q] = mu[q]
       /\ todo'[g] = t /\ \A h \in Goroutine : h # g => todo'[h] = todo[h]
  BY <1>1, <1>6 DEF LocksInv, TypeOK
<1>11. Held(g)' = Held(g) \ {l} /\ Asked(g) = {} /\ Asked(g)' = {}
  <2>1. Held(g)' = {k[i] : i \in DOMAIN k}
    BY <1>8, <1>10 DEF Held
  <2>2. Held(g) = {todo[g].held[i] : i \in DOMAIN todo[g].held}
    BY DEF Held
  <2>3. Held(g)' = Held(g) \ {l}
    BY <1>2, <1>3, <2>1, <2>2
  <2> QED
    BY <1>1, <1>8, <1>10, <2>3 DEF Asked
<1>12. W(s) \notin Held(g)' /\ R(s) \notin Held(g)'
  <2>1. Held(g)' = {k[i] : i \in DOMAIN k}
    BY <1>8, <1>10 DEF Held
  <2>2. \A i \in DOMAIN k : k[i].set # s
    BY <1>2, <1>3
  <2> QED
    BY <2>1, <2>2 DEF W, R
<1>13. Ordered(t)
  <2>1. \A i \in DOMAIN k : k[i] = todo[g].held[i + 1] /\ i + 1 \in DOMAIN todo[g].held /\ i \in Nat
    BY <1>1, <1>2
  <2>2. ASSUME NEW i \in DOMAIN k, NEW j \in DOMAIN k, k[i].set = k[j].set PROVE i = j
    <3>1. i + 1 = j + 1
      BY <1>1, <2>1, <2>2 DEF Ordered
    <3> QED
      BY <2>1, <3>1
  <2> QED
    BY <1>8, <2>2 DEF Ordered
<1>14. ASSUME NEW q \in Set, q # s PROVE MutexOK(mu[q], q)'
  <2>1. W(q) # l /\ R(q) # l
    BY <1>3, <1>14, LockForms
  <2> QED
    BY <1>10, <1>11, <1>14, <2>1, MutexKept, OthersKept DEF LocksInv
<1>15. MutexOK(mu[s], s)'
  <2>1. MutexOK(m, s)
    BY DEF LocksInv
  <2>2. \A h \in Goroutine : h # g => Held(h)' = Held(h) /\ Asked(h)' = Asked(h)
    BY <1>10, OthersKept
  <2>3. (l = W(s) <=> l.write) /\ (l = R(s) <=> ~l.write) /\ W(s) # R(s)
    BY <1>3, LockForms
  <2>4. Nobody \notin Goroutine
    BY DEF LockAssumption, Nobody
  <2> HIDE DEF m
  <2>5. CASE l.write
    <3>1. m.writer = g /\ m.readers = {} /\ \A h \in Goroutine : h # g => W(s) \notin Held(h) \cup Asked(h)
      BY <1>4, <2>1, <2>3, <2>5 DEF MutexOK
    <3> QED
      BY <1>7, <1>10, <1>11, <1>12, <2>1, <2>2, <2>4, <2>5, <3>1 DEF MutexOK
  <2>6. CASE ~l.write
    <3>1. g \in m.readers /\ \A h \in Goroutine : W(s) \notin Held(h)
      BY <1>4, <2>1, <2>3, <2>6 DEF MutexOK
    <3> QED
      BY <1>7, <1>10, <1>11, <1>12, <2>1, <2>2, <2>3, <2>4, <2>6, <3>1 DEF MutexOK
  <2> QED
    BY <2>5, <2>6
<1>16. \A h \in Goroutine : Ordered(todo[h])'
  BY <1>10, <1>13 DEF LocksInv, Ordered
<1> QED
  BY <1>9, <1>14, <1>15, <1>16 DEF LocksInv

LEMMA LocksInductive ==
    ASSUME LockAssumption
    PROVE  Spec => []LocksInv
<1>1. LocksInv /\ [Next]_vars => LocksInv'
  <2> SUFFICES ASSUME LocksInv, [Next]_vars PROVE LocksInv'
    OBVIOUS
  <2>1. CASE Next
    BY <2>1, CallStep, AskStep, AcquireStep, UnlockStep DEF Next
  <2>2. CASE UNCHANGED vars
    BY <2>2 DEF vars, LocksInv, TypeOK, Ordered, MutexOK, Held, Asked, Wanted
  <2> QED
    BY <2>1, <2>2
<1>2. Init => LocksInv
  BY LocksInit
<1> QED
  BY <1>1, <1>2, PTL DEF Spec

\* A goroutine that holds a lock and waits wants a greater one.
LEMMA HolderWantsMore ==
    ASSUME LocksInv, NEW h \in Goroutine, NEW l \in Held(h),
           todo[h] # Idle => Waiting(h)
    PROVE  Waiting(h) /\ l.set < Wanted(h).set
<1>1. todo[h].held # <<>>
  BY DEF Held
<1>2. Waiting(h)
  BY <1>1 DEF Idle
<1>3. todo[h].locks \in Seq(Lock) /\ todo[h].locks # <<>> /\ Ordered(todo[h])
  BY <1>2 DEF Waiting, LocksInv, TypeOK
<1>4. 1 \in DOMAIN todo[h].locks /\ Wanted(h) = todo[h].locks[1]
  BY <1>3, NextLock
<1> QED
  BY <1>2, <1>3, <1>4 DEF Held, Ordered

\* If everyone waits, someone waits for a greater lock than g does.
LEMMA SomeoneWantsMore ==
    ASSUME LockAssumption, LocksInv, NEW g \in Goroutine, Waiting(g),
           \A h \in Goroutine : todo[h] # Idle => Waiting(h)
    PROVE  \E h \in Goroutine : Waiting(h) /\ Wanted(g).set < Wanted(h).set
<1>1. todo[g].locks \in Seq(Lock) /\ todo[g].locks # <<>>
  BY DEF Waiting, LocksInv, TypeOK
<1>2. PICK l \in Lock, s \in Set : l = Wanted(g) /\ s = l.set
  BY <1>1, NextLock
<1>3. (l = W(s) <=> l.write) /\ (l = R(s) <=> ~l.write) /\ W(s).set = s /\ R(s).set = s
      /\ W(s).write /\ ~R(s).write
  BY <1>2, LockForms DEF W, R
<1>4. MutexOK(mu[s], s) /\ mu[s].writer \in Goroutine \cup {Nobody}
      /\ mu[s].readers \subseteq Goroutine
  BY DEF LocksInv, TypeOK
<1>5. \A h \in Goroutine : Asked(h) # {} =>
          todo[h].asked /\ Waiting(h) /\ ~Granted(h) /\ Asked(h) = {Wanted(h)}
  <2>1. \A h \in Goroutine : Asked(h) # {} => todo[h].asked /\ Asked(h) = {Wanted(h)}
    BY DEF Asked
  <2>2. \A h \in Goroutine : todo[h].asked => Waiting(h)
    BY DEF Idle
  <2> QED
    BY <2>1, <2>2 DEF Waiting
<1>6. ASSUME NEW h \in Goroutine, W(s) \in Asked(h)
      PROVE  \E r \in Goroutine : Waiting(r) /\ s < Wanted(r).set
  <2>1. mu[s].writer = h
    BY <1>4, <1>6 DEF MutexOK
  <2>2. Wanted(h) = W(s) /\ ~Granted(h)
    BY <1>5, <1>6
  <2>3. PICK r \in mu[s].readers : TRUE
    BY <1>3, <2>1, <2>2 DEF Granted
  <2>4. r \in Goroutine /\ R(s) \in Held(r) \cup Asked(r)
    BY <1>4, <2>3 DEF MutexOK
  <2>5. R(s) \notin Asked(r)
    <3> SUFFICES ASSUME R(s) \in Asked(r) PROVE FALSE
      OBVIOUS
    <3>1. Wanted(r) = R(s) /\ ~Granted(r)
      BY <1>5, <2>4
    <3> QED
      BY <1>3, <2>3, <3>1 DEF Granted
  <2> QED
    BY <1>3, <2>4, <2>5, HolderWantsMore
<1>7. ASSUME mu[s].writer # Nobody
      PROVE  \E r \in Goroutine : Waiting(r) /\ s < Wanted(r).set
  <2>1. PICK h \in Goroutine : mu[s].writer = h
    BY <1>4, <1>7
  <2>2. W(s) \in Held(h) \cup Asked(h)
    BY <1>4, <2>1 DEF MutexOK
  <2> QED
    BY <1>3, <1>6, <2>2, HolderWantsMore
<1>8. CASE todo[g].asked /\ l.write
  <2>1. W(s) \in Asked(g)
    BY <1>2, <1>3, <1>8 DEF Asked
  <2> QED
    BY <1>2, <1>6, <2>1
<1>9. CASE todo[g].asked /\ ~l.write
  <2>1. R(s) \in Asked(g)
    BY <1>2, <1>3, <1>9 DEF Asked
  <2>2. g \notin mu[s].readers
    BY <1>2, <1>9 DEF Waiting, Granted
  <2>3. mu[s].writer # Nobody
    BY <1>4, <2>1, <2>2 DEF MutexOK
  <2> QED
    BY <1>2, <1>7, <2>3
<1>10. CASE ~todo[g].asked
  BY <1>2, <1>7, <1>10 DEF Waiting
<1> QED
  BY <1>8, <1>9, <1>10

\* ORSet.Merge never deadlocks, and a set is written by one goroutine at a time,
\* for any goroutines and any sets: lockORSetMerge takes the locks in the order of
\* their ids.
THEOREM MergeLocksNeverDeadlock ==
    ASSUME LockAssumption
    PROVE  Spec => []MergesNeverDeadlock
<1>1. LocksInv => MergesNeverDeadlock
  <2> SUFFICES ASSUME LocksInv PROVE MergesNeverDeadlock
    OBVIOUS
  <2>1. ASSUME NEW g \in Goroutine, todo[g] # Idle,
               \A h \in Goroutine : todo[h] # Idle => Waiting(h)
        PROVE  FALSE
    <3> DEFINE ids == {Wanted(h).set : h \in {k \in Goroutine : Waiting(k)}}
    <3>1. Waiting(g)
      BY <2>1
    <3>2. \A h \in Goroutine : Waiting(h) => Wanted(h).set \in Set
      BY NextLock DEF Waiting, LocksInv, TypeOK
    <3>3. ids \in SUBSET Set /\ ids # {}
      BY <3>1, <3>2
    <3>4. PICK m \in ids : \A s \in ids : s <= m
      BY <3>3 DEF LockAssumption
    <3>5. PICK h \in Goroutine : Waiting(h) /\ m = Wanted(h).set
      BY <3>4
    <3>6. PICK k \in Goroutine : Waiting(k) /\ m < Wanted(k).set
      BY <2>1, <3>5, SomeoneWantsMore
    <3>7. Wanted(k).set <= m /\ m \in Nat /\ Wanted(k).set \in Nat
      BY <3>2, <3>4, <3>5, <3>6 DEF LockAssumption
    <3> QED
      BY <3>6, <3>7
  <2>2. ASSUME NEW g \in Goroutine, NEW h \in Goroutine, NEW s \in Set,
               g # h, Holds(g, s, TRUE)
        PROVE  ~Holds(h, s, TRUE) /\ ~Holds(h, s, FALSE)
    <3>1. W(s) \in Held(g) /\ (Holds(h, s, TRUE) => W(s) \in Held(h))
          /\ (Holds(h, s, FALSE) => R(s) \in Held(h))
      BY <2>2 DEF Holds, Held, W, R
    <3>2. MutexOK(mu[s], s)
      BY DEF LocksInv
    <3> QED
      BY <2>2, <3>1, <3>2 DEF MutexOK
  <2> QED
    BY <2>1, <2>2 DEF MergesNeverDeadlock
<1>2. Spec => []LocksInv
  BY LocksInductive
<1> QED
  BY <1>1, <1>2, PTL
=============================================================================

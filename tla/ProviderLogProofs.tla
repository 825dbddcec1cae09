-------------------------- MODULE ProviderLogProofs --------------------------
(***************************************************************************)
(* AppendedOnce for any number of relays, changes and calls, and that a    *)
(* Replay returns the log from its cursor to its high water.               *)
(*                                                                         *)
(* What a transaction read is still true when it commits because only the  *)
(* holder of the row's lock is past LockGroup, and only SQL engines have   *)
(* such steps: a script of Redis finds no transaction in progress.         *)
(***************************************************************************)
EXTENDS ProviderLog, SequenceTheorems, TLAPS

LogOK(d) ==
    /\ d.events \in Seq(Change)
    /\ d.dots = {[dot |-> d.events[i].dot, body |-> d.events[i].body, sequence |-> i] :
                   i \in 1..Len(d.events)}
    /\ \A i, j \in 1..Len(d.events) : d.events[i].dot = d.events[j].dot => i = j
    /\ d.high = Len(d.events) /\ d.count = Len(d.events)
    /\ d.used \in Nat /\ d.count <= MaxEvents /\ d.used <= MaxBytes

Entry(d, c, n) == n \in 1..Len(d.events) /\ d.events[n] = c

\* What a call past LockGroup has read and decided still holds.
AppendOK(c, d) ==
    /\ c.op \in {"lock", "decide", "commit"} => c.change \in Change
    /\ c.op \in {"decide", "commit"} => c.row = Row(d)
    /\ c.op = "commit" =>
          IF c.writes THEN /\ Bound(d, c.change) = {} /\ HasRoom(Row(d), c.change)
                           /\ c.sequence = d.high + 1
                      ELSE Entry(d, c.change, c.sequence)

Locked(p) ==
    /\ call[p].op = "lock" => engine = "sql"
    /\ call[p].op \in {"decide", "commit"} => engine = "sql" /\ lock = p

\* What a Replay has read is the beginning of the log.
ReplayOK(c, d) ==
    /\ c.op = "replay" =>
          /\ c.after \in Nat /\ c.high \in Nat
          /\ c.after <= c.high /\ c.high <= Len(d.events)
          /\ c.snapshot \in Seq(Change) /\ Len(c.snapshot) = c.high
          /\ \A i \in 1..c.high : c.snapshot[i] = d.events[i]
    /\ c.op = "idle" /\ c.returned = "events" =>
          /\ c.after \in Nat /\ c.high \in Nat
          /\ c.after <= c.high /\ c.high <= Len(d.events)
          /\ c.rows = SubSeq(d.events, c.after + 1, c.high)
    /\ c.op = "idle" /\ c.returned = "corrupt" => c.failed \/ c.bytes > MaxReplayBytes

AnswersOK(d, a) ==
    \A r \in a : \E i \in 1..Len(d.events) : r = [change |-> d.events[i], sequence |-> i]

IInv ==
    /\ LogOK(db) /\ AnswersOK(db, answers)
    /\ call = [p \in Process |-> call[p]]
    /\ \A p \in Process : AppendOK(call[p], db) /\ ReplayOK(call[p], db) /\ Locked(p)

LEMMA BoundEntry ==
    ASSUME LogAssumption, NEW d, LogOK(d), NEW c \in Change, NEW b \in Bound(d, c), b.body = c.body
    PROVE  Entry(d, c, b.sequence)
<1>1. PICK i \in 1..Len(d.events) :
        b = [dot |-> d.events[i].dot, body |-> d.events[i].body, sequence |-> i]
  BY DEF Bound, LogOK
<1>2. b.dot = c.dot
  BY DEF Bound
<1>3. d.events[i] \in Change
  BY DEF LogOK
<1>4. d.events[i] = c
  BY <1>1, <1>2, <1>3 DEF LogAssumption
<1> QED
  BY <1>1, <1>4 DEF Entry

\* InsertEvent, InsertDot and UpdateGroup with a row that is the group's.
LEMMA InsertedOK ==
    ASSUME LogAssumption, NEW d, LogOK(d), NEW c \in Change,
           Bound(d, c) = {}, HasRoom(Row(d), c)
    PROVE  /\ LogOK(Inserted(d, Row(d), c))
           /\ Entry(Inserted(d, Row(d), c), c, d.high + 1)
           /\ \A n, e : Entry(d, e, n) => Entry(Inserted(d, Row(d), c), e, n)
<1> DEFINE n == Len(d.events)
           x == Inserted(d, Row(d), c)
<1>1. /\ x.events = Append(d.events, c) /\ x.high = d.high + 1 /\ x.count = d.count + 1
      /\ x.used = d.used + c.size
      /\ x.dots = d.dots \cup {[dot |-> c.dot, body |-> c.body, sequence |-> d.high + 1]}
  BY DEF Inserted, Row
<1> HIDE DEF x
<1>2. n \in Nat /\ Len(x.events) = n + 1 /\ x.events \in Seq(Change)
  BY <1>1 DEF LogOK
<1>3. /\ \A i \in 1..n : x.events[i] = d.events[i]
      /\ x.events[n + 1] = c
  BY <1>1, <1>2 DEF LogOK
<1>4. \A i \in 1..n : d.events[i].dot # c.dot
  <2> SUFFICES ASSUME NEW i \in 1..n, d.events[i].dot = c.dot PROVE FALSE
    OBVIOUS
  <2> DEFINE b == [dot |-> d.events[i].dot, body |-> d.events[i].body, sequence |-> i]
  <2>1. b \in d.dots
    BY DEF LogOK
  <2> QED
    BY <2>1 DEF Bound
<1>5. x.dots = {[dot |-> x.events[i].dot, body |-> x.events[i].body, sequence |-> i] :
                  i \in 1..Len(x.events)}
  <2> DEFINE D(i) == [dot |-> x.events[i].dot, body |-> x.events[i].body, sequence |-> i]
  <2>1. d.dots = {D(i) : i \in 1..n}
    BY <1>3 DEF LogOK
  <2>2. x.dots = {D(i) : i \in 1..n} \cup {D(n + 1)}
    BY <1>1, <1>3, <2>1 DEF LogOK
  <2>3. 1..(n + 1) = (1..n) \cup {n + 1}
    BY <1>2
  <2> HIDE DEF D
  <2>4. x.dots = {D(i) : i \in 1..(n + 1)}
    BY <2>2, <2>3
  <2> QED
    BY <1>2, <2>4 DEF D
<1>6. \A i, j \in 1..Len(x.events) : x.events[i].dot = x.events[j].dot => i = j
  <2> SUFFICES ASSUME NEW i \in 1..(n + 1), NEW j \in 1..(n + 1), x.events[i].dot = x.events[j].dot
               PROVE  i = j
    BY <1>2
  <2>1. CASE i \in 1..n /\ j \in 1..n
    BY <1>3, <2>1 DEF LogOK
  <2>2. CASE i = n + 1 /\ j \in 1..n
    BY <1>3, <1>4, <2>2
  <2>3. CASE j = n + 1 /\ i \in 1..n
    BY <1>3, <1>4, <2>3
  <2> QED
    BY <1>2, <2>1, <2>2, <2>3
<1>7. LogOK(x)
  <2>1. c.size \in Nat
    BY DEF LogAssumption
  <2>2. d.count < MaxEvents /\ d.used + c.size <= MaxBytes
    BY DEF HasRoom, Row
  <2>3. d.high = n /\ d.count = n /\ d.used \in Nat
    BY DEF LogOK
  <2>4. x.high = Len(x.events) /\ x.count = Len(x.events)
    BY <1>1, <1>2, <2>3
  <2>5. x.used \in Nat /\ x.count <= MaxEvents /\ x.used <= MaxBytes
    BY <1>1, <1>2, <2>1, <2>2, <2>3 DEF LogAssumption
  <2> QED
    BY <1>2, <1>5, <1>6, <2>4, <2>5 DEF LogOK
<1>8. Entry(x, c, d.high + 1)
  BY <1>2, <1>3 DEF Entry, LogOK
<1>9. \A m, e : Entry(d, e, m) => Entry(x, e, m)
  BY <1>2, <1>3 DEF Entry
<1> QED
  BY <1>7, <1>8, <1>9 DEF x

LEMMA OneCall ==
    ASSUME IInv, NEW p \in Process, NEW c, Goto(p, c)
    PROVE  /\ call'[p] = c /\ \A q \in Process : q # p => call'[q] = call[q]
           /\ call' = [q \in Process |-> call'[q]]
BY DEF IInv, Goto

LEMMA SamePart ==
    ASSUME NEW s \in Seq(Change), NEW t \in Seq(Change), NEW m \in Nat, NEW n \in Nat,
           m <= n, n <= Len(s), n <= Len(t), \A i \in 1..n : s[i] = t[i]
    PROVE  SubSeq(s, m + 1, n) = SubSeq(t, m + 1, n) /\ Len(SubSeq(s, m + 1, n)) = n - m
<1> DEFINE a == SubSeq(s, m + 1, n)
           b == SubSeq(t, m + 1, n)
<1>1. m + 1 \in 1..(Len(s) + 1) /\ n \in (m + 1 - 1)..Len(s)
  OBVIOUS
<1>2. m + 1 \in 1..(Len(t) + 1) /\ n \in (m + 1 - 1)..Len(t)
  OBVIOUS
<1>3. /\ a \in Seq(Change) /\ Len(a) = n - m
      /\ \A i \in 1..(n - m) : a[i] = s[m + i]
  BY <1>1, SubSeqProperties
<1>4. /\ b \in Seq(Change) /\ Len(b) = n - m
      /\ \A i \in 1..(n - m) : b[i] = t[m + i]
  BY <1>2, SubSeqProperties
<1> HIDE DEF a, b
<1>5. \A i \in 1..Len(a) : a[i] = b[i]
  BY <1>3, <1>4
<1>6. a = b
  BY <1>3, <1>4, <1>5, SeqEqual
<1> QED
  BY <1>3, <1>6 DEF a, b

\* A call goes on or returns, and the tables stay as they are.
LEMMA SameLog ==
    ASSUME IInv, NEW p \in Process, NEW c, Goto(p, c), engine' = engine, db' = db,
           AnswersOK(db, answers'), AppendOK(c, db), ReplayOK(c, db),
           c.op = "lock" => engine = "sql",
           c.op \in {"decide", "commit"} => engine = "sql" /\ lock' = p,
           \A q \in Process : q # p /\ lock = q => lock' = q
    PROVE  IInv'
<1>1. Locked(p)' /\ AppendOK(call[p], db)' /\ ReplayOK(call[p], db)'
  BY OneCall DEF Locked, AppendOK, ReplayOK
<1>2. ASSUME NEW q \in Process, q # p
      PROVE  Locked(q)' /\ AppendOK(call[q], db)' /\ ReplayOK(call[q], db)'
  <2>1. call'[q] = call[q]
    BY <1>2, OneCall
  <2>2. AppendOK(call[q], db) /\ ReplayOK(call[q], db) /\ Locked(q)
    BY DEF IInv
  <2>3. AppendOK(call[q], db)' /\ ReplayOK(call[q], db)'
    BY <2>1, <2>2
  <2>4. Locked(q)'
    BY <1>2, <2>1, <2>2 DEF Locked
  <2> QED
    BY <2>3, <2>4
<1>3. LogOK(db)' /\ AnswersOK(db, answers)'
  BY DEF IInv, LogOK, AnswersOK
<1> QED
  BY <1>1, <1>2, <1>3, OneCall DEF IInv

\* A change is appended while no other process is past LockGroup.
LEMMA NewEvent ==
    ASSUME LogAssumption, IInv, NEW p \in Process, NEW how, Goto(p, Returned(how)),
           how \in {"appended", "error"},
           engine' = engine, NEW c \in Change, Bound(db, c) = {}, HasRoom(Row(db), c),
           db' = Inserted(db, Row(db), c),
           answers' \subseteq answers \cup {[change |-> c, sequence |-> db.high + 1]},
           \A q \in Process : q # p => call[q].op \notin {"decide", "commit"}
    PROVE  IInv'
<1>1. LogOK(db)
  BY DEF IInv
<1>2. /\ LogOK(db') /\ Entry(db', c, db.high + 1)
      /\ \A n, e : Entry(db, e, n) => Entry(db', e, n)
  BY <1>1, InsertedOK
<1>3. AnswersOK(db', answers')
  <2> SUFFICES ASSUME NEW r \in answers'
               PROVE  \E i \in 1..Len(db'.events) : r = [change |-> db'.events[i], sequence |-> i]
    BY DEF AnswersOK
  <2>1. CASE r = [change |-> c, sequence |-> db.high + 1]
    BY <1>2, <2>1 DEF Entry
  <2>2. CASE r \in answers
    <3>1. PICK i \in 1..Len(db.events) : r = [change |-> db.events[i], sequence |-> i]
      BY <2>2 DEF IInv, AnswersOK
    <3>2. Entry(db', db.events[i], i)
      BY <1>2 DEF Entry
    <3> QED
      BY <3>1, <3>2 DEF Entry
  <2> QED
    BY <2>1, <2>2
<1>4. Locked(p)' /\ AppendOK(call[p], db)' /\ ReplayOK(call[p], db)'
  BY OneCall DEF Locked, AppendOK, ReplayOK, Returned
<1>5. ASSUME NEW q \in Process, q # p
      PROVE  Locked(q)' /\ AppendOK(call[q], db)' /\ ReplayOK(call[q], db)'
  <2>1. call'[q] = call[q]
    BY <1>5, OneCall
  <2>2. Locked(q)' /\ AppendOK(call[q], db)'
    BY <1>5, <2>1 DEF IInv, Locked, AppendOK
  <2>3. /\ Len(db.events) \in Nat /\ Len(db'.events) \in Nat
        /\ Len(db.events) <= Len(db'.events)
        /\ \A i \in 1..Len(db.events) : db'.events[i] = db.events[i]
    <3>1. db'.events = Append(db.events, c)
      BY DEF Inserted
    <3> QED
      BY <1>1, <3>1 DEF LogOK
  <2>4. ASSUME NEW m \in Nat, NEW n \in Nat, m <= n, n <= Len(db.events)
        PROVE  SubSeq(db'.events, m + 1, n) = SubSeq(db.events, m + 1, n)
    BY <1>1, <1>2, <2>3, <2>4, SamePart DEF LogOK
  <2>5. ReplayOK(call[q], db)
    BY DEF IInv
  <2>6. ReplayOK(call[q], db)'
    BY <2>1, <2>3, <2>4, <2>5 DEF ReplayOK
  <2> QED
    BY <2>2, <2>6
<1>6. call' = [q \in Process |-> call'[q]]
  BY OneCall
<1> QED
  BY <1>2, <1>3, <1>4, <1>5, <1>6 DEF IInv

LEMMA InitInv == LogAssumption /\ Init => IInv
<1> SUFFICES ASSUME LogAssumption, Init PROVE IInv
  OBVIOUS
<1>1. LogOK(db)
  BY DEF Init, LogOK, LogAssumption
<1>2. AnswersOK(db, answers)
  BY DEF Init, AnswersOK
<1>3. \A p \in Process : AppendOK(call[p], db) /\ ReplayOK(call[p], db) /\ Locked(p)
  BY DEF Init, AppendOK, ReplayOK, Locked, Returned
<1>4. call = [p \in Process |-> call[p]]
  BY DEF Init
<1> QED
  BY <1>1, <1>2, <1>3, <1>4 DEF IInv

\* A call that returns without events, and frees the row if it held it.
LEMMA ReturnedEarly ==
    ASSUME IInv, NEW p \in Process, NEW how, how \notin {"events", "corrupt"},
           Goto(p, Returned(how)), engine' = engine, db' = db, AnswersOK(db, answers'),
           \A q \in Process : q # p /\ lock = q => lock' = q
    PROVE  IInv'
<1> DEFINE c == Returned(how)
<1>1. AppendOK(c, db) /\ ReplayOK(c, db) /\ c.op = "idle"
  BY DEF AppendOK, ReplayOK, Returned
<1> HIDE DEF c
<1>2. Goto(p, c)
  BY DEF c
<1> QED
  BY <1>1, <1>2, SameLog

LEMMA LockGroupInv ==
    ASSUME LogAssumption, IInv, NEW p \in Process, LockGroup(p)
    PROVE  IInv'
<1> DEFINE c == [op |-> "decide", change |-> call[p].change, row |-> Row(db)]
<1>1. AppendOK(call[p], db) /\ Locked(p) /\ call[p].op = "lock"
  BY DEF IInv, LockGroup, At
<1>2. AppendOK(c, db) /\ ReplayOK(c, db)
  BY <1>1 DEF AppendOK, ReplayOK
<1>3. c.op = "decide" /\ engine = "sql"
  BY <1>1 DEF Locked
<1>4. AnswersOK(db, answers')
  BY DEF IInv, LockGroup
<1>5. Goto(p, c) /\ lock' = p /\ engine' = engine /\ db' = db
  BY DEF LockGroup
<1>6. \A q \in Process : lock # q
  BY DEF LockGroup, LogAssumption, Nobody
<1> HIDE DEF c
<1> QED
  BY <1>2, <1>3, <1>4, <1>5, <1>6, SameLog

LEMMA DecideInv ==
    ASSUME LogAssumption, IInv, NEW p \in Process, Decide(p)
    PROVE  IInv'
<1> DEFINE c == call[p].change
<1>1. /\ call[p].op = "decide" /\ c \in Change /\ call[p].row = Row(db)
      /\ engine = "sql" /\ lock = p /\ LogOK(db)
  BY DEF IInv, Decide, At, AppendOK, Locked
<1>2. engine' = engine /\ db' = db /\ AnswersOK(db, answers')
  BY DEF IInv, Decide
<1>3. \A q \in Process : q # p => lock # q
  BY <1>1
<1>4. ASSUME NEW b \in Bound(db, c), b.body = c.body, UNCHANGED lock,
             Goto(p, [op |-> "commit", change |-> c, writes |-> FALSE, row |-> call[p].row,
                      sequence |-> b.sequence])
      PROVE  IInv'
  <2> DEFINE k == [op |-> "commit", change |-> c, writes |-> FALSE, row |-> call[p].row,
                   sequence |-> b.sequence]
  <2>1. Entry(db, c, b.sequence)
    BY <1>1, <1>4, BoundEntry
  <2>2. AppendOK(k, db) /\ ReplayOK(k, db) /\ k.op = "commit"
    BY <1>1, <2>1 DEF AppendOK, ReplayOK
  <2>3. Goto(p, k)
    BY <1>4
  <2> HIDE DEF k
  <2> QED
    BY <1>1, <1>2, <1>3, <1>4, <2>2, <2>3, SameLog
<1>5. ASSUME NEW how \in {"conflict", "full"}, Goto(p, Returned(how)) PROVE IInv'
  BY <1>2, <1>3, <1>5, ReturnedEarly
<1>6. ASSUME Bound(db, c) = {}, HasRoom(call[p].row, c), UNCHANGED lock,
             Goto(p, [op |-> "commit", change |-> c, writes |-> TRUE, row |-> call[p].row,
                      sequence |-> call[p].row.high + 1])
      PROVE  IInv'
  <2> DEFINE k == [op |-> "commit", change |-> c, writes |-> TRUE, row |-> call[p].row,
                   sequence |-> call[p].row.high + 1]
  <2>1. call[p].row.high = db.high
    BY <1>1 DEF Row
  <2>2. AppendOK(k, db) /\ ReplayOK(k, db) /\ k.op = "commit"
    BY <1>1, <1>6, <2>1 DEF AppendOK, ReplayOK
  <2>3. Goto(p, k)
    BY <1>6
  <2> HIDE DEF k
  <2> QED
    BY <1>1, <1>2, <1>3, <1>6, <2>2, <2>3, SameLog
<1> QED
  BY <1>4, <1>5, <1>6 DEF Decide

LEMMA CommitInv ==
    ASSUME LogAssumption, IInv, NEW p \in Process, NEW arrives \in BOOLEAN, Commit(p, arrives)
    PROVE  IInv'
<1> DEFINE c == call[p].change
<1>1. /\ call[p].op = "commit" /\ c \in Change /\ call[p].row = Row(db)
      /\ engine = "sql" /\ lock = p /\ AppendOK(call[p], db)
  BY DEF IInv, Commit, At, AppendOK, Locked
<1>2. engine' = engine
  BY DEF Commit
<1>3. \A q \in Process : q # p => lock # q /\ call[q].op \notin {"decide", "commit"}
  BY <1>1 DEF IInv, Locked
<1>4. PICK how \in {"appended", "error"} :
        /\ Goto(p, Returned(how))
        /\ answers' \subseteq answers \cup {[change |-> c, sequence |-> call[p].sequence]}
  BY DEF Commit, Answer
<1>5. CASE call[p].writes
  <2>1. Bound(db, c) = {} /\ HasRoom(Row(db), c) /\ call[p].sequence = db.high + 1
    BY <1>1, <1>5 DEF AppendOK
  <2>2. db' = Inserted(db, Row(db), c)
    BY <1>1, <1>5 DEF Commit
  <2> QED
    BY <1>1, <1>2, <1>3, <1>4, <2>1, <2>2, NewEvent
<1>6. CASE ~call[p].writes
  <2>1. Entry(db, c, call[p].sequence)
    BY <1>1, <1>6 DEF AppendOK
  <2>2. AnswersOK(db, answers')
    BY <1>4, <2>1 DEF IInv, AnswersOK, Entry
  <2>3. db' = db
    BY <1>6 DEF Commit
  <2> QED
    BY <1>2, <1>3, <1>4, <2>2, <2>3, ReturnedEarly
<1> QED
  BY <1>5, <1>6

LEMMA RunScriptInv ==
    ASSUME LogAssumption, IInv, NEW p \in Process, NEW c \in Change, NEW arrives \in BOOLEAN,
           RunScript(p, c, arrives)
    PROVE  IInv'
<1>1. engine' = engine /\ lock' = lock /\ engine = "redis" /\ LogOK(db) /\ AnswersOK(db, answers)
  BY DEF RunScript, IInv
<1>2. \A q \in Process : call[q].op \notin {"decide", "commit"}
  BY <1>1 DEF IInv, Locked
<1>3. ASSUME NEW b \in Bound(db, c), b.body = c.body, db' = db,
             IF arrives THEN Answer(c, b.sequence) ELSE UNCHANGED answers,
             Goto(p, Returned(IF arrives THEN "appended" ELSE "error"))
      PROVE  IInv'
  <2>1. Entry(db, c, b.sequence)
    BY <1>1, <1>3, BoundEntry
  <2>2. AnswersOK(db, answers')
    BY <1>1, <1>3, <2>1 DEF AnswersOK, Entry, Answer
  <2> QED
    BY <1>1, <1>3, <2>2, ReturnedEarly
<1>4. ASSUME NEW how \in {"conflict", "full"}, Goto(p, Returned(how)), UNCHANGED <<db, answers>>
      PROVE  IInv'
  BY <1>1, <1>4, ReturnedEarly
<1>5. ASSUME Bound(db, c) = {}, HasRoom(Row(db), c), db' = Inserted(db, Row(db), c),
             IF arrives THEN Answer(c, db.high + 1) ELSE UNCHANGED answers,
             Goto(p, Returned(IF arrives THEN "appended" ELSE "error"))
      PROVE  IInv'
  <2>1. answers' \subseteq answers \cup {[change |-> c, sequence |-> db.high + 1]}
    BY <1>5 DEF Answer
  <2> QED
    BY <1>1, <1>2, <1>5, <2>1, NewEvent
<1> QED
  BY <1>3, <1>4, <1>5 DEF RunScript

\* A Replay starts from the log as it is; the rows read later, from its snapshot
\* or from a log that has grown, are those of the log up to the high water.
LEMMA BeginReplayInv ==
    ASSUME LogAssumption, IInv, NEW p \in Process, NEW after \in 0..MaxEvents,
           BeginReplay(p, after)
    PROVE  IInv'
<1>1. /\ engine' = engine /\ db' = db /\ lock' = lock /\ LogOK(db)
      /\ AnswersOK(db, answers')
  BY DEF BeginReplay, IInv
<1>2. after \in Nat /\ db.high \in Nat /\ db.high = Len(db.events)
  BY <1>1 DEF LogOK, LogAssumption
<1>3. CASE ~InWindow(after, db.high)
  BY <1>1, <1>3, ReturnedEarly DEF BeginReplay
<1>4. CASE InWindow(after, db.high) /\ engine = "redis" /\ after = db.high
  <2> DEFINE k == Suffix(after, db.high, <<>>)
  <2>1. SubSeq(db.events, after + 1, db.high) = <<>>
    BY <1>2, <1>4, SubSeqEmpty
  <2>a. /\ k.op = "idle" /\ k.returned = "events" /\ k.after = after
        /\ k.high = db.high /\ k.rows = <<>>
    BY DEF Suffix
  <2>b. after <= db.high /\ db.high <= Len(db.events)
    BY <1>2, <1>4
  <2>2. AppendOK(k, db) /\ ReplayOK(k, db)
    BY <1>2, <2>1, <2>a, <2>b DEF AppendOK, ReplayOK
  <2>3. Goto(p, k)
    BY <1>4 DEF BeginReplay
  <2> HIDE DEF k
  <2> QED
    BY <1>1, <2>a, <2>2, <2>3, SameLog
<1>5. CASE InWindow(after, db.high) /\ ~(engine = "redis" /\ after = db.high)
  <2> DEFINE k == [op |-> "replay", after |-> after, high |-> db.high, snapshot |-> db.events]
  <2>1. after <= db.high
    BY <1>5 DEF InWindow
  <2>2. AppendOK(k, db) /\ ReplayOK(k, db) /\ k.op = "replay"
    BY <1>1, <1>2, <2>1 DEF AppendOK, ReplayOK, LogOK
  <2>3. Goto(p, k)
    BY <1>5 DEF BeginReplay
  <2> HIDE DEF k
  <2> QED
    BY <1>1, <2>2, <2>3, SameLog
<1> QED
  BY <1>3, <1>4, <1>5

LEMMA FinishReplayInv ==
    ASSUME IInv, NEW p \in Process, FinishReplay(p)
    PROVE  IInv'
<1> DEFINE after == call[p].after
           high == call[p].high
           snapshot == call[p].snapshot
<1>1. /\ engine' = engine /\ db' = db /\ lock' = lock /\ LogOK(db)
      /\ AnswersOK(db, answers')
  BY DEF FinishReplay, IInv
<1>2. /\ after \in Nat /\ high \in Nat /\ after <= high /\ high <= Len(db.events)
      /\ snapshot \in Seq(Change) /\ Len(snapshot) = high
      /\ \A i \in 1..high : snapshot[i] = db.events[i]
  BY DEF FinishReplay, At, IInv, ReplayOK
<1>3. /\ Rows(p) = SubSeq(db.events, after + 1, high)
      /\ Len(Rows(p)) = high - after
  <2>1. db.events \in Seq(Change)
    BY <1>1 DEF LogOK
  <2> HIDE DEF after, high, snapshot
  <2>2. \A i \in 1..high : db.events[i] = snapshot[i]
    BY <1>2
  <2>3. /\ SubSeq(db.events, after + 1, high) = SubSeq(snapshot, after + 1, high)
        /\ Len(SubSeq(db.events, after + 1, high)) = high - after
    BY <1>2, <2>1, <2>2, SamePart
  <2> QED
    BY <1>2, <2>3 DEF Rows, after, high, snapshot
<1>4. CASE Bytes(Rows(p)) > MaxReplayBytes
  <2> DEFINE k == [op |-> "idle", returned |-> "corrupt", failed |-> FALSE,
                   bytes |-> Bytes(Rows(p))]
  <2>1. AppendOK(k, db) /\ ReplayOK(k, db) /\ k.op = "idle"
    BY <1>4 DEF AppendOK, ReplayOK
  <2>2. Goto(p, k)
    BY <1>4 DEF FinishReplay
  <2> HIDE DEF k
  <2> QED
    BY <1>1, <2>1, <2>2, SameLog
<1>5. CASE ~(Bytes(Rows(p)) > MaxReplayBytes)
  <2> DEFINE k == Suffix(after, high, Rows(p))
  <2>1. AppendOK(k, db) /\ ReplayOK(k, db) /\ k.op = "idle"
    BY <1>2, <1>3 DEF AppendOK, ReplayOK, Suffix
  <2>2. Goto(p, k)
    <3>1. ~(Bytes(Rows(p)) > MaxReplayBytes \/ Len(Rows(p)) # high - after)
      BY <1>3, <1>5
    <3> QED
      BY <3>1 DEF FinishReplay
  <2> HIDE DEF k
  <2> QED
    BY <1>1, <2>1, <2>2, SameLog
<1> QED
  BY <1>4, <1>5

LEMMA FailInv == ASSUME IInv, NEW p \in Process, Fail(p) PROVE IInv'
<1>1. /\ engine' = engine /\ db' = db /\ AnswersOK(db, answers')
      /\ \A q \in Process : q # p /\ lock = q => lock' = q
  BY DEF Fail, Release, IInv
<1>2. CASE Goto(p, Returned("error"))
  BY <1>1, <1>2, ReturnedEarly
<1>3. CASE Goto(p, [op |-> "idle", returned |-> "corrupt", failed |-> TRUE, bytes |-> 0])
  <2> DEFINE k == [op |-> "idle", returned |-> "corrupt", failed |-> TRUE, bytes |-> 0]
  <2>1. AppendOK(k, db) /\ ReplayOK(k, db) /\ k.op = "idle"
    BY DEF AppendOK, ReplayOK
  <2>2. Goto(p, k)
    BY <1>3
  <2> HIDE DEF k
  <2> QED
    BY <1>1, <2>1, <2>2, SameLog
<1> QED
  BY <1>2, <1>3 DEF Fail

LEMMA NextInv == LogAssumption /\ IInv /\ [Next]_vars => IInv'
<1> SUFFICES ASSUME LogAssumption, IInv, [Next]_vars PROVE IInv'
  OBVIOUS
<1>1. CASE UNCHANGED vars
  BY <1>1 DEF vars, IInv, Locked
<1>2. ASSUME NEW p \in Process, NEW c \in Change, TooLarge(p, c) PROVE IInv'
  BY <1>2, ReturnedEarly DEF TooLarge, IInv
<1>3. ASSUME NEW p \in Process, NEW c \in Change, BeginAppend(p, c) PROVE IInv'
  <2> DEFINE k == [op |-> "lock", change |-> c]
  <2>1. AppendOK(k, db) /\ ReplayOK(k, db) /\ k.op = "lock"
    BY DEF AppendOK, ReplayOK
  <2>2. Goto(p, k) /\ engine = "sql" /\ UNCHANGED <<engine, db, lock, answers>>
    BY <1>3 DEF BeginAppend
  <2> HIDE DEF k
  <2>3. AnswersOK(db, answers')
    BY <2>2 DEF IInv
  <2> QED
    BY <2>1, <2>2, <2>3, SameLog
<1> QED
  BY <1>1, <1>2, <1>3, RunScriptInv, LockGroupInv, DecideInv, FailInv, CommitInv,
     BeginReplayInv, FinishReplayInv DEF Next

\* Store.Append of every provider: for any number of relays, however their
\* transactions interleave, fail or lose their answers, every dot has one envelope,
\* the sequences have no gap, and what a call was answered is in the log.
THEOREM ProviderAppendedOnce ==
    ASSUME LogAssumption
    PROVE  Spec => []AppendedOnce
<1>1. IInv => AppendedOnce
  BY DEF IInv, LogOK, AnswersOK, AppendOK, AppendedOnce
<1> QED
  BY <1>1, InitInv, NextInv, PTL DEF Spec

\* Store.Replay of every provider: the events returned are the log from the cursor
\* to the high water, whoever appends between the two reads.
THEOREM ProviderReplayExact ==
    ASSUME LogAssumption
    PROVE  Spec => []ReplayExact
<1>1. IInv => ReplayExact
  BY DEF IInv, ReplayOK, ReplayExact
<1> QED
  BY <1>1, InitInv, NextInv, PTL DEF Spec
=============================================================================

----------------------------- MODULE ProviderLog -----------------------------
(***************************************************************************)
(* The operation logs kept in databases: providers/internal/sqlrelay with  *)
(* the dialects of SQLite, MySQL and SQL Server, providers/postgres and    *)
(* providers/redis.  Several relay processes share the tables of a group.  *)
(*                                                                         *)
(* A database is external, and modelled by what the code relies on: a row  *)
(* of the group locked from LockGroup to the end of the transaction, whose *)
(* writes become visible together; a Replay that reads one snapshot; a Lua *)
(* script that runs alone.  A statement may fail or time out at any point, *)
(* and the answer to a commit or a script may be lost after it took        *)
(* effect, so that the caller tries again.                                 *)
(***************************************************************************)
EXTENDS Naturals, SequencesExt

CONSTANTS
    Process,       \* relays that share the database
    Engine,        \* the engines in use, a subset of {"sql", "redis"}
    Change,        \* changes: a dot, a body and the size of the envelope
    MaxEvents, MaxBytes,               \* Config
    MaxReplayEvents, MaxReplayBytes,   \* the relay's replay window
    MaxSequence,   \* math.MaxInt64, or 2^53 - 1 for Redis
    MaxCalls       \* bound: calls of Append and Replay

\* What the proofs assume: an envelope is determined by its dot and its body.
LogAssumption ==
    /\ "nobody" \notin Process
    /\ \A c \in Change : c.size \in Nat
    /\ \A c, d \in Change : c.dot = d.dot /\ c.body = d.body => c = d
    /\ MaxEvents \in Nat /\ MaxBytes \in Nat /\ MaxSequence \in Nat

VARIABLES
    engine,
    db,        \* the tables: envelopes by sequence, the dots, the group's row
    lock,      \* the process whose transaction locks the group's row, or Nobody
    call,      \* what each process is doing, and what its last call returned
    answers,   \* ghost: the sequences that Append reported
    calls

vars == <<engine, db, lock, call, answers, calls>>

Nobody == "nobody"
Returned(how) == [op |-> "idle", returned |-> how]

Init ==
    /\ engine \in Engine
    /\ db = [events |-> <<>>, dots |-> {}, high |-> 0, count |-> 0, used |-> 0]
    /\ lock = Nobody
    /\ call = [p \in Process |-> Returned("nothing")]
    /\ answers = {}
    /\ calls = 0

Calling(p) == call[p].op = "idle" /\ calls < MaxCalls /\ calls' = calls + 1
At(p, step) == call[p].op = step
Goto(p, c) == call' = [call EXCEPT ![p] = c]

Row(d) == [high |-> d.high, count |-> d.count, used |-> d.used]

\* ReadDot.  The digest stored with a dot stands for the body.
Bound(d, c) == {b \in d.dots : b.dot = c.dot}

HasRoom(row, c) ==
    /\ row.count < MaxEvents /\ row.used + c.size <= MaxBytes
    /\ row.high < MaxSequence

\* InsertEvent, InsertDot, UpdateGroup, with the row as it was read.
Inserted(d, row, c) ==
    [events |-> Append(d.events, c),
     dots   |-> d.dots \cup {[dot |-> c.dot, body |-> c.body, sequence |-> row.high + 1]},
     high   |-> row.high + 1, count |-> row.count + 1, used |-> row.used + c.size]

Answer(c, sequence) == answers' = answers \cup {[change |-> c, sequence |-> sequence]}

----------------------------------------------------------------------------
(***************************************************************************)
(* Append                                                                  *)
(***************************************************************************)
\* The envelope alone is over the budget: refused before the database is asked.
TooLarge(p, c) ==
    /\ Calling(p) /\ c.size > MaxBytes
    /\ Goto(p, Returned("full"))
    /\ UNCHANGED <<engine, db, lock, answers>>

\* BeginTx and InsertGroup.
BeginAppend(p, c) ==
    /\ engine = "sql" /\ Calling(p) /\ c.size <= MaxBytes
    /\ Goto(p, [op |-> "lock", change |-> c])
    /\ UNCHANGED <<engine, db, lock, answers>>

\* Mutated form: the row is read without being locked.
LockGroupNever(p) ==
    /\ At(p, "lock")
    /\ Goto(p, [op |-> "decide", change |-> call[p].change, row |-> Row(db)])
    /\ UNCHANGED <<engine, db, lock, answers, calls>>

LockGroup(p) ==
    /\ At(p, "lock") /\ lock = Nobody
    /\ lock' = p
    /\ Goto(p, [op |-> "decide", change |-> call[p].change, row |-> Row(db)])
    /\ UNCHANGED <<engine, db, answers, calls>>

\* Every return after LockGroup ends the transaction, and frees the row.
Release(p) == lock' = IF lock = p THEN Nobody ELSE lock

\* ReadDot and the tests that follow: a retry answers with the sequence it has,
\* another body under the dot and a full log are refused.
Decide(p) ==
    /\ At(p, "decide")
    /\ LET c == call[p].change IN
       \/ \E b \in Bound(db, c) :
             /\ b.body = c.body
             /\ Goto(p, [op |-> "commit", change |-> c, writes |-> FALSE, row |-> call[p].row,
                         sequence |-> b.sequence])
             /\ UNCHANGED lock
       \/ /\ \E b \in Bound(db, c) : b.body # c.body
          /\ Goto(p, Returned("conflict")) /\ Release(p)
       \/ /\ Bound(db, c) = {} /\ ~HasRoom(call[p].row, c)
          /\ Goto(p, Returned("full")) /\ Release(p)
       \/ /\ Bound(db, c) = {} /\ HasRoom(call[p].row, c)
          /\ Goto(p, [op |-> "commit", change |-> c, writes |-> TRUE, row |-> call[p].row,
                      sequence |-> call[p].row.high + 1])
          /\ UNCHANGED lock
    /\ UNCHANGED <<engine, db, answers, calls>>

\* The commit takes effect; its answer arrives, or Append reports an error.
Commit(p, arrives) ==
    /\ At(p, "commit")
    /\ db' = IF call[p].writes THEN Inserted(db, call[p].row, call[p].change) ELSE db
    /\ IF arrives
       THEN Answer(call[p].change, call[p].sequence) /\ Goto(p, Returned("appended"))
       ELSE Goto(p, Returned("error")) /\ UNCHANGED answers
    /\ Release(p)
    /\ UNCHANGED <<engine, calls>>

\* appendScript: the same decisions in one step, and its answer may be lost.
RunScript(p, c, arrives) ==
    /\ engine = "redis" /\ Calling(p) /\ c.size <= MaxBytes
    /\ \/ \E b \in Bound(db, c) :
             IF b.body = c.body
             THEN /\ IF arrives THEN Answer(c, b.sequence) ELSE UNCHANGED answers
                  /\ Goto(p, Returned(IF arrives THEN "appended" ELSE "error"))
                  /\ UNCHANGED db
             ELSE Goto(p, Returned("conflict")) /\ UNCHANGED <<db, answers>>
       \/ /\ Bound(db, c) = {} /\ ~HasRoom(Row(db), c)
          /\ Goto(p, Returned("full")) /\ UNCHANGED <<db, answers>>
       \/ /\ Bound(db, c) = {} /\ HasRoom(Row(db), c)
          /\ db' = Inserted(db, Row(db), c)
          /\ IF arrives THEN Answer(c, db.high + 1) ELSE UNCHANGED answers
          /\ Goto(p, Returned(IF arrives THEN "appended" ELSE "error"))
    /\ UNCHANGED <<engine, lock>>

----------------------------------------------------------------------------
(***************************************************************************)
(* Replay                                                                  *)
(***************************************************************************)
InWindow(after, high) == after <= high /\ high - after <= MaxReplayEvents

Suffix(after, high, rows) ==
    [op |-> "idle", returned |-> "events", after |-> after, high |-> high, rows |-> rows]

\* BeginTx and ReadHighWater, which fixes the snapshot; in Redis the first HMGET,
\* which reads the metadata alone and is enough when there is nothing to send.
BeginReplay(p, after) ==
    /\ Calling(p)
    /\ Goto(p, IF ~InWindow(after, db.high) THEN Returned("unavailable")
               ELSE IF engine = "redis" /\ after = db.high THEN Suffix(after, db.high, <<>>)
               ELSE [op |-> "replay", after |-> after, high |-> db.high, snapshot |-> db.events])
    /\ UNCHANGED <<engine, db, lock, answers>>

\* Mutated form: each statement of a Replay has a snapshot of its own.
RowsReadCommitted(p) == SubSeq(db.events, call[p].after + 1, Len(db.events))

\* ReadEvents of the snapshot, without an upper bound; in Redis the second HMGET,
\* of the sequences up to the high water read before.
Rows(p) ==
    IF engine = "sql" THEN SubSeq(call[p].snapshot, call[p].after + 1, Len(call[p].snapshot))
                      ELSE SubSeq(db.events, call[p].after + 1, call[p].high)

Bytes(rows) == FoldSeq(LAMBDA c, total : c.size + total, 0, rows)

\* A suffix over the byte window, or of another length than the high water says,
\* is reported as corrupt.
FinishReplay(p) ==
    /\ At(p, "replay")
    /\ Goto(p, IF Bytes(Rows(p)) > MaxReplayBytes \/ Len(Rows(p)) # call[p].high - call[p].after
               THEN [op |-> "idle", returned |-> "corrupt", failed |-> FALSE,
                     bytes |-> Bytes(Rows(p))]
               ELSE Suffix(call[p].after, call[p].high, Rows(p)))
    /\ UNCHANGED <<engine, db, lock, answers, calls>>

----------------------------------------------------------------------------
\* A statement or a commit fails, or the timeout ends the transaction.  A failure
\* while the rows of a Replay are read, in Redis any of its second HMGET, is reported
\* as a corrupt store.
Fail(p) ==
    /\ call[p].op # "idle"
    /\ \/ engine = "sql" /\ Goto(p, Returned("error"))
       \/ /\ At(p, "replay")
          /\ Goto(p, [op |-> "idle", returned |-> "corrupt", failed |-> TRUE, bytes |-> 0])
    /\ Release(p)
    /\ UNCHANGED <<engine, db, answers, calls>>

Next ==
    \E p \in Process :
        \/ \E c \in Change : \/ TooLarge(p, c) \/ BeginAppend(p, c)
                             \/ \E arrives \in BOOLEAN : RunScript(p, c, arrives)
        \/ LockGroup(p) \/ Decide(p) \/ Fail(p)
        \/ \E arrives \in BOOLEAN : Commit(p, arrives)
        \/ \E after \in 0..MaxEvents : BeginReplay(p, after)
        \/ FinishReplay(p)

Spec == Init /\ [][Next]_vars

----------------------------------------------------------------------------
\* Store.Append: the row read under the lock is still the group's row when the
\* transaction commits, every dot has one envelope and one sequence, the sequences
\* have no gap, the log stays within its budget, and every sequence an
\* Append reported, to a first call or to a retry after a lost answer, is the one
\* at which the log holds that very change.
AppendedOnce ==
    /\ \A p \in Process : call[p].op \in {"decide", "commit"} => call[p].row = Row(db)
    /\ db.dots = {[dot |-> db.events[i].dot, body |-> db.events[i].body, sequence |-> i] :
                    i \in 1..Len(db.events)}
    /\ \A i, j \in 1..Len(db.events) : db.events[i].dot = db.events[j].dot => i = j
    /\ db.high = Len(db.events) /\ db.count = Len(db.events)
    /\ db.count <= MaxEvents /\ db.used <= MaxBytes
    /\ answers \subseteq {[change |-> db.events[i], sequence |-> i] : i \in 1..Len(db.events)}

\* Store.Replay: whatever is appended between its two reads, the events returned
\* are the whole log from the cursor to the high water returned with them, and the
\* log is never called corrupt because another relay is writing to it.
ReplayExact ==
    \A p \in Process : call[p].op = "idle" =>
        /\ call[p].returned = "events" =>
              call[p].rows = SubSeq(db.events, call[p].after + 1, call[p].high)
        /\ call[p].returned = "corrupt" =>
              call[p].failed \/ call[p].bytes > MaxReplayBytes

\* Moreover the bytes that Append accounts for are those of the envelopes that a
\* Replay finds.
ReplayComplete == ReplayExact /\ db.used = Bytes(db.events)

\* Store.Replay as durable.Log states it: a suffix that exceeds the replay window is
\* refused with ErrReplayUnavailable; nothing here damages the store, so no Replay
\* whose reads succeeded reports a corrupt one.
OverWindowUnavailable ==
    \A p \in Process : call[p].op = "idle" /\ call[p].returned = "corrupt" => call[p].failed
=============================================================================

------------------------------ MODULE Coalescer -----------------------------
(***************************************************************************)
(* delta.Coalescer: a bounded queue of encoded deltas of one type.  With a *)
(* merge function, Add joins its delta into the last queued one: it copies *)
(* the tail under the lock, runs the merge without the lock, and stores    *)
(* the result only when the generation counter shows that nothing changed  *)
(* in between.  Drain empties the queue at any time.                       *)
(*                                                                         *)
(* A delta is abstracted to the set of mutations it carries: the join of   *)
(* two deltas is the union, and its size the number of mutations.          *)
(***************************************************************************)
EXTENDS Naturals, Sequences, FiniteSets, SequencesExt, FiniteSetsExt

CONSTANTS
    Adder,          \* goroutines that call Add
    Item,           \* mutations, each handed to Add once
    Type,           \* pairs of type ID and codec ID
    TypeOf,         \* the pair of each item
    MaxItems,       \* c.maxItems
    MaxBytes,       \* c.maxBytes
    MaxRetries,     \* maxMergeRetries
    MaxDrains       \* bound on the calls of Drain explored

CoalescerAssumption ==
    /\ TypeOf \in [Item -> Type]
    /\ MaxItems \in Nat \ {0} /\ MaxBytes \in Nat \ {0} /\ MaxRetries \in Nat \ {0}

VARIABLES
    merging,        \* whether the coalescer was built with a merge function
    items,          \* c.items, each the set of mutations it carries
    typ,            \* the set holding c.typeID and c.codecID, empty when reset
    total,          \* c.total
    generation,     \* c.generation
    call,           \* the Add call of each goroutine
    offered,        \* items handed to Add so far
    accepted,       \* items whose Add returned nil
    sent,           \* mutations in the batches Drain returned
    drains          \* calls of Drain so far

queue == <<items, typ, total, generation>>
vars == <<merging, items, typ, total, generation, call, offered, accepted, sent, drains>>

Idle == [pc |-> "idle"]

Init ==
    /\ merging \in BOOLEAN
    /\ items = <<>> /\ typ = {} /\ total = 0 /\ generation = 0
    /\ call = [p \in Adder |-> Idle]
    /\ offered = {} /\ accepted = {} /\ sent = {} /\ drains = 0

\* Add has validated its frame and enters the retry loop.
Start(p, x) ==
    /\ call[p] = Idle /\ x \notin offered
    /\ call' = [call EXCEPT ![p] = [pc |-> "lock", item |-> x, retries |-> 0]]
    /\ offered' = offered \cup {x}
    /\ UNCHANGED <<merging, queue, accepted, sent, drains>>

\* Add returns an error and leaves the queue as it is.
Refuse(p) ==
    /\ call' = [call EXCEPT ![p] = Idle]
    /\ UNCHANGED <<merging, queue, offered, accepted, sent, drains>>

\* Add returns nil.
Accept(p) ==
    /\ call' = [call EXCEPT ![p] = Idle]
    /\ accepted' = accepted \cup {call[p].item}
    /\ generation' = generation + 1
    /\ UNCHANGED <<merging, offered, sent, drains>>

\* The first delta of an empty queue fixes its type.
AddFirst(p) ==
    /\ call[p].pc = "lock" /\ items = <<>>
    /\ items' = <<{call[p].item}>>
    /\ typ' = {TypeOf[call[p].item]}
    /\ total' = 1
    /\ Accept(p)

\* The type of the delta is the type of the queue.
Matches(p) == items # <<>> /\ typ = {TypeOf[call[p].item]}

AddMismatch(p) ==
    /\ call[p].pc = "lock" /\ items # <<>> /\ ~Matches(p)
    /\ Refuse(p)

HasRoom == Len(items) # MaxItems /\ 1 <= MaxBytes - total

\* Without a merge function the delta is appended, or refused.
AddNext(p) ==
    /\ call[p].pc = "lock" /\ Matches(p) /\ ~merging
    /\ IF HasRoom
       THEN /\ items' = Append(items, {call[p].item})
            /\ total' = total + 1
            /\ UNCHANGED typ
            /\ Accept(p)
       ELSE Refuse(p)

\* With one, the tail and the generation are copied and the lock is released.
ReadTail(p) ==
    /\ call[p].pc = "lock" /\ Matches(p) /\ merging
    /\ call' = [call EXCEPT ![p] =
          [pc |-> "merge", item |-> call[p].item, retries |-> call[p].retries,
           tail |-> Last(items), gen |-> generation]]
    /\ UNCHANGED <<merging, queue, offered, accepted, sent, drains>>

\* The merge function, or the validation of its result, fails.
MergeFails(p) ==
    /\ call[p].pc = "merge"
    /\ Refuse(p)

\* Mutated form: the merged delta replaces whatever is the tail by now.
CurrentAlways(p) == items # <<>>

\* Nothing has changed since the tail was copied.
Current(p) == generation = call[p].gen

\* The merged delta replaces the tail.
Store(p, merged) ==
    /\ items' = [items EXCEPT ![Len(items)] = merged]
    /\ total' = total + Cardinality(merged) - Cardinality(Last(items))
    /\ UNCHANGED typ

\* The merge succeeded and the lock is taken again.
Commit(p) ==
    /\ call[p].pc = "merge" /\ Current(p)
    /\ LET merged == call[p].tail \cup {call[p].item}
       IN  IF Cardinality(merged) <= MaxBytes - (total - Cardinality(Last(items)))
           THEN Store(p, merged) /\ Accept(p)
           ELSE Refuse(p)

\* Another call got in between: try again, a bounded number of times.
Retry(p) ==
    /\ call[p].pc = "merge" /\ ~Current(p)
    /\ IF call[p].retries < MaxRetries - 1
       THEN /\ call' = [call EXCEPT ![p] = [pc |-> "lock", item |-> call[p].item,
                                             retries |-> call[p].retries + 1]]
            /\ UNCHANGED <<merging, queue, offered, accepted, sent, drains>>
       ELSE Refuse(p)

\* Drain hands the queue out and resets it.
Drain ==
    /\ drains < MaxDrains
    /\ sent' = sent \cup UNION Range(items)
    /\ items' = <<>> /\ typ' = {} /\ total' = 0
    /\ generation' = generation + 1
    /\ drains' = drains + 1
    /\ UNCHANGED <<merging, call, offered, accepted>>

Step(p) ==
    \/ AddFirst(p) \/ AddMismatch(p) \/ AddNext(p) \/ ReadTail(p)
    \/ MergeFails(p) \/ Commit(p) \/ Retry(p)

Next ==
    \/ \E p \in Adder, x \in Item : Start(p, x)
    \/ \E p \in Adder : Step(p)
    \/ Drain

Spec == Init /\ [][Next]_vars

----------------------------------------------------------------------------
Queued == UNION Range(items)

\* The queue is what its summary says: the recorded type is that of every
\* queued delta, so that a drained batch never mixes types, and c.total is
\* their size, although three paths adjust it and a Drain may have reset both
\* while a merge was running.
SummaryExact ==
    /\ \A x \in Queued : typ = {TypeOf[x]}
    /\ total = MapThenSumSet(LAMBDA i : Cardinality(items[i]), DOMAIN items)

\* Every delta whose Add returned nil is in the queue or in a drained batch,
\* in one place only, and nothing else is: an Add that returned an error left
\* no trace, whatever calls raced with its merge, and the summary is exact.
AcceptedOnce ==
    /\ SummaryExact
    /\ accepted = sent \cup Queued
    /\ sent \cap Queued = {}
    /\ \A i, j \in DOMAIN items : i # j => items[i] \cap items[j] = {}
=============================================================================

------------------------------ MODULE Replicas ------------------------------
(***************************************************************************)
(* Replicas of one data type of counter/, set/, lww/, register/ or         *)
(* attachment/, over a network that loses, repeats, delays and reorders    *)
(* deltas, with crashes, restores from snapshots, exchanges of complete    *)
(* states and compaction of tombstones.  The type is chosen in Init; its   *)
(* states and critical sections are those of ORSet, LWW, MVRegister and    *)
(* Counters.                                                               *)
(*                                                                         *)
(* ORSet.Add and register.LWW.Set take their tag from the clock before     *)
(* they take the mutex.  ORSet.ApplyDelta releases the mutex between its   *)
(* subsumption test, the witnessing of the delta's greatest tag and the    *)
(* join; those of GSet and MVRegister between the test and the join.       *)
(* Every other operation is one critical section.                          *)
(*                                                                         *)
(* The host saves a state with its clock before the deltas that it covers  *)
(* leave the process, and compacts only under the conditions which the     *)
(* comments of CompactTombstones demand.                                   *)
(***************************************************************************)
EXTENDS Tags

CONSTANTS Replica,     \* replica identifiers, natural numbers
          Kind,        \* the data types
          Element,     \* elements of sets, keys of maps
          Value, Present, Deleted,
          Options,     \* per replica, options of LWW types [entries, values]
          Number,      \* amounts and numbers written
          MaxCount,    \* math.MaxUint64 for counters and dots, small
          Physical,    \* readings of the physical clocks
          MaxWrites    \* bound on the writes of a behaviour, per type

ASSUME ReplicasAssumption ==
    /\ Replica \subseteq Nat /\ Physical \subseteq Word
    /\ Number \subseteq Nat \ {0} /\ MaxCount \in Nat
    /\ Deleted \notin Value \cup {Present}

VARIABLES kind,      \* the data type of this behaviour
          state,     \* per replica, the state of the data type and its clock
          tagged,    \* writes that hold a tag and wait for the mutex, at most one
          applying,  \* the ApplyDelta call in progress, at most one
          unsent,    \* deltas returned to the host and not sent yet
          saved,     \* the snapshot last saved by the host
          net,       \* deltas that left their process
          acked,     \* tombstones acknowledged from a durable state
          seen,      \* history: the updates that the replica has heard of
          writes     \* number of writes so far

vars == <<kind, state, tagged, applying, unsent, saved, net, acked, seen, writes>>

OR == INSTANCE ORSet
LW == INSTANCE LWW
MV == INSTANCE MVRegister
CT == INSTANCE Counters

Counter == {"gcounter", "pncounter"}
LWWEntries == {"lwwmap", "lwwset", "attachment"}
TakesTagFirst == {"orset", "lwwregister"}   \* Add and Set
TestsFirst == {"orset", "gset", "mvregister"}
Volatile == {"lwwregister", "max"}          \* types without a wire format

New ==
    CASE kind = "orset" -> OR!New
      [] kind \in LWWEntries -> LW!New
      [] kind = "lwwregister" -> LW!NewRegister
      [] kind = "mvregister" -> MV!New
      [] kind \in Counter -> CT!New
      [] OTHER -> {}                         \* "gset", "max"

Init ==
    /\ kind \in Kind
    /\ state = [r \in Replica |-> New]
    /\ tagged = [r \in Replica |-> {}]
    /\ applying = [r \in Replica |-> {}]
    /\ unsent = [r \in Replica |-> {}]
    /\ saved = [r \in Replica |-> [state |-> New, seen |-> {}]]
    /\ net = {}
    /\ acked = [r \in Replica |-> {}]
    /\ seen = [r \in Replica |-> {}]
    /\ writes = 0

----------------------------------------------------------------------------
\* The calls a host makes: <<operation, argument, argument>>.
Calls ==
    CASE kind = "gset" -> {"add"} \X Element
      [] kind = "orset" -> {"add", "remove"} \X Element
      [] kind = "gcounter" -> {"positive"} \X Number
      [] kind = "pncounter" -> CT!Sign \X Number
      [] kind = "lwwset" -> Element \X {Present, Deleted}
      [] kind \in {"lwwmap", "attachment"} -> Element \X (Value \cup {Deleted})
      [] kind = "max" -> {"set"} \X Number
      [] OTHER -> {"set"} \X Value

\* SetOptions limit only the number of entries.
OptionsOf(r) ==
    IF kind = "lwwset" THEN [Options[r] EXCEPT !.values = {Present}] ELSE Options[r]

\* What a call that is one critical section leads to.
Written(r, call) ==
    LET s == state[r] IN
    CASE kind = "gset" -> {[state |-> OR!GAdd(s, call[2]), bodies |-> {{call[2]}}]}
      [] kind = "orset" -> OR!Remove(s, call[2])
      [] kind \in Counter -> CT!Add(s, r, call[1], call[2])
      [] kind \in LWWEntries -> LW!Write(s, r, call[1], call[2], OptionsOf(r))
      [] kind = "mvregister" -> MV!Set(s, r, call[2])
      [] OTHER -> {[state |-> CT!MaxSet(s, call[2]), bodies |-> {}]}

\* What a call that took its tag first leads to.
WrittenTagged(r, w) ==
    IF kind = "orset" THEN OR!Add(state[r], w.call[2], w.tag)
    ELSE [state |-> LW!RegisterSet(state[r], [tag |-> w.tag, val |-> w.call[2]]), bodies |-> {}]

\* The updates that a write of r stands for, each with a name of its own.  A
\* component of a counter and a multi-value write cover what r wrote before.
Updates(r, call, bodies) ==
    CASE kind \in {"gset", "max"} -> {[id |-> call[2], what |-> call[1]]}
      [] kind = "orset" /\ call[1] = "remove" ->
            {[id |-> t, what |-> call] : t \in UNION {b.tombs : b \in bodies}}
      [] kind = "orset" /\ call[1] = "add" ->
            {[id |-> x[2], what |-> call] : x \in UNION {b.adds : b \in bodies}}
      [] kind \in Counter ->
            {u \in seen[r] : u.id.by = r /\ u.id.sign = call[1]} \cup
            {[id |-> [by |-> r, sign |-> call[1], from |-> state[r][call[1]][r]],
              what |-> call[2]]}
      [] kind \in LWWEntries -> {[id |-> e.tag, what |-> e] : e \in UNION bodies}
      [] OTHER ->
            seen[r] \cup {[id |-> [id |-> r, n |-> state[r].context[r] + 1],
                           what |-> [val |-> call[2], past |-> state[r].context]]}

\* The replica takes over a new state, hands out deltas and knows of updates.
Adopt(r, outcome, updates) ==
    /\ state' = [state EXCEPT ![r] = outcome.state]
    /\ unsent' = [unsent EXCEPT ![r] = @ \cup {[body |-> b, updates |-> updates]
                                                 : b \in outcome.bodies}]
    /\ seen' = [seen EXCEPT ![r] = @ \cup updates]

\* A write in one critical section.
Write(r, call) ==
    /\ writes < MaxWrites[kind]
    /\ ~(kind = "orset" /\ call[1] = "add") /\ kind # "lwwregister"
    /\ \E o \in Written(r, call) : Adopt(r, o, Updates(r, call, o.bodies))
    /\ writes' = writes + 1
    /\ UNCHANGED <<kind, tagged, applying, saved, net, acked>>

\* ORSet.Add, register.LWW.Set: clock.Now, before the mutex.
TakeTag(r, call) ==
    /\ writes < MaxWrites[kind]
    /\ kind \in TakesTagFirst /\ call[1] # "remove"
    /\ tagged[r] = {}
    /\ \E c \in NowFrom(state[r].clock, Physical) :
          /\ state' = [state EXCEPT ![r].clock = c]
          /\ tagged' = [tagged EXCEPT ![r] = {[call |-> call, tag |-> TagAt(c, r)]}]
    /\ writes' = writes + 1
    /\ UNCHANGED <<kind, applying, unsent, saved, net, acked, seen>>

\* The rest of the call, under the mutex.
FinishWrite(r, w) ==
    /\ LET o == WrittenTagged(r, w)
           updates == IF kind = "orset" THEN Updates(r, w.call, o.bodies)
                      ELSE {[id |-> w.tag, what |-> [tag |-> w.tag, val |-> w.call[2]]]}
       IN  Adopt(r, o, updates)
    /\ tagged' = [tagged EXCEPT ![r] = {}]
    /\ UNCHANGED <<kind, applying, saved, net, acked, writes>>

----------------------------------------------------------------------------
\* Whether a state covers a delta.
Subsumes(s, d) ==
    CASE kind = "gset" -> OR!GSubsumes(s, d)
      [] kind = "orset" -> OR!Subsumes(s, d)
      [] kind \in Counter -> CT!Subsumes(s, d)
      [] kind \in LWWEntries -> LW!Subsumes(s, d)
      [] OTHER -> MV!Subsumes(s, d)

\* ApplyDelta, the test under the read lock.
ApplyCheck(r, d) ==
    /\ kind \in TestsFirst
    /\ applying[r] = {}
    /\ kind = "mvregister" => ~MV!Conflicts(state[r], d.body)
    /\ IF Subsumes(state[r], d.body)
       THEN /\ seen' = [seen EXCEPT ![r] = @ \cup d.updates]
            /\ UNCHANGED applying
       ELSE /\ applying' = [applying EXCEPT ![r] =
                    {[delta |-> d, step |-> IF kind = "orset" THEN "witness" ELSE "join"]}]
            /\ UNCHANGED seen
    /\ UNCHANGED <<kind, state, tagged, unsent, saved, net, acked, writes>>

\* ORSet.ApplyDelta, Witness without the mutex; an exhausted clock refuses the
\* delta.
ApplyWitness(r, a) ==
    /\ a.step = "witness"
    /\ LET clocks == OR!WitnessClocks(state[r], a.delta.body) IN
       IF clocks = {}
       THEN applying' = [applying EXCEPT ![r] = {}] /\ UNCHANGED state
       ELSE /\ applying' = [applying EXCEPT ![r] = {[a EXCEPT !.step = "join"]}]
            /\ \E c \in clocks : state' = [state EXCEPT ![r].clock = c]
    /\ UNCHANGED <<kind, tagged, unsent, saved, net, acked, seen, writes>>

\* ApplyDelta, the join under the mutex.
ApplyJoin(r, a) ==
    /\ a.step = "join"
    /\ LET joined == CASE kind = "gset" -> {OR!GJoin(state[r], a.delta.body)}
                       [] kind = "orset" -> {OR!Joined(state[r], a.delta.body)}
                       [] OTHER -> MV!Merge(state[r], a.delta.body)
       IN  /\ state' = [state EXCEPT ![r] = IF joined = {} THEN @ ELSE CHOOSE s \in joined : TRUE]
           /\ seen' = [seen EXCEPT ![r] = IF joined = {} THEN @ ELSE @ \cup a.delta.updates]
    /\ applying' = [applying EXCEPT ![r] = {}]
    /\ UNCHANGED <<kind, tagged, unsent, saved, net, acked, writes>>

\* ApplyDelta in one critical section.
ApplyDelta(r, d) ==
    /\ kind \notin TestsFirst
    /\ \E s \in CASE kind \in Counter -> {CT!Join(state[r], d.body)}
                  [] kind = "attachment" -> LW!AttachmentApply(state[r], d.body, OptionsOf(r))
                  [] OTHER -> LW!Apply(state[r], d.body, OptionsOf(r)) :
          Adopt(r, [state |-> s, bodies |-> {}], d.updates)
    /\ UNCHANGED <<kind, tagged, applying, saved, net, acked, writes>>

\* Merge of the state t of another replica.
Merged(r, t) ==
    LET s == state[r] IN
    CASE kind = "gset" -> {OR!GJoin(s, t)}
      [] kind = "orset" -> OR!Merge(s, OR!Whole(t))
      [] kind \in Counter -> {CT!Join(s, t)}
      [] kind = "attachment" -> LW!AttachmentMerge(s, t.entries, OptionsOf(r))
      [] kind \in {"lwwmap", "lwwset"} -> LW!Apply(s, t.entries, OptionsOf(r))
      [] kind = "lwwregister" -> LW!RegisterMerge(s, t.entry)
      [] kind = "mvregister" -> MV!Merge(s, t)
      [] OTHER -> {CT!MaxMerge(s, t)}

\* Merge of a complete state that q saved.
Merge(r, q) ==
    /\ r # q
    /\ \E s \in Merged(r, saved[q].state) : Adopt(r, [state |-> s, bodies |-> {}], saved[q].seen)
    /\ UNCHANGED <<kind, tagged, applying, saved, net, acked, writes>>

\* The Merge methods of the delta types.
JoinBodies(d, e) ==
    CASE kind = "gset" -> {OR!GJoin(d, e)}
      [] kind = "orset" -> {OR!Join(d, e)}
      [] kind \in Counter -> {CT!Join(d, e)}
      [] kind = "mvregister" -> MV!Merge(d, e)
      [] OTHER -> LW!MergeDelta(d, e)

MergeDeltas(r, d, e) ==
    /\ d # e
    /\ \E b \in JoinBodies(d.body, e.body) :
          unsent' = [unsent EXCEPT ![r] =
                       (@ \ {d, e}) \cup {[body |-> b, updates |-> d.updates \cup e.updates]}]
    /\ UNCHANGED <<kind, state, tagged, applying, saved, net, acked, seen, writes>>

----------------------------------------------------------------------------
\* TombstoneTags.
TombstoneTags(s) ==
    CASE kind = "orset" -> s.tombs
      [] kind \in LWWEntries -> LW!EntryTags({e \in s.entries : e.val = Deleted})
      [] OTHER -> {}

\* MarshalBinaryWithClockState, saved by the host, which then sends its deltas
\* and acknowledges the tombstones of the durable state.
Save(r) ==
    /\ saved' = [saved EXCEPT ![r] = [state |-> state[r], seen |-> seen[r]]]
    /\ net' = net \cup unsent[r]
    /\ unsent' = [unsent EXCEPT ![r] = {}]
    /\ acked' = [acked EXCEPT ![r] = @ \cup TombstoneTags(state[r])]
    /\ UNCHANGED <<kind, state, tagged, applying, seen, writes>>

\* The constructors that restore a state under the same replica identifier.
RestoredFrom(r, s) ==
    CASE kind = "orset" -> OR!Restored(s)
      [] kind \in LWWEntries -> LW!Restored(s, OptionsOf(r))
      [] kind = "lwwregister" -> LW!RegisterRestored(s)
      [] kind = "mvregister" -> MV!Restored(s)
      [] kind = "max" -> {New}
      [] OTHER -> {s}

\* Crash at any point, then the restore.
Restart(r) ==
    /\ \E s \in RestoredFrom(r, saved[r].state) : state' = [state EXCEPT ![r] = s]
    /\ seen' = [seen EXCEPT ![r] = IF kind \in Volatile THEN {} ELSE saved[r].seen]
    /\ tagged' = [tagged EXCEPT ![r] = {}]
    /\ applying' = [applying EXCEPT ![r] = {}]
    /\ unsent' = [unsent EXCEPT ![r] = {}]
    /\ UNCHANGED <<kind, saved, net, acked, writes>>

\* A delta is lost or retired.
Retire(d) ==
    /\ net' = net \ {d}
    /\ UNCHANGED <<kind, state, tagged, applying, unsent, saved, acked, seen, writes>>

InFlight == net \cup UNION {unsent[r] \cup {a.delta : a \in applying[r]} : r \in Replica}

\* A delta that the compaction of the tombstone t of state s would make stale.
MadeStale(s, t, b) ==
    IF kind = "orset" THEN t \in OR!StateTags(b)
    ELSE \E e \in s.entries, f \in b : e.tag = t /\ f.key = e.key /\ TagLeq(f.tag, t)

\* The documented conditions for compacting a tombstone.
Collectable(r) ==
    {t \in TombstoneTags(state[r]) :
        /\ \A q \in Replica : t \in acked[q]
        /\ \A d \in InFlight : ~MadeStale(state[r], t, d.body)}

\* CompactTombstones.
CompactTombstones(r, tags) ==
    /\ tags # {}
    /\ state' = [state EXCEPT ![r] = IF kind = "orset" THEN OR!CompactTombstones(@, tags)
                                     ELSE LW!CompactTombstones(@, tags)]
    /\ UNCHANGED <<kind, tagged, applying, unsent, saved, net, acked, seen, writes>>

\* ORSet.Compact up to a frontier below which every tombstone is collectable.
Compact(r, f) ==
    /\ kind = "orset"
    /\ \A t \in state[r].tombs : t.id = f.id /\ TagLeq(t, f) => t \in Collectable(r)
    /\ state' = [state EXCEPT ![r] = OR!CompactTombstones(@, OR!BelowFrontier(@, f))]
    /\ UNCHANGED <<kind, tagged, applying, unsent, saved, net, acked, seen, writes>>

Next ==
    \/ \E r \in Replica :
         \/ \E call \in Calls : Write(r, call) \/ TakeTag(r, call)
         \/ \E w \in tagged[r] : FinishWrite(r, w)
         \/ \E d \in net : ApplyCheck(r, d) \/ ApplyDelta(r, d)
         \/ \E a \in applying[r] : ApplyWitness(r, a) \/ ApplyJoin(r, a)
         \/ \E q \in Replica : Merge(r, q)
         \/ \E d, e \in unsent[r] : MergeDeltas(r, d, e)
         \/ Save(r)
         \/ Restart(r)
         \/ \E tags \in SUBSET Collectable(r) : CompactTombstones(r, tags)
         \/ \E f \in Collectable(r) : Compact(r, f)
    \/ \E d \in net : Retire(d)

Spec == Init /\ [][Next]_vars

----------------------------------------------------------------------------
\* The tag index of a map names exactly its retained entries, so that the test
\* for reused tags neither misses one nor refuses a legitimate write.
IndexExact ==
    kind \in LWWEntries =>
        \A r \in Replica : /\ state[r].tags = LW!IndexOf(state[r].entries)
                           /\ Cardinality(state[r].entries) <= Options[r].entries

\* What a replica shows is a function of the updates it has heard of, in
\* whatever order, grouping and number deltas and states arrived, and whatever
\* was saved, restored or compacted in between: an OR-Set shows the adds whose
\* own tag was not removed, a last-write-wins type the newest write of a key, a
\* multi-value register the writes no other write had seen, a counter the sum
\* of the amounts, each counted once.  Replicas that heard of the same updates
\* therefore show the same.  The tag index is kept in step.
Resolved ==
    /\ IndexExact
    /\ \A r \in Replica :
        LET s == state[r] IN
        CASE kind = "gset" -> s = {u.id : u \in seen[r]}
          [] kind = "orset" -> OR!Shows(s, seen[r])
          [] kind = "gcounter" -> CT!GShows(s, seen[r])
          [] kind = "pncounter" -> CT!Shows(s, seen[r])
          [] kind \in LWWEntries -> LW!Shows(s, seen[r])
          [] kind = "lwwregister" -> LW!RegisterShows(s, seen[r])
          [] kind = "mvregister" -> MV!Shows(s, seen[r])
          [] OTHER -> s = {n \in {u.id : u \in seen[r]} : \A u \in seen[r] : u.id <= n}

\* "Tag uniquely identifies a CRDT mutation": over all replicas, lives, saved
\* states and messages no tag, dot or counter interval names two updates, and
\* a tag just taken occurs nowhere.
UpdatesUnique ==
    LET known == UNION {seen[r] \cup saved[r].seen : r \in Replica}
                   \cup UNION {d.updates : d \in InFlight}
        Names(u, v) == u.id = v.id /\ (kind = "orset" => u.what[1] = v.what[1])
    IN  /\ \A u, v \in known : Names(u, v) => u = v
        /\ \A r \in Replica : \A w \in tagged[r] : \A u \in known : u.id # w.tag

\* What a state covers it covers until a crash: the answer of a subsumption
\* test stays right after its lock is released, so a duplicate that was dropped
\* was not needed.
SubsumedStays ==
    \A r \in Replica, d \in net :
      seen[r] \subseteq seen'[r] /\ Subsumes(state[r], d.body) => Subsumes(state'[r], d.body)

\* A write that returned a delta is what its own replica shows next, also right
\* after a restore: no write is dropped in favour of an older one.
WritesShown ==
    \A r \in Replica : unsent[r] \subseteq unsent'[r] =>
      \A d \in unsent'[r] \ unsent[r] :
        /\ Subsumes(state'[r], d.body)
        /\ kind \in LWWEntries => d.body \subseteq state'[r].entries
        /\ kind = "orset" => d.body.adds \subseteq state'[r].elements
=============================================================================

----------------------------- MODULE MCServices -----------------------------
(***************************************************************************)
(* Small instances of the parts of the library that do not share state:    *)
(* the hybrid logical clock, the failure detector, the batcher, local      *)
(* history, the version repository, the checkpoint stores, observers,      *)
(* Merkle repair, live relay groups, Yjs rooms, the database providers,    *)
(* the locks of merging sets and the shared document.  A behaviour runs    *)
(* one of them, the variable part, and the others stay as they are.        *)
(***************************************************************************)
EXTENDS HLC, TLC

CONSTANTS p1, p2,   \* goroutines of the clock, connections of a relay group
          g1, g2    \* members of the detector

MCCaller == {p1, p2}
MCPhysical == 0..2
MCRemote == {[wall |-> 0, logical |-> 2], [wall |-> 1, logical |-> 1],
             [wall |-> 2, logical |-> 2]}

MCMember == {g1, g2}

\* The callers of the clock and the members of the detector are interchangeable.
MCSymmetry == Permutations(MCCaller) \cup Permutations(MCMember)

\* Three deltas of one type and one of another.
MCItem == {"x1", "x2", "x3", "y1"}
MCTypeOf == [x \in MCItem |-> IF x = "y1" THEN "u" ELSE "t"]

\* A store before and after its format was raised.
MCFormat == {[version |-> 1, previous |-> FALSE, migrate |-> FALSE],
             [version |-> 2, previous |-> TRUE, migrate |-> TRUE]}

\* A change, another body under its dot, a larger one, one that never fits and one
\* that fits beside the first.
MCChange == {[dot |-> 1, body |-> 1, size |-> 1], [dot |-> 1, body |-> 2, size |-> 1],
             [dot |-> 2, body |-> 1, size |-> 2], [dot |-> 3, body |-> 1, size |-> 4],
             [dot |-> 4, body |-> 1, size |-> 1]}

VARIABLES part,   \* the part that runs
          v1, v2, v3, v4, v5, v6, v7, v8, v9, v10, v11   \* its variables

Detector == INSTANCE Gossip WITH
    Member <- MCMember, SuspectAfter <- 2, MaxCounter <- 2, MaxTime <- 4,
    now <- v1, counter <- v2, records <- v3, sent <- v4

Batcher == INSTANCE Coalescer WITH
    Adder <- {1, 2}, Item <- MCItem, Type <- {"t", "u"}, TypeOf <- MCTypeOf,
    MaxItems <- 2, MaxBytes <- 3, MaxRetries <- 2, MaxDrains <- 2,
    merging <- v1, items <- v2, typ <- v3, total <- v4, generation <- v5,
    call <- v6, offered <- v7, accepted <- v8, sent <- v9, drains <- v10

History == INSTANCE HistoryManager WITH
    Scope <- {1, 2}, Value <- 0..2, Start <- 0, MaxEntries <- 2,
    MaxStateBytes <- 4, MaxCalls <- 3, MaxRemote <- 1,
    content <- v1, undo <- v2, redo <- v3, call <- v4, stored <- v5,
    base <- v6, newest <- v7, calm <- v8, calls <- v9, remote <- v10

Versions == INSTANCE Repository WITH
    Name <- {"main", "topic"}, State <- {1, 3}, MaxVersions <- 3,
    MaxBranches <- 2, MaxParents <- 2, MaxEncodedBytes <- 12,
    repo <- v1, fork <- v2, saved <- v3

Checkpoints == INSTANCE CheckpointStore WITH
    Name <- {"a", "g"}, Group <- "g", Checkpoint <- {1, 2},
    Backend <- {"file", "bolt"}, Format <- MCFormat, MaxRecords <- 2,
    MaxWrites <- 3,
    backend <- v1, disk <- v2, records <- v3, format <- v4, closed <- v5,
    writer <- v6, loader <- v7, session <- v8, acks <- v9, promised <- v10,
    writes <- v11

Watchers == INSTANCE Observers WITH
    Subscriber <- {1, 2}, MaxVersion <- 2,
    version <- v1, closed <- v2, holder <- v3, sub <- v4, log <- v5

Sync == INSTANCE MerkleSync WITH
    Client <- {"a", "b"}, Server <- "s", Key <- {1, 2}, MaxObjects <- 2,
    MaxAdds <- 2, MaxFaults <- 1,
    states <- v1, tree <- v2, file <- v3, left <- v4, sync <- v5, added <- v6,
    faults <- v7

Fanout == INSTANCE RelayGroup WITH
    Peer <- MCCaller, Transport <- {"websocket", "batch", "events", "grpc"},
    Change <- {1, 2}, MaxMessages <- 2, MaxBytes <- 2, MaxBatch <- 2,
    MaxFailures <- 1, MaxPublishes <- 2,
    kind <- v1, log <- v2, rx <- v3, peer <- v4, client <- v5, from <- v6,
    failures <- v7, publishes <- v8

Room == INSTANCE YjsRoom WITH
    Peer <- {"p", "q"}, Update <- {"u", "v"}, MaxUpdates <- 1, MaxQueued <- 2,
    MaxClients <- 2, MaxTombstones <- 1, MaxReads <- 3,
    backed <- v1, updates <- v2, lock <- v3, peer <- v4, handler <- v5,
    awareness <- v6, aged <- v7, client <- v8, reads <- v9, lost <- v10

Provider == INSTANCE ProviderLog WITH
    Process <- {"p", "q"}, Engine <- {"sql", "redis"}, Change <- MCChange,
    MaxEvents <- 2, MaxBytes <- 3, MaxReplayEvents <- 2, MaxReplayBytes <- 2,
    MaxSequence <- 9, MaxCalls <- 4,
    engine <- v1, db <- v2, lock <- v3, call <- v4, answers <- v5, calls <- v6

Locks == INSTANCE MergeLocks WITH
    Goroutine <- {"g", "h", "i"}, Set <- {1, 2, 3},
    mu <- v1, todo <- v2

Document == INSTANCE SharedDocument WITH
    Replica <- {0, 1}, Goroutine <- {1, 2, 3}, HomeOf <- <<0, 0, 1>>,
    Name <- {"n"}, MaxUpdates <- 2,
    joined <- v1, handlers <- v2, call <- v3, handle <- v4, got <- v5

ASSUME DetectorAssumption == Detector!SuspectAfterAssumption
ASSUME BatcherAssumption == Batcher!CoalescerAssumption
ASSUME ProviderAssumption == Provider!LogAssumption
ASSUME LocksAssumption == Locks!LockAssumption

slots == <<v1, v2, v3, v4, v5, v6, v7, v8, v9, v10, v11>>
servicesVars == <<part, slots, vars>>

\* The variables that a part of n variables leaves unused.
Unused(n) ==
    /\ IF n < 1 THEN v1 = 0 ELSE TRUE
    /\ IF n < 2 THEN v2 = 0 ELSE TRUE
    /\ IF n < 3 THEN v3 = 0 ELSE TRUE
    /\ IF n < 4 THEN v4 = 0 ELSE TRUE
    /\ IF n < 5 THEN v5 = 0 ELSE TRUE
    /\ IF n < 6 THEN v6 = 0 ELSE TRUE
    /\ IF n < 7 THEN v7 = 0 ELSE TRUE
    /\ IF n < 8 THEN v8 = 0 ELSE TRUE
    /\ IF n < 9 THEN v9 = 0 ELSE TRUE
    /\ IF n < 10 THEN v10 = 0 ELSE TRUE
    /\ IF n < 11 THEN v11 = 0 ELSE TRUE

StillUnused(n) ==
    /\ IF n < 1 THEN UNCHANGED v1 ELSE TRUE
    /\ IF n < 2 THEN UNCHANGED v2 ELSE TRUE
    /\ IF n < 3 THEN UNCHANGED v3 ELSE TRUE
    /\ IF n < 4 THEN UNCHANGED v4 ELSE TRUE
    /\ IF n < 5 THEN UNCHANGED v5 ELSE TRUE
    /\ IF n < 6 THEN UNCHANGED v6 ELSE TRUE
    /\ IF n < 7 THEN UNCHANGED v7 ELSE TRUE
    /\ IF n < 8 THEN UNCHANGED v8 ELSE TRUE
    /\ IF n < 9 THEN UNCHANGED v9 ELSE TRUE
    /\ IF n < 10 THEN UNCHANGED v10 ELSE TRUE
    /\ IF n < 11 THEN UNCHANGED v11 ELSE TRUE

ServicesInit ==
    /\ Init
    /\ \/ part = "hlc" /\ Unused(0)
       \/ part = "gossip" /\ Detector!Init /\ Unused(4)
       \/ part = "coalescer" /\ Batcher!Init /\ Unused(10)
       \/ part = "history" /\ History!Init /\ Unused(10)
       \/ part = "repository" /\ Versions!Init /\ Unused(3)
       \/ part = "checkpoints" /\ Checkpoints!Init /\ Unused(11)
       \/ part = "observers" /\ Watchers!Init /\ Unused(5)
       \/ part = "merkle" /\ Sync!Init /\ Unused(7)
       \/ part = "relaygroup" /\ Fanout!Init /\ Unused(8)
       \/ part = "yjs" /\ Room!Init /\ Unused(10)
       \/ part = "providers" /\ Provider!Init /\ Unused(6)
       \/ part = "locks" /\ Locks!Init /\ Unused(2)
       \/ part = "shared" /\ Document!Init /\ Unused(5)

\* A step of part p, which has n variables.
Only(p, n) == part = p /\ UNCHANGED <<part, vars>> /\ StillUnused(n)

ServicesNext ==
    \/ part = "hlc" /\ Next /\ UNCHANGED <<part, slots>>
    \/ Only("gossip", 4) /\ Detector!Next
    \/ Only("coalescer", 10) /\ Batcher!Next
    \/ Only("history", 10) /\ History!Next
    \/ Only("repository", 3) /\ Versions!Next
    \/ Only("checkpoints", 11) /\ Checkpoints!Next
    \/ Only("observers", 5) /\ Watchers!Next
    \/ Only("merkle", 7) /\ Sync!Next
    \/ Only("relaygroup", 8) /\ Fanout!Next
    \/ Only("yjs", 10) /\ Room!Next
    \/ Only("providers", 6) /\ Provider!Next
    \/ Only("locks", 2) /\ Locks!Next
    \/ Only("shared", 5) /\ Document!Next

ServicesSpec == ServicesInit /\ [][ServicesNext]_servicesVars

----------------------------------------------------------------------------
\* Failure detector, Suspects and Observe: a member is suspected only after a full
\* silent period, and comes back only by a heartbeat newer than all before.
DetectorSound ==
    /\ [](part = "gossip" => Detector!SuspicionJustified)
    /\ [][part = "gossip" => Detector!OnlyByNewer]_servicesVars

\* Coalescer.Add and Drain: every delta accepted is queued or sent, once, and the
\* queue's type and size are those of its deltas.
AcceptedOnce == part = "coalescer" => Batcher!AcceptedOnce

\* history.Manager: undo and redo retrace the recorded commands, through failed and
\* ambiguous transactions of the host.
Retraces == part = "history" => History!Retraces

\* history.Repository: every reachable version can be restored, the accounts are
\* exact, and a refused operation leaves no trace.
Restorable == part = "repository" => Versions!Restorable

\* persistence.FileStore and BoltStore: what was acknowledged survives a crash, and
\* an open store answers with what its file holds.
AcknowledgedKept == part = "checkpoints" => Checkpoints!AcknowledgedKept

\* replica.Session: no two recovery bases are acknowledged to one group.
OneRecoveryBase == part = "checkpoints" => Checkpoints!OneRecoveryBase

\* observe.Store: a subscriber that stays is told of the newest value, in order.
SubscriberCurrent == part = "observers" => Watchers!SubscriberCurrent

\* Merkle repair: success is reported only for equal directories, and lasts.
NoFalseSuccess == part = "merkle" => Sync!NoFalseSuccess

\* extensions.Group: a subscriber receives the changes accepted since it joined in
\* order and without a gap, or is disconnected.
StreamUnbroken == part = "relaygroup" => Fanout!StreamUnbroken

\* extensions.YJSRoom: no connected client lacks an update of the room for good.
NoUpdateMissed == part = "yjs" => Room!NoUpdateMissed

\* extensions.YJSRoom: once messages are delivered, clients show the presence of the
\* connections that are open and of no other.
PresenceSettled == part = "yjs" => Room!PresenceSettled

\* The storage providers, Append: one sequence per dot, no gap, no append lost.
AppendedOnce == part = "providers" => Provider!AppendedOnce

\* The storage providers, Replay: a complete suffix, whoever appends meanwhile.
ReplayComplete == part = "providers" => Provider!ReplayComplete

\* The storage providers, Replay as durable.Log states it: only a Replay whose reads
\* failed reports a corrupt store, and a suffix over the window is unavailable.
OverWindowUnavailable == part = "providers" => Provider!OverWindowUnavailable

\* set.ORSet.Merge: merges in opposite directions never deadlock.
MergesNeverDeadlock == part = "locks" => Locks!MergesNeverDeadlock

\* shared.Document: one root per name, each local update handed over once, none lost.
UpdatesComplete == part = "shared" => Document!UpdatesComplete
=============================================================================

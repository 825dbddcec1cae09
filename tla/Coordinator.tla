----------------------------- MODULE Coordinator ----------------------------
(***************************************************************************)
(* tombstonegc.Coordinator (tombstonegc/coordinator.go and                 *)
(* membership_install.go): exact acknowledgements of tombstones by the     *)
(* members of one epoch, and the compaction of one local target.           *)
(*                                                                         *)
(* The code keeps, beside the acknowledgements themselves, one counter per *)
(* tag and one counter of all entries; eligibility is decided by comparing *)
(* the counter of a tag with the number of members.                        *)
(*                                                                         *)
(* Locks.  AcknowledgeAndCompactTarget holds membershipMu for reading from *)
(* its first step to its last, acknowledgementMu only in the middle, and   *)
(* the target's own lock in the first and the last step.  `call' holds the *)
(* calls in progress; a membership change waits until there is none.       *)
(***************************************************************************)
EXTENDS Integers, FiniteSets, FiniteSetsExt

CONSTANTS Member, Tag, Caller,
          MaxEpoch   \* ^uint64(0)

ASSUME MemberAssumption == IsFiniteSet(Member) /\ Member # {}
ASSUME MaxEpochAssumption == MaxEpoch \in Nat \ {0}

VARIABLES epoch, members,   \* c.epoch, c.members
          acks,             \* c.acknowledgements (no map for a member: {})
          counts,           \* c.acknowledgementCounts (no entry for a tag: 0)
          entries,          \* c.acknowledgementEntries
          target,           \* tombstones of the local target
          call,             \* AcknowledgeAndCompactTarget calls in progress
          reported          \* history: tags each member reported for this epoch

vars == <<epoch, members, acks, counts, entries, target, call, reported>>

Epochs == 1..MaxEpoch

Idle == [step |-> "idle"]

Report == [member : Member, epoch : Epochs, tags : SUBSET Tag]

Calls ==
    [step : {"idle"}]
      \cup [step : {"read"}, report : Report, candidates : SUBSET Tag]
      \cup [step : {"compact"}, stable : SUBSET Tag]

TypeOK ==
    /\ epoch \in Epochs
    /\ members \in (SUBSET Member) \ {{}}
    /\ acks \in [Member -> SUBSET Tag]
    /\ counts \in [Tag -> Int]
    /\ target \subseteq Tag
    /\ call \in [Caller -> Calls]
    /\ reported \in [Member -> SUBSET Tag]

NoAcks == [m \in Member |-> {}]
NoCounts == [t \in Tag |-> 0]

\* NewCoordinator, or NewCoordinatorAtMembership at any persisted view.
Init ==
    /\ epoch = 1
    /\ members \in (SUBSET Member) \ {{}}
    /\ acks = NoAcks
    /\ counts = NoCounts
    /\ entries = 0
    /\ target = {}
    /\ call = [p \in Caller |-> Idle]
    /\ reported = NoAcks

\* The history: r was reported while its epoch was current.
Heard(r) ==
    reported' = IF r.epoch = epoch
                THEN [reported EXCEPT ![r.member] = @ \cup r.tags]
                ELSE reported

\* acknowledgeLocked's tests (the group is fixed).
Accepted(r) == r.epoch = epoch /\ r.member \in members

\* acknowledgeLocked's loop: each tag is counted once per member.
Record(r) ==
    LET fresh == r.tags \ acks[r.member] IN
    /\ acks' = [acks EXCEPT ![r.member] = @ \cup fresh]
    /\ counts' = [t \in Tag |-> counts[t] + (IF t \in fresh THEN 1 ELSE 0)]
    /\ entries' = entries + Cardinality(fresh)

\* Acknowledge; a rejected report changes nothing.
Acknowledge(r) ==
    /\ Accepted(r)
    /\ Record(r)
    /\ Heard(r)
    /\ UNCHANGED <<epoch, members, target, call>>

\* AcknowledgeAndCompactTarget: membershipMu.RLock, then target.TombstoneTags.
ReadCandidates(p, r) ==
    /\ call[p] = Idle
    /\ call' = [call EXCEPT ![p] = [step |-> "read", report |-> r, candidates |-> target]]
    /\ UNCHANGED <<epoch, members, acks, counts, entries, target, reported>>

\* stableTombstonesLocked, with the counters c.
Stable(candidates, c) == {t \in candidates : c[t] = Cardinality(members)}

\* The section under acknowledgementMu: record the report and decide.
Decide(p) ==
    /\ call[p].step = "read"
    /\ LET r == call[p].report IN
       \/ /\ ~Accepted(r)
          /\ call' = [call EXCEPT ![p] = Idle]
          /\ UNCHANGED <<acks, counts, entries, reported>>
       \/ /\ Accepted(r)
          /\ Record(r)
          /\ Heard(r)
          /\ call' = [call EXCEPT ![p] =
                        [step |-> "compact", stable |-> Stable(call[p].candidates, counts')]]
    /\ UNCHANGED <<epoch, members, target>>

\* target.CompactTombstones or CompactEligibleTombstones, then
\* membershipMu.RUnlock.  A target may keep tags its structure still needs.
CompactTarget(p) ==
    /\ call[p].step = "compact"
    /\ \E removed \in SUBSET call[p].stable : target' = target \ removed
    /\ call' = [call EXCEPT ![p] = Idle]
    /\ UNCHANGED <<epoch, members, acks, counts, entries, reported>>

\* A deletion reaches the target (Remove, ApplyDelta or Merge under its lock),
\* for the first time or again after a compaction.
Delete(t) ==
    /\ t \notin target
    /\ target' = target \cup {t}
    /\ UNCHANGED <<epoch, members, acks, counts, entries, call, reported>>

\* Mutated form: drops the proofs and forgets the counters.
PruneKeepsCounts(e, tags) ==
    /\ e = epoch
    /\ acks' = [m \in Member |-> acks[m] \ tags]
    /\ entries' = entries - MapThenSumSet(LAMBDA m : Cardinality(acks[m] \cap tags), Member)
    /\ UNCHANGED <<epoch, members, counts, target, call, reported>>

\* prunesAllAcknowledgementTagsLocked: tags covers exactly the counted tags.
PrunesAll(tags) == tags = {t \in Tag : counts[t] > 0}

\* PruneAcknowledgements: the whole table at once, or tag by tag.
Prune(e, tags) ==
    /\ e = epoch
    /\ \/ /\ PrunesAll(tags)
          /\ acks' = NoAcks
          /\ counts' = NoCounts
          /\ entries' = 0
       \/ /\ ~PrunesAll(tags)
          /\ acks' = [m \in Member |-> acks[m] \ tags]
          /\ counts' = [t \in Tag |-> IF t \in tags THEN 0 ELSE counts[t]]
          /\ entries' = entries
                          - MapThenSumSet(LAMBDA m : Cardinality(acks[m] \cap tags), Member)
    /\ UNCHANGED <<epoch, members, target, call, reported>>

\* membershipMu is free for a writer.
NoReader == \A p \in Caller : call[p] = Idle

\* Mutated form: the acknowledgements of members that stay are kept.
FenceKeepsAcks(e, ms) ==
    /\ epoch' = e
    /\ members' = ms
    /\ reported' = NoAcks
    /\ UNCHANGED <<acks, counts, entries>>

\* The new epoch and an empty acknowledgement table.
Fence(e, ms) ==
    /\ epoch' = e
    /\ members' = ms
    /\ acks' = NoAcks
    /\ counts' = NoCounts
    /\ entries' = 0
    /\ reported' = NoAcks

\* ReplaceMembership.
ReplaceMembership(ms) ==
    /\ NoReader
    /\ epoch # MaxEpoch
    /\ Fence(epoch + 1, ms)
    /\ UNCHANGED <<target, call>>

\* InstallMembership; an equal or older epoch changes nothing.
InstallMembership(e, ms) ==
    /\ NoReader
    /\ e > epoch
    /\ Fence(e, ms)
    /\ UNCHANGED <<target, call>>

\* The process dies and NewCoordinatorAtMembership makes an empty coordinator
\* at whatever membership it is given.  (A compaction the host had not saved is
\* undone by a later Delete.)
NewCoordinatorAtMembership(e, ms) ==
    /\ epoch' = e
    /\ members' = ms
    /\ acks' = NoAcks
    /\ counts' = NoCounts
    /\ entries' = 0
    /\ call' = [p \in Caller |-> Idle]
    /\ reported' = IF e = epoch THEN reported ELSE NoAcks
    /\ UNCHANGED target

\* A restart that keeps the coordinator's contract: the membership is the one
\* it had or one of a later epoch.  The constructor cannot test this; that the
\* membership manager keeps it is part of what RefinesCoordinator states.
Restart(e, ms) ==
    /\ e > epoch \/ (e = epoch /\ ms = members)
    /\ NewCoordinatorAtMembership(e, ms)

Next ==
    \/ \E r \in Report : Acknowledge(r) \/ \E p \in Caller : ReadCandidates(p, r)
    \/ \E p \in Caller : Decide(p) \/ CompactTarget(p)
    \/ \E t \in Tag : Delete(t)
    \/ \E tags \in SUBSET Tag : Prune(epoch, tags)
    \/ \E ms \in (SUBSET Member) \ {{}} :
          \/ ReplaceMembership(ms)
          \/ \E e \in Epochs : InstallMembership(e, ms) \/ Restart(e, ms)

Spec == Init /\ [][Next]_vars

----------------------------------------------------------------------------
\* The counter of a tag is the number of current members whose acknowledgement
\* of it is retained; only current members have retained acknowledgements.
CountsExact ==
    /\ \A t \in Tag : counts[t] = Cardinality({m \in members : t \in acks[m]})
    /\ \A m \in Member \ members : acks[m] = {}

\* "cannot make a tombstone eligible prematurely": whatever is removed from the
\* target was reported, as exactly that tag and for the epoch that is current
\* at the removal, by every member of that epoch, in spite of racing
\* reports, prunes, membership changes and restarts.
CompactOnlyAcknowledged ==
    [][\A t \in target \ target' : \A m \in members : t \in reported[m]]_vars
=============================================================================

-------------------------------- MODULE Tags --------------------------------
(***************************************************************************)
(* Mutation tags (crdt.go) and the arithmetic of the hybrid logical clock  *)
(* that produces them (clock/hlc.go).  A tag is a record                   *)
(*   [wall |-> WallTime, logical |-> Logical, id |-> ReplicaID].           *)
(* Replica identifiers are natural numbers, because Tag.Compare breaks     *)
(* ties by comparing them; MaxWord stands for math.MaxUint64.              *)
(***************************************************************************)
EXTENDS Integers, FiniteSets

CONSTANT MaxWord

ASSUME MaxWordAssumption == MaxWord \in Nat

Word == 0..MaxWord

\* The persistable part of a clock, clock.State without the identifier.
Stamp == [wall : Word, logical : Word]

ZeroStamp == [wall |-> 0, logical |-> 0]

StampLess(s, t) ==
    \/ s.wall < t.wall
    \/ s.wall = t.wall /\ s.logical < t.logical

\* s.Compare(t) < 0.
TagLess(s, t) ==
    \/ StampLess(s, t)
    \/ s.wall = t.wall /\ s.logical = t.logical /\ s.id < t.id

TagLeq(s, t) == s = t \/ TagLess(s, t)

\* greatestStateTag / greatestFrontierTag: the largest tag of a finite,
\* non-empty set.
GreatestTag(tags) == CHOOSE t \in tags : \A u \in tags : TagLeq(u, t)

\* nextTimestamp: the successor stamp exists unless both words are at their
\* maximum, in which case the code returns ErrClockExhausted.
Exhausted(s) == s.wall = MaxWord /\ s.logical = MaxWord

NextStamp(s) ==
    IF s.logical # MaxWord
    THEN [wall |-> s.wall, logical |-> s.logical + 1]
    ELSE [wall |-> s.wall + 1, logical |-> 0]

\* advanceLocal: what Now does to the clock under h.mu with a physical reading
\* taken earlier.
NowBase(c, physical) ==
    IF physical > c.wall THEN [wall |-> physical, logical |-> 0] ELSE NextStamp(c)

NowFails(c, physical) == physical <= c.wall /\ Exhausted(c)

MaxOf(a, b) == IF a >= b THEN a ELSE b

\* Witness: the timestamp nextTimestamp is applied to, when one is.
WitnessBase(c, remote, physical) ==
    CASE c.wall >= physical /\ c.wall = remote.wall ->
            [wall |-> c.wall, logical |-> MaxOf(c.logical, remote.logical)]
      [] c.wall >= physical /\ c.wall > remote.wall -> c
      [] OTHER -> [wall |-> remote.wall, logical |-> remote.logical]

\* Neither clock is at the maximum: the physical reading alone wins.
PhysicalWins(c, remote, physical) == physical > c.wall /\ physical > remote.wall

WitnessFails(c, remote, physical) ==
    ~PhysicalWins(c, remote, physical) /\ Exhausted(WitnessBase(c, remote, physical))

\* Mutated form: only compares the wall times, so a remote tag of the same
\* millisecond does not push the logical counter past itself.
WitnessIgnoresLogical(c, remote, physical) ==
    IF PhysicalWins(c, remote, physical) THEN [wall |-> physical, logical |-> 0]
    ELSE IF c.wall >= remote.wall THEN NextStamp(c)
    ELSE [wall |-> remote.wall, logical |-> 0]

Witnessed(c, remote, physical) ==
    IF PhysicalWins(c, remote, physical)
    THEN [wall |-> physical, logical |-> 0]
    ELSE NextStamp(WitnessBase(c, remote, physical))

StampOf(t) == [wall |-> t.wall, logical |-> t.logical]

\* Mutated form: the tag does not name its replica.
TagAnonymous(c, r) == [wall |-> c.wall, logical |-> c.logical, id |-> 1]

TagAt(c, r) == [wall |-> c.wall, logical |-> c.logical, id |-> r]

\* What Now may leave in a clock, over the readings ps; nothing when it fails.
NowFrom(c, ps) == {NowBase(c, p) : p \in {q \in ps : ~NowFails(c, q)}}

\* What a clock may be after witnessing the greatest tag of a state.
WitnessFrom(c, tags, ps) ==
    LET top == StampOf(GreatestTag(tags)) IN
    IF tags = {} THEN {c}
    ELSE {Witnessed(c, top, p) : p \in {q \in ps : ~WitnessFails(c, top, q)}}
=============================================================================

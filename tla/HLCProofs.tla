----------------------------- MODULE HLCProofs ------------------------------
(***************************************************************************)
(* Proofs about the hybrid logical clock, for every word size, number of   *)
(* callers, physical clock and set of remote tags.  Inv is inductive:      *)
(* TagsUnique alone is not, because it does not say where the clock is     *)
(* relative to the tags that were given out; ClockDominates does.          *)
(***************************************************************************)
EXTENDS HLC, TLAPS

Inv == TypeOK /\ ClockDominates /\ TagsUnique

\* The order on stamps is transitive, also through AtMost.
LEMMA StampOrder ==
    ASSUME NEW r \in Stamp, NEW s \in Stamp, NEW t \in Stamp
    PROVE  /\ StampLess(r, s) /\ StampLess(s, t) => StampLess(r, t)
           /\ AtMost(r, s) /\ StampLess(s, t) => StampLess(r, t)
           /\ AtMost(r, s) /\ AtMost(s, t) => AtMost(r, t)
           /\ StampLess(r, s) => AtMost(r, s)
           /\ StampLess(r, s) => r # s
           /\ AtMost(r, r)
  BY MaxWordAssumption DEF Stamp, Word, StampLess, AtMost

\* nextTimestamp returns a larger stamp of the same width unless it fails.
LEMMA NextStampGreater ==
    ASSUME NEW s \in Stamp, ~Exhausted(s)
    PROVE  NextStamp(s) \in Stamp /\ StampLess(s, NextStamp(s))
  BY MaxWordAssumption DEF Stamp, Word, StampLess, Exhausted, NextStamp

\* advanceLocal moves the clock strictly forward.
LEMMA NowAdvances ==
    ASSUME NEW c \in Stamp, NEW t \in Word, ~NowFails(c, t)
    PROVE  NowBase(c, t) \in Stamp /\ StampLess(c, NowBase(c, t))
<1>1. CASE t > c.wall
  BY <1>1, MaxWordAssumption DEF NowBase, Stamp, Word, StampLess
<1>2. CASE ~(t > c.wall)
  <2>1. ~Exhausted(c)
    BY <1>2 DEF NowFails, Stamp, Word
  <2> QED BY <2>1, <1>2, NextStampGreater DEF NowBase
<1> QED BY <1>1, <1>2

\* Witness moves the clock strictly past both its old value and the remote tag.
LEMMA WitnessAdvances ==
    ASSUME NEW c \in Stamp, NEW r \in Stamp, NEW t \in Word, ~WitnessFails(c, r, t)
    PROVE  /\ Witnessed(c, r, t) \in Stamp
           /\ StampLess(c, Witnessed(c, r, t))
           /\ StampLess(r, Witnessed(c, r, t))
<1>1. CASE PhysicalWins(c, r, t)
  BY <1>1, MaxWordAssumption DEF PhysicalWins, Witnessed, Stamp, Word, StampLess
<1>2. CASE ~PhysicalWins(c, r, t)
  <2> DEFINE b == WitnessBase(c, r, t)
  <2>1. b \in Stamp /\ AtMost(c, b) /\ AtMost(r, b)
    <3>1. CASE c.wall >= t /\ c.wall = r.wall
      <4>1. b = [wall |-> c.wall, logical |-> MaxOf(c.logical, r.logical)]
        BY <3>1 DEF WitnessBase, Stamp, Word
      <4>2. CASE c.logical >= r.logical
        <5>1. b = c
          BY <4>1, <4>2 DEF MaxOf, Stamp
        <5> QED BY <5>1, <3>1, <4>2, MaxWordAssumption DEF Stamp, Word, AtMost, StampLess
      <4>3. CASE ~(c.logical >= r.logical)
        <5>1. b = r
          BY <4>1, <4>3, <3>1 DEF MaxOf, Stamp
        <5> QED BY <5>1, <3>1, <4>3, MaxWordAssumption DEF Stamp, Word, AtMost, StampLess
      <4> QED BY <4>2, <4>3
    <3>2. CASE c.wall >= t /\ c.wall > r.wall
      <4>1. b = c
        BY <3>2 DEF WitnessBase, Stamp, Word
      <4> QED BY <4>1, <3>2, MaxWordAssumption DEF Stamp, Word, AtMost, StampLess
    <3>3. CASE ~(c.wall >= t /\ c.wall = r.wall) /\ ~(c.wall >= t /\ c.wall > r.wall)
      <4>1. b = r
        BY <3>3 DEF WitnessBase, Stamp
      <4>2. c.wall < r.wall
        BY <3>3, <1>2, MaxWordAssumption DEF PhysicalWins, Stamp, Word
      <4> QED BY <4>1, <4>2 DEF AtMost, StampLess
    <3> QED BY <3>1, <3>2, <3>3
  <2>2. ~Exhausted(b)
    BY <1>2 DEF WitnessFails
  <2>3. NextStamp(b) \in Stamp /\ StampLess(b, NextStamp(b))
    BY <2>1, <2>2, NextStampGreater
  <2>4. Witnessed(c, r, t) = NextStamp(b)
    BY <1>2 DEF Witnessed
  <2> HIDE DEF b
  <2> QED BY <2>1, <2>3, <2>4, StampOrder
<1> QED BY <1>1, <1>2

\* The initial state satisfies the inductive invariant.
LEMMA InitInv == Init => Inv
  BY MaxWordAssumption
  DEF Init, Inv, TypeOK, ClockDominates, TagsUnique, Holders, Idle, Calls, ZeroStamp,
      Stamp, Word, AtMost

\* Every step of the clock, its callers and its host preserves the invariant.
LEMMA NextInv == Inv /\ [Next]_vars => Inv'
<1> SUFFICES ASSUME Inv, [Next]_vars PROVE Inv'
  OBVIOUS
<1> USE DEF Inv
<1>1. ASSUME NEW p \in Caller, ReadNow(p) PROVE Inv'
  <2> PICK t \in Physical : call' = [call EXCEPT ![p] = [op |-> "now", physical |-> t]]
    BY <1>1 DEF ReadNow
  <2>1. UNCHANGED <<clock, durable, released, witnessed>> /\ call[p] = Idle
    BY <1>1 DEF ReadNow
  <2>2. TypeOK'
    BY <2>1, PhysicalAssumption DEF TypeOK, Calls
  <2>3. Holders' = Holders /\ \A q \in Holders : call'[q] = call[q]
    BY <2>1 DEF Holders, TypeOK, Idle
  <2>4. \A q \in Caller : call'[q].op = "saved" => call[q] = call'[q]
    BY <2>1 DEF TypeOK
  <2> QED BY <2>1, <2>2, <2>3, <2>4 DEF ClockDominates, TagsUnique
<1>2. ASSUME NEW p \in Caller, LockNow(p) PROVE Inv'
  <2>0. UNCHANGED <<durable, released, witnessed>> /\ call[p].op = "now"
    BY <1>2 DEF LockNow
  <2>1. p \notin Holders /\ call[p].physical \in Word
    BY <2>0 DEF Holders, TypeOK, Calls
  <2>2. CASE NowFails(clock, call[p].physical)
    <3>1. clock' = clock /\ call' = [call EXCEPT ![p] = Idle]
      BY <1>2, <2>2 DEF LockNow
    <3>2. TypeOK'
      BY <3>1, <2>0 DEF TypeOK, Calls, Idle
    <3>3. Holders' = Holders /\ \A q \in Holders : call'[q] = call[q]
      BY <3>1, <2>1 DEF Holders, TypeOK, Idle
    <3>4. \A q \in Caller : call'[q].op = "saved" => call[q] = call'[q]
      BY <3>1 DEF TypeOK, Idle
    <3> QED BY <2>0, <3>1, <3>2, <3>3, <3>4 DEF ClockDominates, TagsUnique
  <2>3. CASE ~NowFails(clock, call[p].physical)
    <3>1. /\ clock' = NowBase(clock, call[p].physical)
          /\ call' = [call EXCEPT ![p] = [op |-> "holding", tag |-> clock']]
      BY <1>2, <2>3 DEF LockNow
    <3>2. clock' \in Stamp /\ StampLess(clock, clock')
      BY <3>1, <2>1, <2>3, NowAdvances DEF TypeOK
    <3>3. TypeOK'
      BY <3>1, <3>2, <2>0 DEF TypeOK, Calls
    <3>4. /\ Holders' = Holders \cup {p}
          /\ \A q \in Holders : call'[q] = call[q]
          /\ call'[p].tag = clock'
      BY <3>1, <2>1 DEF Holders, TypeOK
    <3>5. \A q \in Holders : call[q].tag \in Stamp
      BY DEF Holders, TypeOK, Calls
    <3>6. \A q \in Caller : call'[q].op = "saved" => call[q] = call'[q]
      BY <3>1 DEF TypeOK
    <3>7. \A q \in Holders : StampLess(call[q].tag, clock')
      BY <3>2, <3>5, StampOrder DEF ClockDominates, TypeOK
    <3>8. \A t \in released : StampLess(t, clock')
      <4> SUFFICES ASSUME NEW t \in released PROVE StampLess(t, clock')
        OBVIOUS
      <4>1. t \in Stamp /\ durable \in Stamp /\ clock \in Stamp
        BY DEF TypeOK
      <4>2. AtMost(t, durable) /\ AtMost(durable, clock)
        BY DEF ClockDominates
      <4>3. AtMost(t, clock)
        BY <4>1, <4>2, StampOrder
      <4> QED BY <4>1, <4>3, <3>2, StampOrder
    <3>9. ClockDominates'
      <4>1. \A q \in Holders' : AtMost(call'[q].tag, clock')
        BY <3>2, <3>4, <3>5, <3>7, StampOrder
      <4>2. \A t \in witnessed' : StampLess(t, clock')
        BY <3>2, <2>0, StampOrder DEF ClockDominates, TypeOK
      <4>3. AtMost(durable', clock')
        BY <3>2, <2>0, StampOrder DEF ClockDominates, TypeOK
      <4> QED BY <4>1, <4>2, <4>3, <3>6, <2>0 DEF ClockDominates
    <3>10. TagsUnique'
      <4>1. \A q \in Holders : call[q].tag # clock'
        BY <3>2, <3>5, <3>7, StampOrder
      <4>2. clock' \notin released
        BY <3>2, <3>8, StampOrder DEF TypeOK
      <4> QED BY <4>1, <4>2, <3>4, <2>0, <2>1 DEF TagsUnique
    <3> QED BY <3>3, <3>9, <3>10
  <2> QED BY <2>2, <2>3
<1>3. ASSUME NEW p \in Caller, ReadWitness(p) PROVE Inv'
  <2> PICK t \in Physical, r \in Remote :
        call' = [call EXCEPT ![p] = [op |-> "witness", physical |-> t, remote |-> r]]
    BY <1>3 DEF ReadWitness
  <2>1. UNCHANGED <<clock, durable, released, witnessed>> /\ call[p] = Idle
    BY <1>3 DEF ReadWitness
  <2>2. TypeOK'
    BY <2>1, PhysicalAssumption, RemoteAssumption DEF TypeOK, Calls
  <2>3. Holders' = Holders /\ \A q \in Holders : call'[q] = call[q]
    BY <2>1 DEF Holders, TypeOK, Idle
  <2>4. \A q \in Caller : call'[q].op = "saved" => call[q] = call'[q]
    BY <2>1 DEF TypeOK
  <2> QED BY <2>1, <2>2, <2>3, <2>4 DEF ClockDominates, TagsUnique
<1>4. ASSUME NEW p \in Caller, LockWitness(p) PROVE Inv'
  <2> DEFINE r == call[p].remote
             t == call[p].physical
  <2>0. /\ UNCHANGED <<durable, released>> /\ call[p].op = "witness"
        /\ call' = [call EXCEPT ![p] = Idle]
    BY <1>4 DEF LockWitness
  <2>1. r \in Stamp /\ t \in Word /\ p \notin Holders
    BY <2>0 DEF Holders, TypeOK, Calls
  <2>2. Holders' = Holders /\ \A q \in Holders : call'[q] = call[q]
    BY <2>0, <2>1 DEF Holders, TypeOK, Idle
  <2>3. \A q \in Caller : call'[q].op = "saved" => call[q] = call'[q]
    BY <2>0 DEF TypeOK, Idle
  <2>4. \A q \in Holders : call[q].tag \in Stamp
    BY DEF Holders, TypeOK, Calls
  <2>5. CASE WitnessFails(clock, r, t)
    <3>1. UNCHANGED <<clock, witnessed>>
      BY <1>4, <2>5 DEF LockWitness
    <3>2. TypeOK'
      BY <3>1, <2>0 DEF TypeOK, Calls, Idle
    <3> QED BY <3>1, <3>2, <2>0, <2>2, <2>3 DEF ClockDominates, TagsUnique
  <2>6. CASE ~WitnessFails(clock, r, t)
    <3>1. clock' = Witnessed(clock, r, t) /\ witnessed' = witnessed \cup {r}
      BY <1>4, <2>6 DEF LockWitness
    <3>2. clock' \in Stamp /\ StampLess(clock, clock') /\ StampLess(r, clock')
      BY <3>1, <2>1, <2>6, WitnessAdvances DEF TypeOK
    <3>3. TypeOK'
      BY <3>1, <3>2, <2>0, <2>1 DEF TypeOK, Calls, Idle
    <3>4. \A q \in Holders' : AtMost(call'[q].tag, clock')
      BY <3>2, <2>2, <2>4, StampOrder DEF ClockDominates, TypeOK
    <3>5. \A w \in witnessed' : StampLess(w, clock')
      BY <3>1, <3>2, StampOrder DEF ClockDominates, TypeOK
    <3>6. AtMost(durable', clock')
      BY <3>2, <2>0, StampOrder DEF ClockDominates, TypeOK
    <3> QED BY <3>3, <3>4, <3>5, <3>6, <2>0, <2>2, <2>3 DEF ClockDominates, TagsUnique
  <2> QED BY <2>5, <2>6
<1>5. ASSUME NEW p \in Caller, SaveSnapshot(p) PROVE Inv'
  <2>0. /\ UNCHANGED <<clock, released, witnessed>> /\ call[p].op = "holding"
        /\ durable' = clock /\ call' = [call EXCEPT ![p].op = "saved"]
    BY <1>5 DEF SaveSnapshot
  <2>1. call[p] \in [op : {"holding", "saved"}, tag : Stamp]
    BY <2>0 DEF TypeOK, Calls
  <2>2. TypeOK'
    BY <2>0, <2>1 DEF TypeOK, Calls
  <2>3. Holders' = Holders /\ \A q \in Holders : call'[q].tag = call[q].tag
    BY <2>0, <2>1 DEF Holders, TypeOK
  <2>4. \A q \in Caller : call'[q].op = "saved" => q \in Holders
    BY <2>0 DEF Holders, TypeOK
  <2>5. \A u \in released' : AtMost(u, durable')
    BY <2>0, StampOrder DEF ClockDominates, TypeOK
  <2>6. AtMost(durable', clock')
    BY <2>0 DEF AtMost
  <2> QED BY <2>0, <2>2, <2>3, <2>4, <2>5, <2>6 DEF ClockDominates, TagsUnique
<1>6. ASSUME NEW p \in Caller, Release(p) PROVE Inv'
  <2>0. /\ UNCHANGED <<clock, durable, witnessed>> /\ call[p].op = "saved"
        /\ released' = released \cup {call[p].tag} /\ call' = [call EXCEPT ![p] = Idle]
    BY <1>6 DEF Release
  <2>1. p \in Holders /\ call[p].tag \in Stamp
    BY <2>0 DEF Holders, TypeOK, Calls
  <2>2. TypeOK'
    BY <2>0, <2>1 DEF TypeOK, Calls, Idle
  <2>3. Holders' = Holders \ {p} /\ \A q \in Holders' : call'[q] = call[q]
    BY <2>0 DEF Holders, TypeOK, Idle
  <2>4. \A q \in Caller : call'[q].op = "saved" => call[q] = call'[q]
    BY <2>0 DEF TypeOK, Idle
  <2>5. AtMost(call[p].tag, durable)
    BY <2>0 DEF ClockDominates
  <2> QED BY <2>0, <2>1, <2>2, <2>3, <2>4, <2>5 DEF ClockDominates, TagsUnique
<1>7. ASSUME Restart PROVE Inv'
  <2>1. Holders' = {} /\ \A q \in Caller : call'[q].op = "idle"
    BY <1>7 DEF Restart, Holders, Idle
  <2>2. TypeOK'
    BY <1>7 DEF Restart, TypeOK, Calls, Idle
  <2> QED BY <1>7, <2>1, <2>2 DEF Restart, ClockDominates, TagsUnique, AtMost
<1>8. CASE UNCHANGED vars
  <2>1. Holders' = Holders
    BY <1>8 DEF vars, Holders
  <2> QED BY <1>8, <2>1 DEF vars, TypeOK, ClockDominates, TagsUnique
<1> QED BY <1>1, <1>2, <1>3, <1>4, <1>5, <1>6, <1>7, <1>8 DEF Next

\* Type correctness of the clock, its callers and its saved state.
THEOREM HLCTypeOK == Spec => []TypeOK
<1>1. Inv => TypeOK
  BY DEF Inv
<1> QED BY <1>1, InitInv, NextInv, PTL DEF Spec

\* Tags returned by Now are never returned twice, across goroutines, arbitrary
\* physical clocks and restarts from the saved state.
THEOREM HLCTagsUnique == Spec => []TagsUnique
<1>1. Inv => TagsUnique
  BY DEF Inv
<1> QED BY <1>1, InitInv, NextInv, PTL DEF Spec

\* Every tag Now returns is above all tags released, held or witnessed before.
THEOREM HLCNowExceedsHistory == Spec => NowExceedsHistory
<1> DEFINE Exceeds ==
      \A p \in Caller : call[p].op = "now" /\ call'[p].op = "holding" =>
         /\ \A t \in released \cup witnessed : StampLess(t, call'[p].tag)
         /\ \A q \in Holders : StampLess(call[q].tag, call'[p].tag)
<1>1. Inv /\ [Next]_vars => [Exceeds]_vars
  <2> SUFFICES ASSUME Inv, Next, NEW p \in Caller,
                      call[p].op = "now", call'[p].op = "holding"
               PROVE  /\ \A t \in released \cup witnessed : StampLess(t, call'[p].tag)
                      /\ \A q \in Holders : StampLess(call[q].tag, call'[p].tag)
    OBVIOUS
  <2> USE DEF Inv
  <2>1. LockNow(p)
    BY DEF Next, ReadNow, LockNow, ReadWitness, LockWitness, SaveSnapshot, Release,
           Restart, TypeOK, Idle
  <2>2. ~NowFails(clock, call[p].physical)
    BY <2>1 DEF LockNow, TypeOK, Idle
  <2>3. /\ clock' = NowBase(clock, call[p].physical)
        /\ call'[p].tag = clock'
    BY <2>1, <2>2 DEF LockNow, TypeOK
  <2>4. call[p].physical \in Word
    BY DEF TypeOK, Calls
  <2>5. clock' \in Stamp /\ StampLess(clock, clock')
    BY <2>2, <2>3, <2>4, NowAdvances DEF TypeOK
  <2>6. \A q \in Holders : call[q].tag \in Stamp
    BY DEF Holders, TypeOK, Calls
  <2>7. \A q \in Holders : StampLess(call[q].tag, call'[p].tag)
    BY <2>3, <2>5, <2>6, StampOrder DEF ClockDominates, TypeOK
  <2>8. \A t \in witnessed : StampLess(t, call'[p].tag)
    BY <2>3, <2>5, StampOrder DEF ClockDominates, TypeOK
  <2>9. \A t \in released : StampLess(t, call'[p].tag)
    <3> SUFFICES ASSUME NEW t \in released PROVE StampLess(t, clock')
      BY <2>3
    <3>1. t \in Stamp /\ durable \in Stamp /\ clock \in Stamp
      BY DEF TypeOK
    <3>2. AtMost(t, durable) /\ AtMost(durable, clock)
      BY DEF ClockDominates
    <3>3. AtMost(t, clock)
      BY <3>1, <3>2, StampOrder
    <3> QED BY <3>1, <3>3, <2>5, StampOrder
  <2> QED BY <2>7, <2>8, <2>9
<1> QED BY <1>1, InitInv, NextInv, PTL DEF Spec, NowExceedsHistory
=============================================================================

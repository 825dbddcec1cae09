---------------------------- MODULE InboxProofs -----------------------------
(***************************************************************************)
(* Proofs about replica.Inbox for every set of actors, payloads, limits    *)
(* and every transport.  Inv adds to the checked invariants that the      *)
(* buffer is finite (so that its cardinality can be counted) and that the  *)
(* saved state is itself a contiguous prefix (so that a restart is).       *)
(***************************************************************************)
EXTENDS Inbox, FiniteSetTheorems, TLAPS

\* The state the host saved is, per actor, a prefix of offered changes.
Prefixes(f) ==
    \A a \in Actor : \A n \in 1..Len(f[a]) :
        [actor |-> a, counter |-> n, payload |-> f[a][n]] \in Offer

Inv ==
    /\ TypeOK
    /\ frontier = Lengths(applied)
    /\ Prefixes(applied)
    /\ Prefixes(durable)
    /\ PendingBeyondFrontier
    /\ IsFiniteSet(pending)
    /\ CountExact

\* Installing the next dot of an actor extends the applied prefix by one.
LEMMA InstallExtends ==
    ASSUME TypeOK, frontier = Lengths(applied), Prefixes(applied),
           NEW c \in Offer, c.counter = frontier[c.actor] + 1, Install(c)
    PROVE  /\ applied' \in [Actor -> Seq(Payload)]
           /\ frontier' \in [Actor -> Nat]
           /\ frontier' = Lengths(applied')
           /\ Prefixes(applied')
           /\ frontier'[c.actor] = c.counter
           /\ \A a \in Actor : a # c.actor => frontier'[a] = frontier[a]
           /\ applied'[c.actor][c.counter] = c.payload
<1>1. c.actor \in Actor /\ c.counter \in Nat \ {0} /\ c.payload \in Payload
  BY OfferAssumption DEF Change
<1>2. c = [actor |-> c.actor, counter |-> c.counter, payload |-> c.payload]
  BY OfferAssumption DEF Change
<1>3. /\ applied' = [applied EXCEPT ![c.actor] = Append(applied[c.actor], c.payload)]
      /\ frontier' = [frontier EXCEPT ![c.actor] = c.counter]
  BY DEF Install
<1>4. applied[c.actor] \in Seq(Payload) /\ Len(applied[c.actor]) = c.counter - 1
  BY <1>1 DEF TypeOK, Lengths
<1>5. applied' \in [Actor -> Seq(Payload)] /\ frontier' \in [Actor -> Nat]
  BY <1>1, <1>3, <1>4 DEF TypeOK
<1>6. /\ applied'[c.actor] = Append(applied[c.actor], c.payload)
      /\ Len(applied'[c.actor]) = c.counter
      /\ applied'[c.actor][c.counter] = c.payload
  BY <1>1, <1>3, <1>4 DEF TypeOK
<1>7. \A a \in Actor : a # c.actor => applied'[a] = applied[a] /\ frontier'[a] = frontier[a]
  BY <1>3 DEF TypeOK
<1>8. frontier'[c.actor] = c.counter
  BY <1>1, <1>3 DEF TypeOK
<1>9. \A a \in Actor : frontier'[a] = Len(applied'[a])
  BY <1>6, <1>7, <1>8 DEF Lengths
<1>10. frontier' = Lengths(applied')
  BY <1>5, <1>9 DEF Lengths
<1>11. Prefixes(applied')
  <2> SUFFICES ASSUME NEW a \in Actor, NEW n \in 1..Len(applied'[a])
               PROVE  [actor |-> a, counter |-> n, payload |-> applied'[a][n]] \in Offer
    BY DEF Prefixes
  <2>1. CASE a # c.actor
    BY <2>1, <1>7 DEF Prefixes
  <2>2. CASE a = c.actor /\ n = c.counter
    BY <2>2, <1>2, <1>6
  <2>3. CASE a = c.actor /\ n # c.counter
    <3>1. n \in 1..Len(applied[a]) /\ applied'[a][n] = applied[a][n]
      BY <2>3, <1>1, <1>4, <1>6
    <3> QED BY <3>1 DEF Prefixes
  <2> QED BY <2>1, <2>2, <2>3
<1> QED BY <1>5, <1>6, <1>7, <1>8, <1>10, <1>11

\* Removing the dot just installed leaves a buffer beyond the new frontier.
LEMMA RemoveInstalled ==
    ASSUME TypeOK, PendingBeyondFrontier, IsFiniteSet(pending),
           NEW c \in Offer, c.counter = frontier[c.actor] + 1, ~Conflicts(c),
           frontier'[c.actor] = c.counter,
           \A a \in Actor : a # c.actor => frontier'[a] = frontier[a],
           pending' = pending \ {c}
    PROVE  /\ PendingBeyondFrontier'
           /\ IsFiniteSet(pending')
           /\ Cardinality(pending') =
                IF c \in pending THEN Cardinality(pending) - 1 ELSE Cardinality(pending)
<1>1. IsFiniteSet(pending') /\ Cardinality(pending') =
                IF c \in pending THEN Cardinality(pending) - 1 ELSE Cardinality(pending)
  BY FS_RemoveElement
<1>2. PendingBeyondFrontier'
  <2> SUFFICES ASSUME NEW d \in pending'
               PROVE  /\ d.counter > frontier'[d.actor]
                      /\ \A e \in pending' : SameDot(d, e) => d = e
    BY DEF PendingBeyondFrontier
  <2>1. d \in pending /\ d # c /\ d \in Change /\ c \in Change
    BY OfferAssumption DEF TypeOK
  <2>2. d.counter > frontier[d.actor]
    BY <2>1 DEF PendingBeyondFrontier
  <2>3. ASSUME d.actor = c.actor PROVE d.counter # c.counter
    BY <2>1, <2>3 DEF Conflicts, SameDot, Change
  <2>4. d.counter > frontier'[d.actor]
    <3>1. CASE d.actor = c.actor
      BY <3>1, <2>1, <2>2, <2>3 DEF TypeOK, Change
    <3>2. CASE d.actor # c.actor
      BY <3>2, <2>1, <2>2 DEF Change
    <3> QED BY <3>1, <3>2
  <2> QED BY <2>1, <2>4 DEF PendingBeyondFrontier
<1> QED BY <1>1, <1>2

\* A new inbox satisfies the invariant.
LEMMA InitInv == Init => Inv
<1> SUFFICES ASSUME Init PROVE Inv
  OBVIOUS
<1>1. Cardinality({}) = 0 /\ IsFiniteSet({})
  BY FS_EmptySet
<1> QED
  BY <1>1, LimitAssumption
  DEF Init, Inv, TypeOK, Empty, Lengths, Prefixes, PendingBeyondFrontier, CountExact

\* Every outcome of Receive, every save and every restart preserves it.
LEMMA NextInv == Inv /\ [Next]_vars => Inv'
<1> SUFFICES ASSUME Inv, [Next]_vars PROVE Inv'
  OBVIOUS
<1> USE DEF Inv
<1>1. ASSUME NEW c \in Offer, Buffer(c) PROVE Inv'
  <2>0. /\ UNCHANGED <<frontier, applied, draining, durable>>
        /\ pending' = pending \cup {c}
        /\ pendingCount' = pendingCount + 1
        /\ pendingSize' = pendingSize + Size(c.payload)
        /\ c.counter > frontier[c.actor] + 1
        /\ ~ \E d \in pending : SameDot(c, d)
        /\ pendingCount < MaxPending
    BY <1>1 DEF Buffer, HasRoom
  <2>1. c \in Change
    BY OfferAssumption
  <2>2. c \notin pending
    BY <2>0 DEF SameDot
  <2>3. IsFiniteSet(pending') /\ Cardinality(pending') = Cardinality(pending) + 1
    BY <2>0, <2>2, FS_AddElement
  <2>4. TypeOK'
    BY <2>0, <2>1, SizeAssumption, LimitAssumption DEF TypeOK, Change
  <2>5. PendingBeyondFrontier'
    BY <2>0, <2>1 DEF PendingBeyondFrontier, SameDot, TypeOK, Change
  <2>6. CountExact'
    BY <2>0, <2>3, LimitAssumption DEF CountExact, TypeOK
  <2> QED BY <2>0, <2>3, <2>4, <2>5, <2>6 DEF Prefixes, Lengths
<1>2. ASSUME NEW c \in Offer, InstallNext(c) PROVE Inv'
  <2>0. /\ c.counter = frontier[c.actor] + 1 /\ ~Conflicts(c) /\ Install(c)
        /\ draining' = c.actor /\ pending' = pending \ {c} /\ UNCHANGED durable
        /\ IF c \in pending
           THEN pendingCount' = pendingCount - 1 /\ pendingSize' = pendingSize - Size(c.payload)
           ELSE UNCHANGED <<pendingCount, pendingSize>>
    BY <1>2 DEF InstallNext
  <2>1. c \in Change
    BY OfferAssumption
  <2>2. /\ applied' \in [Actor -> Seq(Payload)]
        /\ frontier' \in [Actor -> Nat]
        /\ frontier' = Lengths(applied')
        /\ Prefixes(applied')
        /\ frontier'[c.actor] = c.counter
        /\ \A a \in Actor : a # c.actor => frontier'[a] = frontier[a]
    BY <2>0, InstallExtends
  <2>3. /\ PendingBeyondFrontier'
        /\ IsFiniteSet(pending')
        /\ Cardinality(pending') =
             IF c \in pending THEN Cardinality(pending) - 1 ELSE Cardinality(pending)
    BY <2>0, <2>2, RemoveInstalled
  <2>4. TypeOK'
    <3>1. Size(c.payload) \in Nat
      BY <2>1, SizeAssumption DEF Change
    <3>2. pendingSize' \in Int
      BY <2>0, <3>1 DEF TypeOK
    <3>4. pendingCount' \in 0..MaxPending
      <4>1. Cardinality(pending') \in Nat
        BY <2>3, FS_CardinalityType
      <4>2. CASE c \in pending
        <5>1. pendingCount' = Cardinality(pending') /\ pendingCount' = pendingCount - 1
          BY <4>2, <2>0, <2>3 DEF CountExact
        <5> QED BY <5>1, <4>1, LimitAssumption DEF TypeOK
      <4>3. CASE c \notin pending
        BY <4>3, <2>0 DEF TypeOK
      <4> QED BY <4>2, <4>3
    <3>3. c.actor \in Actor
      BY <2>1 DEF Change
    <3> QED BY <2>0, <2>2, <3>2, <3>3, <3>4 DEF TypeOK
  <2>5. CountExact'
    BY <2>0, <2>3, LimitAssumption DEF CountExact, TypeOK
  <2> QED BY <2>0, <2>2, <2>3, <2>4, <2>5 DEF Prefixes
<1>3. ASSUME NEW c \in Offer, Drain(c) PROVE Inv'
  <2>0. /\ draining # NoActor /\ c \in pending /\ c.actor = draining
        /\ c.counter = frontier[c.actor] + 1 /\ Install(c)
        /\ pending' = pending \ {c}
        /\ pendingCount' = pendingCount - 1 /\ pendingSize' = pendingSize - Size(c.payload)
        /\ UNCHANGED <<draining, durable>>
    BY <1>3 DEF Drain, NextBuffered
  <2>1. c \in Change
    BY OfferAssumption
  <2>2. ~Conflicts(c)
    BY <2>0 DEF Conflicts, PendingBeyondFrontier
  <2>3. /\ applied' \in [Actor -> Seq(Payload)]
        /\ frontier' \in [Actor -> Nat]
        /\ frontier' = Lengths(applied')
        /\ Prefixes(applied')
        /\ frontier'[c.actor] = c.counter
        /\ \A a \in Actor : a # c.actor => frontier'[a] = frontier[a]
    BY <2>0, InstallExtends
  <2>4. /\ PendingBeyondFrontier'
        /\ IsFiniteSet(pending')
        /\ Cardinality(pending') = Cardinality(pending) - 1
    BY <2>0, <2>2, <2>3, RemoveInstalled
  <2>5. TypeOK'
    <3>1. Cardinality(pending') \in Nat
      BY <2>4, FS_CardinalityType
    <3>2. pendingCount' = Cardinality(pending') /\ pendingCount' = pendingCount - 1
      BY <2>0, <2>4 DEF CountExact
    <3>3. pendingCount' \in 0..MaxPending
      BY <3>1, <3>2, LimitAssumption DEF TypeOK
    <3> QED BY <2>0, <2>1, <2>3, <3>3, SizeAssumption DEF TypeOK, Change
  <2>6. CountExact'
    BY <2>0, <2>4, LimitAssumption DEF CountExact, TypeOK
  <2> QED BY <2>0, <2>3, <2>4, <2>5, <2>6 DEF Prefixes
<1>4. CASE DrainDone \/ DrainFails
  BY <1>4 DEF DrainDone, DrainFails, TypeOK, Lengths, Prefixes, PendingBeyondFrontier,
              CountExact
<1>5. CASE Save
  BY <1>5 DEF Save, TypeOK, Lengths, Prefixes, PendingBeyondFrontier, CountExact
<1>6. CASE Restart
  <2>1. Cardinality({}) = 0 /\ IsFiniteSet({})
    BY FS_EmptySet
  <2>2. /\ applied' = durable /\ frontier' = Lengths(durable) /\ pending' = {}
        /\ pendingCount' = 0 /\ pendingSize' = 0 /\ draining' = NoActor /\ durable' = durable
    BY <1>6 DEF Restart
  <2>3. TypeOK'
    BY <2>2, LimitAssumption DEF TypeOK, Lengths
  <2> QED BY <2>1, <2>2, <2>3, LimitAssumption DEF Prefixes, PendingBeyondFrontier, CountExact
<1>7. CASE UNCHANGED vars
  BY <1>7 DEF vars, TypeOK, Lengths, Prefixes, PendingBeyondFrontier, CountExact
<1> QED BY <1>1, <1>2, <1>3, <1>4, <1>5, <1>6, <1>7 DEF Next

\* The invariant holds in every reachable state.
LEMMA InboxInv == Spec => []Inv
  BY InitInv, NextInv, PTL DEF Spec

\* Every field of the inbox keeps its type, and the buffer its limit.
THEOREM InboxTypeOK == Spec => []TypeOK
  BY InboxInv, PTL DEF Inv

\* The frontier of an inbox counts exactly the contiguous prefix it installed.
THEOREM InboxFrontierContiguous == Spec => []FrontierContiguous
<1>1. Inv => FrontierContiguous
  BY DEF Inv, FrontierContiguous, Prefixes, Lengths
<1> QED BY <1>1, InboxInv, PTL

\* The buffer holds one payload per dot, all of them beyond the frontier.
THEOREM InboxPendingBeyondFrontier == Spec => []PendingBeyondFrontier
<1>1. Inv => PendingBeyondFrontier
  BY DEF Inv
<1> QED BY <1>1, InboxInv, PTL

\* pendingCount is exact and bounded by maxPending.
THEOREM InboxCountExact == Spec => []CountExact
<1>1. Inv => CountExact
  BY DEF Inv
<1> QED BY <1>1, InboxInv, PTL

\* Nothing accepted into the buffer is lost or replaced before it is installed.
THEOREM InboxBufferedNotLost == Spec => BufferedNotLost
<1> DEFINE Kept == \A c \in pending : \/ c \in pending'
                                      \/ /\ frontier'[c.actor] = c.counter
                                         /\ applied'[c.actor][c.counter] = c.payload
                                      \/ Restart
<1>1. Inv /\ [Next]_vars => [Kept]_vars
  <2> SUFFICES ASSUME Inv, Next PROVE Kept
    OBVIOUS
  <2> USE DEF Inv
  <2>1. ASSUME NEW c \in Offer, InstallNext(c) \/ Drain(c) PROVE Kept
    <3>1. c.counter = frontier[c.actor] + 1 /\ Install(c) /\ pending' = pending \ {c}
      BY <2>1 DEF InstallNext, Drain, NextBuffered
    <3>2. frontier'[c.actor] = c.counter /\ applied'[c.actor][c.counter] = c.payload
      BY <3>1, InstallExtends
    <3> QED BY <3>1, <3>2
  <2>2. ASSUME NEW c \in Offer, Buffer(c) PROVE Kept
    BY <2>2 DEF Buffer
  <2>3. CASE DrainDone \/ DrainFails \/ Save
    BY <2>3 DEF DrainDone, DrainFails, Save
  <2>4. CASE Restart
    BY <2>4
  <2> QED BY <2>1, <2>2, <2>3, <2>4 DEF Next
<1> QED BY <1>1, InboxInv, PTL DEF Spec, BufferedNotLost

\* The inbox implements in-order delivery.
THEOREM InboxRefinesInOrderDelivery == Spec => RefinesInOrderDelivery
<1>1. Init => Abstract!Init
  BY DEF Init, Abstract!Init, Empty
<1>2. Inv /\ [Next]_vars => [Abstract!Next]_(Abstract!vars)
  <2> SUFFICES ASSUME Inv, [Next]_vars PROVE Abstract!Next \/ UNCHANGED Abstract!vars
    OBVIOUS
  <2> USE DEF Inv
  <2>1. ASSUME NEW c \in Offer, InstallNext(c) \/ Drain(c) PROVE Abstract!Next
    <3>1. c.counter = frontier[c.actor] + 1 /\ Install(c) /\ UNCHANGED durable
      BY <2>1 DEF InstallNext, Drain, NextBuffered
    <3>2. c.actor \in Actor
      BY OfferAssumption DEF Change
    <3>3. c.counter = Len(applied[c.actor]) + 1
      BY <3>1, <3>2 DEF Lengths
    <3>4. Abstract!Deliver(c)
      BY <3>1, <3>3 DEF Abstract!Deliver, Install
    <3> QED BY <3>4 DEF Abstract!Next
  <2>2. ASSUME NEW c \in Offer, Buffer(c) PROVE UNCHANGED Abstract!vars
    BY <2>2 DEF Buffer, Abstract!vars
  <2>3. CASE DrainDone \/ DrainFails
    BY <2>3 DEF DrainDone, DrainFails, Abstract!vars
  <2>4. CASE Save
    BY <2>4 DEF Save, Abstract!Next, Abstract!SaveLog
  <2>5. CASE Restart
    BY <2>5 DEF Restart, Abstract!Next, Abstract!Recover
  <2>6. CASE UNCHANGED vars
    BY <2>6 DEF vars, Abstract!vars
  <2> QED BY <2>1, <2>2, <2>3, <2>4, <2>5, <2>6 DEF Next
<1> QED BY <1>1, <1>2, InboxInv, PTL DEF Spec, RefinesInOrderDelivery, Abstract!Spec
=============================================================================

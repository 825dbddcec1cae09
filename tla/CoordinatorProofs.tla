-------------------------- MODULE CoordinatorProofs -------------------------
(***************************************************************************)
(* The collection rule of tombstonegc.Coordinator for any finite set of    *)
(* members, any tags, any number of concurrent callers and any epoch       *)
(* width.  The decision is taken on a counter, so the inductive invariant  *)
(* ties the counter of a tag to the set of acknowledging members, that set *)
(* to what the members reported, and every decision still in flight to     *)
(* the reports of the membership it was taken under.                       *)
(*                                                                         *)
(* The second part carries the result to the composition with the          *)
(* membership manager and the receipt bridge: every step of it is one of   *)
(* the coordinator's or leaves the coordinator alone, and every report the *)
(* coordinator took under the current epoch is a signed receipt bound to   *)
(* the installed view.                                                     *)
(***************************************************************************)
EXTENDS GCBridge, FiniteSetTheorems, TLAPS

Ackers(t) == {m \in members : t \in acks[m]}

\* What is retained was reported.
AcksReported == \A m \in Member : acks[m] \subseteq reported[m]

\* A call that decided but did not compact yet decided under this membership.
DecisionsSound ==
    \A p \in Caller : call[p].step = "compact" =>
        \A t \in call[p].stable : \A m \in members : t \in reported[m]

Inv == TypeOK /\ CountsExact /\ AcksReported /\ DecisionsSound

\* Every set of members is finite.
LEMMA MembersFinite ==
    ASSUME NEW S, S \subseteq Member
    PROVE  IsFiniteSet(S) /\ Cardinality(S) \in Nat
  BY MemberAssumption, FS_Subset, FS_CardinalityType

\* With an empty table every counter is zero.
LEMMA EmptyTable ==
    ASSUME NEW ms \in SUBSET Member
    PROVE  \A t \in Tag : NoCounts[t] = Cardinality({m \in ms : t \in NoAcks[m]})
<1> SUFFICES ASSUME NEW t \in Tag
             PROVE  NoCounts[t] = Cardinality({m \in ms : t \in NoAcks[m]})
  OBVIOUS
<1>1. {m \in ms : t \in NoAcks[m]} = {}
  BY DEF NoAcks
<1> QED BY <1>1, FS_EmptySet DEF NoCounts

\* Recording an accepted report keeps the counters exact.
LEMMA RecordExact ==
    ASSUME Inv, NEW r \in Report, Accepted(r), Record(r), Heard(r), members' = members
    PROVE  /\ acks' \in [Member -> SUBSET Tag]
           /\ counts' \in [Tag -> Int]
           /\ reported' \in [Member -> SUBSET Tag]
           /\ CountsExact'
           /\ AcksReported'
           /\ \A m \in Member : reported[m] \subseteq reported'[m]
<1> DEFINE fresh == r.tags \ acks[r.member]
<1>1. r.member \in Member /\ r.tags \subseteq Tag /\ r.epoch = epoch /\ r.member \in members
  BY DEF Report, Accepted
<1>2. /\ acks' = [acks EXCEPT ![r.member] = acks[r.member] \cup fresh]
      /\ counts' = [t \in Tag |-> counts[t] + (IF t \in fresh THEN 1 ELSE 0)]
      /\ reported' = [reported EXCEPT ![r.member] = reported[r.member] \cup r.tags]
  BY <1>1 DEF Record, Heard
<1>3. acks' \in [Member -> SUBSET Tag] /\ reported' \in [Member -> SUBSET Tag]
  BY <1>1, <1>2 DEF Inv, TypeOK
<1>4. counts' \in [Tag -> Int]
  BY <1>2 DEF Inv, TypeOK
<1>6. AcksReported' /\ \A m \in Member : reported[m] \subseteq reported'[m]
  BY <1>1, <1>2 DEF Inv, TypeOK, AcksReported
<1>7. ASSUME NEW t \in Tag
      PROVE  counts'[t] = Cardinality({m \in members' : t \in acks'[m]})
  <2> DEFINE after == {m \in members' : t \in acks'[m]}
  <2>0. Ackers(t) \subseteq Member
    BY DEF Inv, TypeOK, Ackers
  <2>1. IsFiniteSet(Ackers(t)) /\ Cardinality(Ackers(t)) \in Nat /\ Cardinality(Ackers(t)) = counts[t]
    BY <2>0, MembersFinite DEF Inv, CountsExact, Ackers
  <2>2. CASE t \in fresh
    <3>1. r.member \notin Ackers(t)
      BY <2>2 DEF Ackers
    <3>2. after = Ackers(t) \cup {r.member}
      BY <1>1, <1>2, <2>2 DEF Ackers, Inv, TypeOK
    <3>3. Cardinality(Ackers(t) \cup {r.member}) = Cardinality(Ackers(t)) + 1
      BY <2>1, <3>1, FS_AddElement
    <3>4. counts'[t] = counts[t] + 1
      BY <1>2, <2>2
    <3> QED BY <2>1, <3>2, <3>3, <3>4
  <2>3. CASE t \notin fresh
    <3>1. after = Ackers(t)
      BY <1>1, <1>2, <2>3 DEF Ackers, Inv, TypeOK
    <3>2. counts'[t] = counts[t]
      BY <1>2, <2>3 DEF Inv, TypeOK
    <3> QED BY <2>1, <3>1, <3>2
  <2> QED BY <2>2, <2>3
<1>8. \A m \in Member \ members' : acks'[m] = {}
  BY <1>1, <1>2 DEF Inv, TypeOK, CountsExact
<1> QED BY <1>3, <1>4, <1>6, <1>7, <1>8 DEF CountsExact

\* A decision taken on exact counters is backed by the reports of all members.
LEMMA DecideSound ==
    ASSUME members' \in SUBSET Member, CountsExact', AcksReported',
           NEW t \in Tag, counts'[t] = Cardinality(members')
    PROVE  \A m \in members' : t \in reported'[m]
<1>1. IsFiniteSet(members')
  BY MembersFinite
<1>2. {m \in members' : t \in acks'[m]} = members'
  BY <1>1, FS_Subset DEF CountsExact
<1> QED BY <1>2 DEF AcksReported

\* Installing a membership view empties the table.
LEMMA FenceExact ==
    ASSUME Inv, NEW e \in Epochs, NEW ms \in (SUBSET Member) \ {{}}, NoReader, Fence(e, ms),
           UNCHANGED <<target, call>>
    PROVE  Inv'
<1>1. epoch' = e /\ members' = ms /\ acks' = NoAcks /\ counts' = NoCounts /\ reported' = NoAcks
  BY DEF Fence
<1>2. TypeOK'
  BY <1>1 DEF Inv, TypeOK, NoAcks, NoCounts
<1>3. CountsExact'
  BY <1>1, EmptyTable DEF CountsExact, NoAcks
<1>4. AcksReported'
  BY <1>1 DEF AcksReported, NoAcks
<1>5. DecisionsSound'
  BY DEF NoReader, Idle, DecisionsSound
<1> QED BY <1>2, <1>3, <1>4, <1>5 DEF Inv

\* A new coordinator satisfies the invariant.
LEMMA InitInv == Init => Inv
<1> SUFFICES ASSUME Init PROVE Inv
  OBVIOUS
<1>1. TypeOK
  BY MaxEpochAssumption DEF Init, TypeOK, NoAcks, NoCounts, Idle, Calls, Epochs
<1>2. CountsExact
  BY EmptyTable DEF Init, CountsExact, NoAcks
<1>3. AcksReported /\ DecisionsSound
  BY DEF Init, AcksReported, DecisionsSound, NoAcks, Idle
<1> QED BY <1>1, <1>2, <1>3 DEF Inv

\* Dropping the same tags from every member's table keeps the counters exact.
LEMMA PruneExact ==
    ASSUME Inv, NEW tags \in SUBSET Tag, members' = members,
           acks' = [m \in Member |-> acks[m] \ tags],
           counts' = [t \in Tag |-> IF t \in tags THEN 0 ELSE counts[t]]
    PROVE  CountsExact' /\ \A m \in Member : acks'[m] \subseteq acks[m]
<1>1. ASSUME NEW t \in Tag
      PROVE  counts'[t] = Cardinality({m \in members' : t \in acks'[m]})
  <2>1. CASE t \in tags
    <3>1. {m \in members' : t \in acks'[m]} = {}
      BY <2>1 DEF Inv, TypeOK
    <3> QED BY <2>1, <3>1, FS_EmptySet
  <2>2. CASE t \notin tags
    <3>1. {m \in members' : t \in acks'[m]} = {m \in members : t \in acks[m]}
      BY <2>2 DEF Inv, TypeOK
    <3> QED BY <2>2, <3>1 DEF Inv, CountsExact
  <2> QED BY <2>1, <2>2
<1>2. \A m \in Member \ members' : acks'[m] = {}
  BY DEF Inv, TypeOK, CountsExact
<1> QED BY <1>1, <1>2 DEF CountsExact

\* Every operation preserves the invariant.
LEMMA NextInv == Inv /\ [Next]_vars => Inv'
<1> SUFFICES ASSUME Inv, [Next]_vars PROVE Inv'
  OBVIOUS
<1>0. TypeOK /\ CountsExact /\ AcksReported /\ DecisionsSound
  BY DEF Inv
<1>1. ASSUME NEW r \in Report, Acknowledge(r) PROVE Inv'
  <2>1. UNCHANGED <<epoch, members, target, call>> /\ Accepted(r) /\ Record(r) /\ Heard(r)
    BY <1>1 DEF Acknowledge
  <2>2. /\ acks' \in [Member -> SUBSET Tag]
        /\ counts' \in [Tag -> Int]
        /\ reported' \in [Member -> SUBSET Tag]
        /\ CountsExact' /\ AcksReported'
        /\ \A m \in Member : reported[m] \subseteq reported'[m]
    BY <2>1, RecordExact
  <2>3. DecisionsSound'
    BY <1>0, <2>1, <2>2 DEF DecisionsSound, TypeOK
  <2>4. TypeOK'
    BY <1>0, <2>1, <2>2 DEF TypeOK
  <2> QED BY <2>2, <2>3, <2>4 DEF Inv
<1>2. ASSUME NEW p \in Caller, NEW r \in Report, ReadCandidates(p, r) PROVE Inv'
  <2>1. /\ call' = [call EXCEPT ![p] = [step |-> "read", report |-> r, candidates |-> target]]
        /\ UNCHANGED <<epoch, members, acks, counts, entries, target, reported>>
    BY <1>2 DEF ReadCandidates
  <2>2. [step |-> "read", report |-> r, candidates |-> target] \in Calls
    BY <1>0 DEF Calls, TypeOK
  <2>3. TypeOK'
    BY <1>0, <2>1, <2>2 DEF TypeOK
  <2>4. DecisionsSound'
    BY <1>0, <2>1 DEF DecisionsSound, TypeOK
  <2> QED BY <1>0, <2>1, <2>3, <2>4 DEF Inv, CountsExact, AcksReported
<1>3. ASSUME NEW p \in Caller, Decide(p) PROVE Inv'
  <2>1. call[p].step = "read" /\ UNCHANGED <<epoch, members, target>>
    BY <1>3 DEF Decide
  <2>2. call[p].report \in Report /\ call[p].candidates \in SUBSET Tag
    BY <1>0, <2>1 DEF TypeOK, Calls
  <2>3. CASE /\ ~Accepted(call[p].report) /\ call' = [call EXCEPT ![p] = Idle]
             /\ UNCHANGED <<acks, counts, entries, reported>>
    <3>1. TypeOK' /\ DecisionsSound'
      BY <1>0, <2>1, <2>3 DEF TypeOK, DecisionsSound, Idle, Calls
    <3> QED BY <1>0, <2>1, <2>3, <3>1 DEF Inv, CountsExact, AcksReported
  <2>4. CASE /\ Accepted(call[p].report) /\ Record(call[p].report) /\ Heard(call[p].report)
             /\ call' = [call EXCEPT ![p] =
                          [step |-> "compact", stable |-> Stable(call[p].candidates, counts')]]
    <3>1. /\ acks' \in [Member -> SUBSET Tag]
          /\ counts' \in [Tag -> Int]
          /\ reported' \in [Member -> SUBSET Tag]
          /\ CountsExact' /\ AcksReported'
          /\ \A m \in Member : reported[m] \subseteq reported'[m]
      BY <2>1, <2>2, <2>4, RecordExact
    <3> DEFINE S == {t \in call[p].candidates : counts'[t] = Cardinality(members)}
    <3>2. call' = [call EXCEPT ![p] = [step |-> "compact", stable |-> S]]
      BY <2>4 DEF Stable
    <3>3. \A t \in S : \A m \in members : t \in reported'[m]
      <4>1. members' \in SUBSET Member
        BY <1>0, <2>1 DEF TypeOK
      <4> SUFFICES ASSUME NEW t \in S PROVE \A m \in members : t \in reported'[m]
        OBVIOUS
      <4>2. t \in Tag /\ counts'[t] = Cardinality(members') /\ members' = members
        BY <2>1, <2>2
      <4> QED BY <3>1, <4>1, <4>2, DecideSound
    <3>4. S \subseteq Tag
      BY <2>2
    <3> HIDE DEF S
    <3>5. TypeOK'
      BY <1>0, <2>1, <3>1, <3>2, <3>4 DEF TypeOK, Calls
    <3>6. DecisionsSound'
      BY <1>0, <2>1, <3>1, <3>2, <3>3 DEF DecisionsSound, TypeOK
    <3> QED BY <3>1, <3>5, <3>6 DEF Inv
  <2> QED BY <1>3, <2>3, <2>4 DEF Decide
<1>4. ASSUME NEW p \in Caller, CompactTarget(p) PROVE Inv'
  <2>1. /\ target' \subseteq target /\ call' = [call EXCEPT ![p] = Idle]
        /\ UNCHANGED <<epoch, members, acks, counts, entries, reported>>
    BY <1>4 DEF CompactTarget
  <2>2. TypeOK' /\ DecisionsSound'
    BY <1>0, <2>1 DEF TypeOK, DecisionsSound, Idle, Calls
  <2> QED BY <1>0, <2>1, <2>2 DEF Inv, CountsExact, AcksReported
<1>5. ASSUME NEW t \in Tag, Delete(t) PROVE Inv'
  BY <1>0, <1>5 DEF Delete, Inv, TypeOK, DecisionsSound, CountsExact, AcksReported
<1>6. ASSUME NEW tags \in SUBSET Tag, Prune(epoch, tags) PROVE Inv'
  <2>1. UNCHANGED <<epoch, members, target, call, reported>>
    BY <1>6 DEF Prune
  <2>2. CASE acks' = NoAcks /\ counts' = NoCounts
    <3>1. TypeOK'
      BY <1>0, <2>1, <2>2 DEF TypeOK, NoAcks, NoCounts
    <3>2. CountsExact'
      <4>1. members' \in SUBSET Member
        BY <1>0, <2>1 DEF TypeOK
      <4> QED BY <2>2, <4>1, EmptyTable DEF CountsExact, NoAcks
    <3> QED BY <1>0, <2>1, <2>2, <3>1, <3>2 DEF Inv, AcksReported, DecisionsSound, NoAcks
  <2>3. CASE /\ acks' = [m \in Member |-> acks[m] \ tags]
             /\ counts' = [t \in Tag |-> IF t \in tags THEN 0 ELSE counts[t]]
    <3>1. CountsExact' /\ \A m \in Member : acks'[m] \subseteq acks[m]
      BY <2>1, <2>3, PruneExact
    <3>2. TypeOK'
      BY <1>0, <2>1, <2>3 DEF TypeOK
    <3>3. AcksReported'
      BY <1>0, <2>1, <3>1 DEF AcksReported
    <3> QED BY <1>0, <2>1, <3>1, <3>2, <3>3 DEF Inv, DecisionsSound
  <2> QED BY <1>6, <2>2, <2>3 DEF Prune
<1>7. ASSUME NEW ms \in (SUBSET Member) \ {{}}, ReplaceMembership(ms) PROVE Inv'
  <2>1. epoch + 1 \in Epochs
    BY <1>0, <1>7, MaxEpochAssumption DEF ReplaceMembership, TypeOK, Epochs
  <2> QED BY <1>7, <2>1, FenceExact DEF ReplaceMembership
<1>8. ASSUME NEW ms \in (SUBSET Member) \ {{}}, NEW e \in Epochs, InstallMembership(e, ms)
      PROVE  Inv'
  BY <1>8, FenceExact DEF InstallMembership
<1>9. ASSUME NEW ms \in (SUBSET Member) \ {{}}, NEW e \in Epochs, Restart(e, ms) PROVE Inv'
  <2>1. /\ epoch' = e /\ members' = ms /\ target' = target
        /\ acks' = NoAcks /\ counts' = NoCounts /\ call' = [p \in Caller |-> Idle]
        /\ reported' = IF e = epoch THEN reported ELSE NoAcks
    BY <1>9 DEF Restart, NewCoordinatorAtMembership
  <2>2. TypeOK'
    BY <1>0, <2>1 DEF TypeOK, NoAcks, NoCounts, Idle, Calls
  <2>3. CountsExact'
    BY <2>1, EmptyTable DEF CountsExact, NoAcks
  <2> QED BY <2>1, <2>2, <2>3 DEF Inv, AcksReported, DecisionsSound, NoAcks, Idle
<1>10. CASE UNCHANGED vars
  BY <1>0, <1>10 DEF vars, Inv, TypeOK, CountsExact, AcksReported, DecisionsSound
<1> QED
  BY <1>1, <1>2, <1>3, <1>4, <1>5, <1>6, <1>7, <1>8, <1>9, <1>10 DEF Next

\* The invariant holds in every reachable state.
LEMMA CoordinatorInv == Spec => []Inv
  BY InitInv, NextInv, PTL DEF Spec

\* Every field of the coordinator keeps its type; the epoch never wraps.
THEOREM CoordinatorTypeOK == Spec => []TypeOK
  BY CoordinatorInv, PTL DEF Inv

\* The counters the decision is taken on count exactly the acknowledging
\* members, for any finite membership.
THEOREM CoordinatorCountsExact == Spec => []CountsExact
<1>1. Inv => CountsExact
  BY DEF Inv
<1> QED BY <1>1, CoordinatorInv, PTL

\* What a step removes from the target, every member has reported.
LEMMA RemovalReported ==
    ASSUME Inv, [Next]_vars
    PROVE  \A t \in target \ target' : \A m \in members : t \in reported[m]
<1> DEFINE Sound == \A t \in target \ target' : \A m \in members : t \in reported[m]
<1>1. ASSUME NEW p \in Caller, CompactTarget(p) PROVE Sound
  BY <1>1 DEF CompactTarget, Inv, DecisionsSound
<1>2. ASSUME NEW t \in Tag, Delete(t) PROVE Sound
  BY <1>2 DEF Delete
<1>3. CASE target' = target
  BY <1>3
<1> QED
  BY <1>1, <1>2, <1>3 DEF vars, Next, Acknowledge, ReadCandidates, Decide, Prune,
                          ReplaceMembership, InstallMembership, Restart,
                          NewCoordinatorAtMembership

\* No tombstone leaves the target before every member of the current epoch
\* reported it for that epoch.
THEOREM CoordinatorCompactOnlyAcknowledged == Spec => CompactOnlyAcknowledged
<1>1. Inv /\ [Next]_vars =>
        [\A t \in target \ target' : \A m \in members : t \in reported[m]]_vars
  BY RemovalReported
<1> QED BY <1>1, CoordinatorInv, PTL DEF Spec, CompactOnlyAcknowledged

----------------------------------------------------------------------------
SignedView == [epoch : Epochs, prev : Nat, inc : [Member -> Int]]

\* Signed views have an epoch within the width and at least one member.
ViewsOK ==
    /\ views \in Seq(SignedView)
    /\ \A v \in DOMAIN views : Active(v) # {}

\* The installed view, the stored view and the one being installed: the store
\* holds the installed view or a direct successor of it.
ChainOK ==
    /\ view \in DOMAIN views /\ stored \in DOMAIN views
    /\ epoch = views[view].epoch /\ members = Active(view)
    /\ stored # view => views[stored].prev = view /\ views[stored].epoch = epoch + 1
    /\ installing # 0 => stored = installing /\ stored # view

\* A receipt carries the incarnation its view gives the member; the one being
\* applied was bound to the installed view or to one of an earlier epoch.
ReceiptsOK ==
    /\ \A r \in signed : /\ r.view \in DOMAIN views /\ r.member \in Member
                         /\ r.tags \subseteq Tag /\ r.inc = views[r.view].inc[r.member]
    /\ applying \subseteq signed
    /\ \A r \in applying : r.view = view \/ views[r.view].epoch < epoch

\* A report the coordinator is working on is the receipt being applied.
CallOK ==
    call[Bridge].step = "read" =>
        \E r \in applying : call[Bridge].report = [member |-> r.member,
                                epoch |-> views[r.view].epoch, tags |-> r.tags]

\* What a member reported under this epoch it signed for the installed view.
ReportsSigned ==
    \A m \in Member : \A t \in reported[m] :
        \E r \in signed : r.member = m /\ r.view = view /\ t \in r.tags

BridgeOK == ViewsOK /\ ChainOK /\ ReceiptsOK /\ CallOK /\ ReportsSigned

BridgeInv == Inv /\ BridgeOK

\* A new manager and a new bridge satisfy the invariant.
LEMMA BridgeInitInv == BridgeInit => BridgeInv
<1> SUFFICES ASSUME BridgeInit PROVE BridgeInv
  OBVIOUS
<1> DEFINE first == [epoch |-> 1, prev |-> 0,
                     inc |-> [m \in Member |-> IF m \in members THEN 1 ELSE 0]]
<1>1. Init /\ Inv
  BY InitInv DEF BridgeInit
<1>2. views = <<first>> /\ view = 1 /\ stored = 1 /\ installing = 0 /\ signed = {} /\ applying = {}
  BY DEF BridgeInit
<1>3. first \in SignedView
  BY MaxEpochAssumption DEF Epochs, SignedView
<1>4. members \in (SUBSET Member) \ {{}} /\ epoch = 1
  BY <1>1 DEF Init
<1>5. DOMAIN views = {1} /\ views[1] = first
  BY <1>2
<1>6. Active(1) = members
  BY <1>4, <1>5 DEF Active
<1>7. ViewsOK
  BY <1>2, <1>3, <1>4, <1>5, <1>6 DEF ViewsOK
<1>8. ChainOK
  BY <1>2, <1>4, <1>5, <1>6 DEF ChainOK
<1>9. ReceiptsOK /\ CallOK /\ ReportsSigned
  BY <1>1, <1>2, BridgeAssumption DEF ReceiptsOK, CallOK, ReportsSigned, Init, Idle, NoAcks
<1> QED BY <1>1, <1>7, <1>8, <1>9 DEF BridgeInv, BridgeOK

\* The fence the manager installs, or restarts at, is one the coordinator takes.
LEMMA ViewFence ==
    ASSUME ViewsOK, NEW v \in DOMAIN views
    PROVE  views[v].epoch \in Epochs /\ Active(v) \in (SUBSET Member) \ {{}}
<1>1. views[v] \in SignedView /\ Active(v) # {}
  BY DEF ViewsOK
<1>2. Active(v) \subseteq Member
  BY DEF Active
<1> QED BY <1>1, <1>2 DEF SignedView

\* Every step of the composition is one of the coordinator's, or leaves the
\* coordinator alone.
LEMMA BridgeStep == BridgeInv /\ [BridgeNext]_bridgeVars => [Next]_vars
<1> SUFFICES ASSUME BridgeInv, [BridgeNext]_bridgeVars PROVE [Next]_vars
  OBVIOUS
<1>0. ViewsOK /\ ChainOK /\ ReceiptsOK
  BY DEF BridgeInv, BridgeOK
<1>1. ASSUME NEW v \in DOMAIN views,
             Issue(v) \/ InstallSave(v) \/ InstallSaveAmbiguous(v)
               \/ \E m \in Member, tags \in (SUBSET Tag) \ {{}} : SignReceipt(m, v, tags)
      PROVE  UNCHANGED vars
  BY <1>1 DEF Issue, InstallSave, InstallSaveAmbiguous, SignReceipt, coordinator
<1>2. ASSUME NEW v \in DOMAIN views, Reset(v),
             v = stored \/ views[v].epoch > views[stored].epoch
      PROVE  Next
  <2>1. /\ views[v].epoch \in Int /\ views[stored].epoch \in Int /\ epoch \in Int
    BY <1>0, ViewFence DEF ChainOK, Epochs
  <2>2. views[v].epoch > epoch \/ (views[v].epoch = epoch /\ Active(v) = members)
    BY <1>0, <1>2, <2>1 DEF ChainOK
  <2>3. Restart(views[v].epoch, Active(v))
    BY <1>2, <2>2 DEF Reset, Restart
  <2> QED BY <1>0, <2>3, ViewFence DEF Next
<1>3. CASE InstallFence
  <2>1. installing \in DOMAIN views
    BY <1>0, <1>3 DEF InstallFence, ChainOK
  <2> QED BY <1>0, <1>3, <2>1, ViewFence DEF InstallFence, Next
<1>4. ASSUME NEW r \in signed, ApplyCheck(r) PROVE UNCHANGED vars
  BY <1>4 DEF ApplyCheck, coordinator
<1>5. ASSUME NEW r \in signed, ApplyRead(r) PROVE Next
  <2> DEFINE report == [member |-> r.member, epoch |-> views[r.view].epoch, tags |-> r.tags]
  <2>1. r.view \in DOMAIN views /\ r.member \in Member /\ r.tags \subseteq Tag
    BY <1>0 DEF ReceiptsOK
  <2>2. report \in Report
    BY <1>0, <2>1, ViewFence DEF Report
  <2>3. ReadCandidates(Bridge, report)
    BY <1>5 DEF ApplyRead
  <2> QED BY <2>2, <2>3, BridgeAssumption DEF Next
<1>6. ASSUME NEW r \in signed, ApplyDecide(r) \/ ApplyCompact(r) PROVE Next
  BY <1>6, BridgeAssumption DEF ApplyDecide, ApplyCompact, Next
<1>7. CASE Locally
  BY <1>7 DEF Locally, Next
<1>8. CASE UNCHANGED bridgeVars
  BY <1>8 DEF bridgeVars, coordinator
<1>9. ASSUME NEW v \in DOMAIN views, NewManager(v) PROVE Next
  BY <1>2, <1>9 DEF NewManager, Authoritative
<1>10. CASE OpenManager
  BY <1>0, <1>2, <1>10 DEF OpenManager, ChainOK
<1> QED
  BY <1>1, <1>3, <1>4, <1>5, <1>6, <1>7, <1>8, <1>9, <1>10 DEF BridgeNext

\* A signed view changes nothing about the views signed before it.
LEMMA IssueKeeps ==
    ASSUME BridgeInv, NEW v \in DOMAIN views, Issue(v)
    PROVE  /\ ViewsOK'
           /\ DOMAIN views \subseteq DOMAIN views'
           /\ \A w \in DOMAIN views : views'[w] = views[w] /\ Active(w)' = Active(w)
<1>1. PICK inc \in [Member -> 0..MaxInc] :
        /\ \E m \in Member : inc[m] > 0
        /\ views' = Append(views, [epoch |-> views[v].epoch + 1, prev |-> v, inc |-> inc])
  BY DEF Issue
<1>2. ViewsOK /\ views \in Seq(SignedView) /\ v \in Nat /\ views[v].epoch < MaxEpoch
  BY DEF BridgeInv, BridgeOK, ViewsOK, Issue
<1>3. inc \in [Member -> Int]
  OBVIOUS
<1> DEFINE new == [epoch |-> views[v].epoch + 1, prev |-> v, inc |-> inc]
<1>4. new \in SignedView
  <2>1. views[v].epoch + 1 \in Epochs
    BY <1>2, ViewFence, MaxEpochAssumption DEF Epochs
  <2> QED BY <1>2, <1>3, <2>1 DEF SignedView
<1> HIDE DEF new
<1>5. PICK k \in Nat :
        /\ views' \in Seq(SignedView)
        /\ DOMAIN views' = DOMAIN views \cup {k}
        /\ \A w \in DOMAIN views : views'[w] = views[w]
        /\ views'[k] = new
  <2> WITNESS Len(views) + 1 \in Nat
  <2> QED BY <1>1, <1>2, <1>4 DEF new
<1>6. \A w \in DOMAIN views : Active(w)' = Active(w)
  BY <1>5 DEF Active
<1>7. Active(k)' # {}
  <2>1. PICK m \in Member : inc[m] > 0
    BY <1>1
  <2>2. m \in Active(k)'
    BY <1>5, <2>1 DEF Active, new
  <2> QED BY <2>2
<1>8. ViewsOK'
  BY <1>2, <1>5, <1>6, <1>7 DEF ViewsOK
<1> QED BY <1>5, <1>6, <1>8

\* The process starts again at the stored view or at a view of a later epoch.
LEMMA ResetInv ==
    ASSUME BridgeInv, NEW v \in DOMAIN views, Reset(v),
           v = stored \/ views[v].epoch > views[stored].epoch
    PROVE  BridgeOK'
<1>0. ViewsOK /\ ChainOK /\ ReceiptsOK /\ ReportsSigned
  BY DEF BridgeInv, BridgeOK
<1>1. /\ view' = v /\ stored' = v /\ installing' = 0 /\ applying' = {}
      /\ epoch' = views[v].epoch /\ members' = Active(v)
      /\ call' = [p \in Caller |-> Idle]
      /\ reported' = IF views[v].epoch = epoch THEN reported ELSE NoAcks
      /\ views' = views /\ signed' = signed
  BY DEF Reset, NewCoordinatorAtMembership
<1>2. \A w \in DOMAIN views : Active(w)' = Active(w)
  BY <1>1 DEF Active
<1>3. ViewsOK' /\ ChainOK'
  BY <1>0, <1>1, <1>2 DEF ViewsOK, ChainOK
<1>4. ReceiptsOK' /\ CallOK'
  BY <1>0, <1>1, BridgeAssumption DEF ReceiptsOK, CallOK, Idle
<1>5. ReportsSigned'
  <2>1. CASE v = view
    BY <1>0, <1>1, <2>1 DEF ReportsSigned, NoAcks
  <2>2. CASE v # view
    <3>1. /\ views[v].epoch \in Int /\ views[view].epoch \in Int /\ views[stored].epoch \in Int
      BY <1>0, ViewFence DEF ChainOK, Epochs
    <3>2. views[v].epoch # epoch
      BY <1>0, <2>2, <3>1 DEF ChainOK
    <3> QED BY <1>1, <3>2 DEF ReportsSigned, NoAcks
  <2> QED BY <2>1, <2>2
<1> QED BY <1>3, <1>4, <1>5 DEF BridgeOK

\* Recording the receipt being applied: it is accepted only if it is bound to
\* the installed view, because another view of the same epoch is never applied.
LEMMA ApplyDecideInv ==
    ASSUME BridgeInv, NEW r \in signed, ApplyDecide(r)
    PROVE  BridgeOK'
<1>0. ViewsOK /\ ChainOK /\ ReceiptsOK /\ CallOK /\ ReportsSigned /\ TypeOK
  BY DEF BridgeInv, BridgeOK, Inv
<1>1. /\ UNCHANGED <<view, stored, installing, views, signed, epoch, members>>
      /\ call[Bridge].step = "read"
      /\ applying' \subseteq applying
  BY DEF ApplyDecide, Decide, manager
<1>2. \A w \in DOMAIN views : Active(w)' = Active(w)
  BY <1>1 DEF Active
<1>3. ViewsOK' /\ ChainOK'
  BY <1>0, <1>1, <1>2 DEF ViewsOK, ChainOK
<1>4. ReceiptsOK'
  BY <1>0, <1>1 DEF ReceiptsOK
<1> DEFINE report == call[Bridge].report
<1>5. PICK s \in applying : report = [member |-> s.member, epoch |-> views[s.view].epoch,
                                      tags |-> s.tags]
  BY <1>0, <1>1 DEF CallOK
<1>6. s \in signed /\ s.member \in Member /\ s.tags \subseteq Tag /\ s.view \in DOMAIN views
  BY <1>0, <1>5 DEF ReceiptsOK
<1>7. CASE call' = [call EXCEPT ![Bridge] = Idle] /\ reported' = reported
  <2>1. CallOK'
    BY <1>0, <1>7, BridgeAssumption DEF CallOK, Idle, TypeOK
  <2>2. ReportsSigned'
    BY <1>0, <1>1, <1>7 DEF ReportsSigned
  <2> QED BY <1>3, <1>4, <2>1, <2>2 DEF BridgeOK
<1>8. CASE /\ Accepted(report) /\ Heard(report)
           /\ call' = [call EXCEPT ![Bridge] = [step |-> "compact",
                         stable |-> Stable(call[Bridge].candidates, counts')]]
  <2>1. CallOK'
    BY <1>0, <1>8, BridgeAssumption DEF CallOK, TypeOK
  <2>2. views[s.view].epoch = epoch
    BY <1>5, <1>8 DEF Accepted
  <2>3. s.view = view
    <3>1. epoch \in Int
      BY <1>0 DEF TypeOK, Epochs
    <3> QED BY <1>0, <1>5, <2>2, <3>1 DEF ReceiptsOK
  <2>4. reported' = [reported EXCEPT ![s.member] = reported[s.member] \cup s.tags]
    BY <1>5, <1>8 DEF Accepted, Heard
  <2>5. ReportsSigned'
    <3> SUFFICES ASSUME NEW m \in Member, NEW t \in reported'[m]
                 PROVE  \E q \in signed : q.member = m /\ q.view = view /\ t \in q.tags
      BY <1>1 DEF ReportsSigned
    <3>1. CASE t \in reported[m]
      BY <1>0, <3>1 DEF ReportsSigned
    <3>2. CASE m = s.member /\ t \in s.tags
      BY <1>6, <2>3, <3>2
    <3> QED BY <1>0, <1>6, <2>4, <3>1, <3>2 DEF TypeOK
  <2> QED BY <1>3, <1>4, <2>1, <2>5 DEF BridgeOK
<1> QED BY <1>7, <1>8 DEF ApplyDecide, Decide

\* Every step of the composition preserves the invariant.
LEMMA BridgeNextInv == BridgeInv /\ [BridgeNext]_bridgeVars => BridgeInv'
<1> SUFFICES ASSUME BridgeInv, [BridgeNext]_bridgeVars PROVE BridgeInv'
  OBVIOUS
<1>0. ViewsOK /\ ChainOK /\ ReceiptsOK /\ CallOK /\ ReportsSigned /\ TypeOK
  BY DEF BridgeInv, BridgeOK, Inv
<1>1. Inv'
  BY BridgeStep, NextInv DEF BridgeInv, BridgeOK
<1>2. ASSUME views' = views PROVE ViewsOK' /\ \A w \in DOMAIN views : Active(w)' = Active(w)
  BY <1>0, <1>2 DEF ViewsOK, Active
<1>3. ASSUME NEW v \in DOMAIN views, Issue(v) PROVE BridgeOK'
  <2>1. UNCHANGED <<epoch, members, call, reported, view, stored, installing, applying, signed>>
    BY <1>3 DEF Issue, coordinator, vars, manager, bridge
  <2>2. /\ ViewsOK' /\ DOMAIN views \subseteq DOMAIN views'
        /\ \A w \in DOMAIN views : views'[w] = views[w] /\ Active(w)' = Active(w)
    BY <1>3, IssueKeeps
  <2>3. ChainOK'
    BY <1>0, <2>1, <2>2 DEF ChainOK
  <2>4. ReceiptsOK'
    BY <1>0, <2>1, <2>2 DEF ReceiptsOK
  <2>5. CallOK' /\ ReportsSigned'
    BY <1>0, <2>1, <2>2 DEF CallOK, ReportsSigned, ReceiptsOK
  <2> QED BY <2>2, <2>3, <2>4, <2>5 DEF BridgeOK
<1>4. ASSUME NEW v \in DOMAIN views, InstallSave(v) \/ InstallSaveAmbiguous(v) PROVE BridgeOK'
  <2>1. /\ UNCHANGED <<epoch, members, call, reported, view, applying, signed, views>>
        /\ stored' = v /\ installing' \in {0, v} /\ Successor(v)
    BY <1>4 DEF InstallSave, InstallSaveAmbiguous, coordinator, vars, bridge
  <2>2. v # view
    <3>1. views[view].epoch \in Int
      BY <1>0, ViewFence DEF ChainOK, Epochs
    <3> QED BY <2>1, <3>1 DEF Successor
  <2>3. ChainOK'
    BY <1>0, <1>2, <2>1, <2>2 DEF ChainOK, Successor
  <2> QED BY <1>0, <1>2, <2>1, <2>3 DEF BridgeOK, ReceiptsOK, CallOK, ReportsSigned
<1>5. ASSUME NEW v \in DOMAIN views, NEW m \in Member, NEW tags \in (SUBSET Tag) \ {{}},
             SignReceipt(m, v, tags)
      PROVE  BridgeOK'
  <2>1. \E n : signed' = signed \cup {[view |-> v, member |-> m, inc |-> views[v].inc[m],
                                       seq |-> n, tags |-> tags]}
    BY <1>5 DEF SignReceipt
  <2>2. UNCHANGED <<epoch, members, call, reported, view, stored, installing, applying, views>>
    BY <1>5 DEF SignReceipt, coordinator, vars, manager, bridge
  <2>3. ReceiptsOK'
    BY <1>0, <2>1, <2>2 DEF ReceiptsOK
  <2> QED BY <1>0, <1>2, <2>1, <2>2, <2>3 DEF BridgeOK, ChainOK, CallOK, ReportsSigned
<1>6. ASSUME InstallFence PROVE BridgeOK'
  <2>1. /\ NoReader /\ UNCHANGED <<call, stored, applying, signed, views>>
        /\ view' = stored /\ installing' = 0 /\ stored # view /\ stored \in DOMAIN views
        /\ epoch' = views[stored].epoch /\ members' = Active(stored) /\ reported' = NoAcks
    BY <1>0, <1>6 DEF InstallFence, InstallMembership, Fence, bridge, ChainOK
  <2>2. ChainOK'
    BY <1>2, <2>1 DEF ChainOK
  <2>3. ReceiptsOK'
    <3>1. epoch \in Int /\ epoch' = epoch + 1 /\ epoch = views[view].epoch
      BY <1>0, <2>1 DEF ChainOK, TypeOK, Epochs
    <3>2. ASSUME NEW q \in applying PROVE views[q.view].epoch < epoch'
      <4>1. q.view \in DOMAIN views /\ (q.view = view \/ views[q.view].epoch < epoch)
        BY <1>0 DEF ReceiptsOK
      <4>2. views[q.view].epoch \in Int
        BY <1>0, <4>1, ViewFence DEF Epochs
      <4> QED BY <3>1, <4>1, <4>2
    <3> QED BY <1>0, <2>1, <3>2 DEF ReceiptsOK
  <2>4. CallOK' /\ ReportsSigned'
    BY <2>1, BridgeAssumption DEF CallOK, ReportsSigned, NoReader, Idle, NoAcks
  <2> QED BY <1>2, <2>1, <2>2, <2>3, <2>4 DEF BridgeOK
<1>7. ASSUME OpenManager PROVE BridgeOK'
  BY <1>0, <1>7, ResetInv DEF OpenManager, ChainOK
<1>8. ASSUME NEW v \in DOMAIN views, NewManager(v) PROVE BridgeOK'
  BY <1>8, ResetInv DEF NewManager, Authoritative
<1>9. ASSUME NEW r \in signed, ApplyCheck(r) PROVE BridgeOK'
  <2>1. /\ UNCHANGED <<epoch, members, call, reported, view, stored, installing, signed, views>>
        /\ applying = {} /\ applying' = {r} /\ r.view = view
    BY <1>9 DEF ApplyCheck, Current, coordinator, vars, manager
  <2> QED BY <1>0, <1>2, <2>1 DEF BridgeOK, ChainOK, ReceiptsOK, CallOK, ReportsSigned
<1>10. ASSUME NEW r \in signed, ApplyRead(r) PROVE BridgeOK'
  <2>1. /\ UNCHANGED <<epoch, members, reported, view, stored, installing, applying, signed, views>>
        /\ r \in applying
        /\ call' = [call EXCEPT ![Bridge] = [step |-> "read",
                      report |-> [member |-> r.member, epoch |-> views[r.view].epoch,
                                  tags |-> r.tags],
                      candidates |-> target]]
    BY <1>10 DEF ApplyRead, ReadCandidates, manager, bridge
  <2>2. CallOK'
    BY <1>0, <2>1, BridgeAssumption DEF CallOK, TypeOK
  <2> QED BY <1>0, <1>2, <2>1, <2>2 DEF BridgeOK, ChainOK, ReceiptsOK, ReportsSigned
<1>11. ASSUME NEW r \in signed, ApplyDecide(r) PROVE BridgeOK'
  BY <1>11, ApplyDecideInv
<1>12. ASSUME NEW r \in signed, ApplyCompact(r) PROVE BridgeOK'
  <2>1. /\ UNCHANGED <<epoch, members, reported, view, stored, installing, signed, views>>
        /\ applying' = {} /\ call' = [call EXCEPT ![Bridge] = Idle]
    BY <1>12 DEF ApplyCompact, CompactTarget, manager
  <2>2. CallOK'
    BY <1>0, <2>1, BridgeAssumption DEF CallOK, TypeOK, Idle
  <2> QED BY <1>0, <1>2, <2>1, <2>2 DEF BridgeOK, ChainOK, ReceiptsOK, ReportsSigned
<1>13. ASSUME Locally \/ UNCHANGED bridgeVars PROVE BridgeOK'
  <2>1. UNCHANGED <<epoch, members, call, reported, view, stored, installing, applying, signed, views>>
    BY <1>13 DEF Locally, Delete, Prune, bridgeVars, coordinator, vars, manager, bridge
  <2> QED BY <1>0, <1>2, <2>1 DEF BridgeOK, ChainOK, ReceiptsOK, CallOK, ReportsSigned
<1>14. BridgeOK'
  BY <1>3, <1>4, <1>5, <1>6, <1>7, <1>8, <1>9, <1>10, <1>11, <1>12, <1>13 DEF BridgeNext
<1> QED BY <1>1, <1>14 DEF BridgeInv

\* The invariant holds in every reachable state of the composition.
LEMMA BridgeAlwaysInv == BridgeSpec => []BridgeInv
  BY BridgeInitInv, BridgeNextInv, PTL DEF BridgeSpec

\* The manager and the bridge implement the coordinator: whatever views are
\* signed, installed, lost in a crash or forked, and whatever receipts arrive,
\* the coordinator takes only its own steps.
THEOREM BridgeRefinesCoordinator == BridgeSpec => RefinesCoordinator
<1>1. BridgeInit => Init
  BY DEF BridgeInit
<1> QED BY <1>1, BridgeStep, BridgeAlwaysInv, PTL DEF BridgeSpec, RefinesCoordinator, Spec

\* Collection runs under the fence of the installed view, and what it collects
\* every member of that view signed for in its current incarnation, for any
\* number of members, views, incarnations and receipts.
THEOREM BridgeCollectedUnderFence == BridgeSpec => CollectedUnderFence
<1> DEFINE Signed == \A t \in target \ target' : \A m \in Active(view) :
                       \E r \in signed : /\ r.member = m /\ r.view = view
                                         /\ r.inc = views[view].inc[m] /\ t \in r.tags
<1>1. BridgeInv => FenceMatchesView
  BY DEF BridgeInv, BridgeOK, ChainOK, FenceMatchesView
<1>2. BridgeInv /\ [BridgeNext]_bridgeVars => [Signed]_bridgeVars
  <2> SUFFICES ASSUME BridgeInv, [BridgeNext]_bridgeVars,
                      NEW t \in target \ target', NEW m \in Active(view)
               PROVE  \E r \in signed : /\ r.member = m /\ r.view = view
                                        /\ r.inc = views[view].inc[m] /\ t \in r.tags
    OBVIOUS
  <2>1. m \in members /\ m \in Member
    BY DEF BridgeInv, BridgeOK, ChainOK, Active
  <2>2. t \in reported[m]
    BY <2>1, BridgeStep, RemovalReported DEF BridgeInv, BridgeOK
  <2>3. PICK r \in signed : r.member = m /\ r.view = view /\ t \in r.tags
    BY <2>1, <2>2 DEF BridgeInv, BridgeOK, ReportsSigned
  <2> QED BY <2>3 DEF BridgeInv, BridgeOK, ReceiptsOK
<1>3. BridgeSpec => []FenceMatchesView
  BY <1>1, BridgeAlwaysInv, PTL
<1>4. BridgeSpec => CollectedWithReceipts
  BY <1>2, BridgeAlwaysInv, PTL DEF BridgeSpec, CollectedWithReceipts
<1> QED BY <1>3, <1>4 DEF CollectedUnderFence
=============================================================================

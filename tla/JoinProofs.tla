----------------------------- MODULE JoinProofs -----------------------------
(***************************************************************************)
(* The joins of the replicated values: of any two states the result does   *)
(* not depend on the side, on the grouping, or on repetition, so replicas  *)
(* that have received the same deltas agree whatever the network did; and  *)
(* the test that lets a merge return early is true exactly of states whose *)
(* join would change nothing.                                              *)
(*                                                                         *)
(* Nothing bounds the number of replicas, elements or tags.                *)
(***************************************************************************)
EXTENDS Integers, TLAPS

CONSTANTS MaxWord, Physical, Deleted, Replica, MaxCount

OR == INSTANCE ORSet
LW == INSTANCE LWW
MV == INSTANCE MVRegister
CT == INSTANCE Counters

-----------------------------------------------------------------------------
(***************************************************************************)
(* Observed-remove sets: partial states of live adds and tombstones.       *)
(***************************************************************************)
\* A partial state without a live add under a tombstone, as every state is.
Partial(d) == d = [adds |-> d.adds, tombs |-> d.tombs]
Settled(d) == Partial(d) /\ \A x \in d.adds : x[2] \notin d.tombs

\* joinState of set/orset.go: neither the order, the grouping nor the repetition
\* of deltas shows in the result.
THEOREM ORSetJoinLaws ==
    ASSUME NEW d, NEW e, NEW f, Settled(d)
    PROVE  /\ OR!Join(d, e) = OR!Join(e, d)
           /\ OR!Join(OR!Join(d, e), f) = OR!Join(d, OR!Join(e, f))
           /\ OR!Join(d, d) = d
<1>1. OR!Join(d, e) = OR!Join(e, d)
  BY DEF OR!Join
<1>2. OR!Join(OR!Join(d, e), f) = OR!Join(d, OR!Join(e, f))
  BY DEF OR!Join
<1>3. OR!Join(d, d) = d
  <2>1. {x \in d.adds \cup d.adds : x[2] \notin d.tombs \cup d.tombs} = d.adds
    BY DEF Settled
  <2> QED
    BY <2>1 DEF OR!Join, Settled, Partial
<1> QED
  BY <1>1, <1>2, <1>3

\* subsumesState of set/orset.go, with which Merge returns early: it holds exactly
\* when the join would leave the state as it is, and after the join it holds.
THEOREM ORSetSubsumes ==
    ASSUME NEW s, NEW d, Settled(OR!Whole(s))
    PROVE  /\ OR!Subsumes(s, d) <=> OR!Join(OR!Whole(s), d) = OR!Whole(s)
           /\ Settled(OR!Join(OR!Whole(s), d))
<1> DEFINE w == OR!Whole(s)
           j == OR!Join(w, d)
<1>1. w.adds = s.elements /\ w.tombs = s.tombs /\ w = [adds |-> w.adds, tombs |-> w.tombs]
  BY DEF OR!Whole
<1>2. /\ j = [adds |-> {x \in w.adds \cup d.adds : x[2] \notin w.tombs \cup d.tombs},
              tombs |-> w.tombs \cup d.tombs]
  BY DEF OR!Join
<1>3. ASSUME OR!Subsumes(s, d) PROVE j = w
  <2>1. w.tombs \cup d.tombs = w.tombs
    BY <1>1, <1>3 DEF OR!Subsumes
  <2>2. {x \in w.adds \cup d.adds : x[2] \notin w.tombs} = w.adds
    BY <1>1, <1>3 DEF OR!Subsumes, Settled
  <2> QED
    BY <1>1, <1>2, <2>1, <2>2
<1>4. ASSUME j = w PROVE OR!Subsumes(s, d)
  <2>1. w.tombs = w.tombs \cup d.tombs
    BY <1>2, <1>4
  <2>2. w.adds = {x \in w.adds \cup d.adds : x[2] \notin w.tombs \cup d.tombs}
    BY <1>2, <1>4
  <2> QED
    BY <1>1, <2>1, <2>2 DEF OR!Subsumes
<1>5. Settled(j)
  BY <1>2 DEF Settled, Partial
<1> QED
  BY <1>3, <1>4, <1>5

-----------------------------------------------------------------------------
(***************************************************************************)
(* Last-write-wins maps and sets: at most one entry per key.               *)
(***************************************************************************)
Tag == [wall : Nat, logical : Nat, id : Nat]

OnePerKey(es) == \A e, f \in es : e.key = f.key => e = f

\* Tags are tags, and one tag names one content of a key, which the code enforces
\* by refusing the deltas that conflict.
Consistent(es) ==
    /\ \A e \in es : e.tag \in Tag
    /\ \A e, f \in es : e.key = f.key /\ e.tag = f.tag => e = f

\* The entries that no other entry of their key is above.
Newest(es) == {e \in es : \A f \in es : f.key = e.key => LW!TagLeq(f.tag, e.tag)}

LEMMA TagOrder ==
    ASSUME NEW t \in Tag, NEW u \in Tag, NEW v \in Tag
    PROVE  /\ LW!TagLess(t, u) \/ t = u \/ LW!TagLess(u, t)
           /\ ~(LW!TagLess(t, u) /\ LW!TagLess(u, t)) /\ ~LW!TagLess(t, t)
           /\ LW!TagLess(t, u) /\ LW!TagLess(u, v) => LW!TagLess(t, v)
BY DEF Tag, LW!TagLess, LW!StampLess

LEMMA LWWJoinIsNewest ==
    ASSUME NEW es, NEW d, OnePerKey(es), OnePerKey(d), Consistent(es \cup d)
    PROVE  LW!JoinEntries(es, d) = Newest(es \cup d)
<1> DEFINE j == LW!JoinEntries(es, d)
<1>1. ASSUME NEW e \in j PROVE e \in Newest(es \cup d)
  <2>1. e \in es \cup d
    BY <1>1 DEF LW!JoinEntries, LW!Winning
  <2>2. SUFFICES ASSUME NEW f \in es \cup d, f.key = e.key PROVE LW!TagLeq(f.tag, e.tag)
    BY <2>1 DEF Newest
  <2>3. e.tag \in Tag /\ f.tag \in Tag
    BY <2>1 DEF Consistent
  <2>4. CASE e \in es /\ f \in es
    BY <2>2, <2>4 DEF OnePerKey, LW!TagLeq
  <2>5. CASE e \in d /\ f \in d
    BY <2>2, <2>5 DEF OnePerKey, LW!TagLeq
  <2>6. CASE e \in es \ d /\ f \in d
    <3>1. ~LW!TagLess(e.tag, f.tag)
      BY <1>1, <2>2, <2>6 DEF LW!JoinEntries, LW!Winning, LW!Overwritten, LW!Of
    <3> QED
      BY <2>3, <3>1, TagOrder DEF LW!TagLeq
  <2>7. CASE e \in d /\ f \in es
    <3>1. CASE e \in LW!Winning(es, d)
      BY <2>2, <2>7, <3>1 DEF LW!Winning, LW!Of, LW!TagLeq
    <3>2. CASE e \in es
      BY <2>2, <2>7, <3>2 DEF OnePerKey, LW!TagLeq
    <3> QED
      BY <1>1, <3>1, <3>2 DEF LW!JoinEntries
  <2> QED
    BY <2>1, <2>4, <2>5, <2>6, <2>7
<1>2. ASSUME NEW e \in Newest(es \cup d) PROVE e \in j
  <2>1. /\ e \in es \cup d /\ e.tag \in Tag
        /\ \A f \in es \cup d : f.key = e.key => f.tag \in Tag /\ LW!TagLeq(f.tag, e.tag)
    BY <1>2 DEF Newest, Consistent
  <2>2. CASE e \in es
    <3>1. e \notin LW!Overwritten(es, d)
      BY <2>1, TagOrder DEF LW!Overwritten, LW!Of, LW!TagLeq
    <3> QED
      BY <2>2, <3>1 DEF LW!JoinEntries
  <2>3. CASE e \in d \ es
    <3>1. ASSUME NEW f \in LW!Of(es, e.key) PROVE LW!TagLess(f.tag, e.tag)
      <4>1. f \in es /\ f.key = e.key /\ f # e
        BY <2>3, <3>1 DEF LW!Of
      <4>2. f.tag # e.tag
        BY <2>3, <4>1 DEF Consistent
      <4> QED
        BY <2>1, <4>1, <4>2 DEF LW!TagLeq
    <3> QED
      BY <2>3, <3>1 DEF LW!JoinEntries, LW!Winning
  <2> QED
    BY <2>1, <2>2, <2>3
<1> QED
  BY <1>1, <1>2

\* Every entry that went in is in the join, or below an entry that is.
LEMMA LWWJoinCovers ==
    ASSUME NEW es, NEW d, OnePerKey(es), OnePerKey(d), Consistent(es \cup d),
           NEW e \in es \cup d
    PROVE  \E g \in LW!JoinEntries(es, d) : g.key = e.key /\ LW!TagLeq(e.tag, g.tag)
<1>1. CASE e \in es
  <2>1. CASE e \in LW!Overwritten(es, d)
    <3>1. PICK g \in d : g.key = e.key /\ LW!TagLess(e.tag, g.tag)
      BY <2>1 DEF LW!Overwritten, LW!Of
    <3>2. g \in LW!Winning(es, d)
      BY <1>1, <3>1 DEF LW!Winning, LW!Of, OnePerKey
    <3> QED
      BY <3>1, <3>2 DEF LW!JoinEntries, LW!TagLeq
  <2>2. CASE e \notin LW!Overwritten(es, d)
    BY <1>1, <2>2 DEF LW!JoinEntries, LW!TagLeq
  <2> QED
    BY <2>1, <2>2
<1>2. CASE e \in d
  <2>1. CASE e \in LW!Winning(es, d)
    BY <2>1 DEF LW!JoinEntries, LW!TagLeq
  <2>2. CASE e \notin LW!Winning(es, d)
    <3>1. PICK g \in es : g.key = e.key /\ ~LW!TagLess(g.tag, e.tag)
      BY <1>2, <2>2 DEF LW!Winning, LW!Of
    <3>2. LW!TagLeq(e.tag, g.tag) /\ e.tag \in Tag /\ g.tag \in Tag
      BY <1>2, <3>1, TagOrder DEF Consistent, LW!TagLeq
    <3>3. \A f \in d : f.key = g.key => f = e
      BY <1>2, <3>1 DEF OnePerKey
    <3>4. g \notin LW!Overwritten(es, d)
      BY <3>1, <3>2, <3>3, TagOrder DEF LW!Overwritten, LW!Of, LW!TagLeq
    <3> QED
      BY <3>1, <3>2, <3>4 DEF LW!JoinEntries
  <2> QED
    BY <2>1, <2>2
<1> QED
  BY <1>1, <1>2

LEMMA LWWJoinKeeps ==
    ASSUME NEW es, NEW d, OnePerKey(es), OnePerKey(d), Consistent(es \cup d)
    PROVE  /\ OnePerKey(LW!JoinEntries(es, d))
           /\ LW!JoinEntries(es, d) \subseteq es \cup d
<1> DEFINE j == LW!JoinEntries(es, d)
<1>1. j = Newest(es \cup d)
  BY LWWJoinIsNewest
<1>2. ASSUME NEW e \in j, NEW f \in j, e.key = f.key PROVE e = f
  <2>1. /\ e \in es \cup d /\ f \in es \cup d
        /\ LW!TagLeq(e.tag, f.tag) /\ LW!TagLeq(f.tag, e.tag)
    BY <1>1, <1>2 DEF Newest
  <2>2. e.tag = f.tag
    BY <2>1, TagOrder DEF Consistent, LW!TagLeq
  <2> QED
    BY <1>2, <2>1, <2>2 DEF Consistent
<1> QED
  BY <1>1, <1>2 DEF OnePerKey, Newest

\* The newest entries of a join and of more are the newest of all that went in.
LEMMA LWWNewestOfJoin ==
    ASSUME NEW es, NEW d, NEW g, OnePerKey(es), OnePerKey(d), Consistent(es \cup d \cup g)
    PROVE  Newest(LW!JoinEntries(es, d) \cup g) = Newest(es \cup d \cup g)
<1> DEFINE j == LW!JoinEntries(es, d)
           all == es \cup d \cup g
<1>1. Consistent(es \cup d)
  BY DEF Consistent
<1>2. j = Newest(es \cup d) /\ j \subseteq es \cup d
  BY <1>1, LWWJoinIsNewest, LWWJoinKeeps
<1>3. \A e \in all : \E f \in j \cup g : f.key = e.key /\ LW!TagLeq(e.tag, f.tag)
  BY <1>1, LWWJoinCovers DEF LW!TagLeq
<1>4. \A e, f, h \in all : LW!TagLeq(e.tag, f.tag) /\ LW!TagLeq(f.tag, h.tag)
                             => LW!TagLeq(e.tag, h.tag)
  BY TagOrder DEF Consistent, LW!TagLeq
<1> HIDE DEF j, all
<1>5. j \cup g \subseteq all
  BY <1>2 DEF all
<1>6. ASSUME NEW e \in Newest(j \cup g) PROVE e \in Newest(all)
  BY <1>3, <1>4, <1>5, <1>6 DEF Newest
<1>7. ASSUME NEW e \in Newest(all) PROVE e \in Newest(j \cup g)
  <2>1. e \in all /\ \A f \in all : f.key = e.key => LW!TagLeq(f.tag, e.tag)
    BY <1>7 DEF Newest
  <2>2. e \in j \cup g
    BY <1>2, <2>1 DEF all, Newest
  <2> QED
    BY <1>5, <2>1, <2>2 DEF Newest
<1> QED
  BY <1>6, <1>7 DEF j, all

\* mergeMapEntries of lww/: neither the order, the grouping nor the repetition of
\* deltas shows in the entries.
THEOREM LWWJoinLaws ==
    ASSUME NEW c, NEW d, NEW e, OnePerKey(c), OnePerKey(d), OnePerKey(e),
           Consistent(c \cup d \cup e)
    PROVE  /\ LW!JoinEntries(c, d) = LW!JoinEntries(d, c)
           /\ LW!JoinEntries(LW!JoinEntries(c, d), e) = LW!JoinEntries(c, LW!JoinEntries(d, e))
           /\ LW!JoinEntries(c, c) = c
<1>1. Consistent(c \cup d) /\ Consistent(d \cup c) /\ Consistent(d \cup e) /\ Consistent(c \cup c)
  BY DEF Consistent
<1>2. LW!JoinEntries(c, d) = LW!JoinEntries(d, c)
  <2>1. c \cup d = d \cup c
    OBVIOUS
  <2> QED
    BY <1>1, <2>1, LWWJoinIsNewest
<1>3. LW!JoinEntries(c, c) = c
  <2>1. LW!JoinEntries(c, c) = Newest(c \cup c)
    BY <1>1, LWWJoinIsNewest
  <2>2. Newest(c \cup c) = c
    BY DEF Newest, OnePerKey, LW!TagLeq
  <2> QED
    BY <2>1, <2>2
<1>4. LW!JoinEntries(LW!JoinEntries(c, d), e) = Newest(c \cup d \cup e)
  <2> DEFINE j == LW!JoinEntries(c, d)
  <2>1. OnePerKey(j) /\ j \subseteq c \cup d
    BY <1>1, LWWJoinKeeps
  <2>2. Newest(j \cup e) = Newest(c \cup d \cup e)
    BY LWWNewestOfJoin
  <2> HIDE DEF j
  <2>3. Consistent(j \cup e)
    BY <2>1 DEF Consistent
  <2>4. LW!JoinEntries(j, e) = Newest(j \cup e)
    BY <2>1, <2>3, LWWJoinIsNewest
  <2> QED
    BY <2>2, <2>4 DEF j
<1>5. LW!JoinEntries(c, LW!JoinEntries(d, e)) = Newest(c \cup d \cup e)
  <2> DEFINE j == LW!JoinEntries(d, e)
  <2>1. OnePerKey(j) /\ j \subseteq d \cup e
    BY <1>1, LWWJoinKeeps
  <2>2. d \cup e \cup c = c \cup d \cup e
    OBVIOUS
  <2>3. Newest(j \cup c) = Newest(c \cup d \cup e)
    <3>1. Consistent(d \cup e \cup c)
      BY DEF Consistent
    <3>2. Newest(j \cup c) = Newest(d \cup e \cup c)
      BY <3>1, LWWNewestOfJoin
    <3> QED
      BY <2>2, <3>2
  <2> HIDE DEF j
  <2>4. Consistent(c \cup j)
    BY <2>1 DEF Consistent
  <2>5. LW!JoinEntries(c, j) = Newest(c \cup j)
    BY <2>1, <2>4, LWWJoinIsNewest
  <2>6. c \cup j = j \cup c
    OBVIOUS
  <2> QED
    BY <2>3, <2>5, <2>6 DEF j
<1> QED
  BY <1>2, <1>3, <1>4, <1>5

\* mapEntriesSubsumed of lww/, with which ApplyDelta and Merge return early: it
\* holds exactly when the join leaves the entries as they are; and the tag index,
\* which the join updates entry by entry, stays that of the entries.
THEOREM LWWSubsumes ==
    ASSUME NEW s, NEW d, OnePerKey(s.entries), OnePerKey(d), Consistent(s.entries \cup d),
           s.tags = LW!IndexOf(s.entries)
    PROVE  /\ LW!Subsumes(s, d) <=> LW!JoinEntries(s.entries, d) = s.entries
           /\ LW!Reindex(s, d) = LW!IndexOf(LW!JoinEntries(s.entries, d))
<1> DEFINE es == s.entries
           over == LW!Overwritten(es, d)
           win == LW!Winning(es, d)
<1>1. ASSUME LW!Subsumes(s, d) PROVE LW!JoinEntries(es, d) = es
  <2>1. ASSUME NEW e \in d
        PROVE  \E f \in es : f.key = e.key /\ LW!TagLeq(e.tag, f.tag)
    BY <1>1 DEF LW!Subsumes, LW!Of
  <2>2. over = {}
    <3> SUFFICES ASSUME NEW e \in over PROVE FALSE
      OBVIOUS
    <3>1. PICK f \in d : e \in es /\ f.key = e.key /\ LW!TagLess(e.tag, f.tag)
      BY DEF LW!Overwritten, LW!Of
    <3>2. LW!TagLeq(f.tag, e.tag)
      BY <2>1, <3>1 DEF OnePerKey
    <3> QED
      BY <3>1, <3>2, TagOrder DEF Consistent, LW!TagLeq
  <2>3. win \subseteq es
    <3> SUFFICES ASSUME NEW e \in win PROVE FALSE
      OBVIOUS
    <3>1. e \in d /\ \A f \in es : f.key = e.key => LW!TagLess(f.tag, e.tag)
      BY DEF LW!Winning, LW!Of
    <3>2. PICK f \in es : f.key = e.key /\ LW!TagLeq(e.tag, f.tag)
      BY <2>1, <3>1
    <3> QED
      BY <3>1, <3>2, TagOrder DEF Consistent, LW!TagLeq
  <2> QED
    BY <2>2, <2>3 DEF LW!JoinEntries
<1>2. ASSUME LW!JoinEntries(es, d) = es PROVE LW!Subsumes(s, d)
  BY <1>2, LWWJoinCovers DEF LW!Subsumes, LW!Of
<1>3. LW!Reindex(s, d) = LW!IndexOf(LW!JoinEntries(es, d))
  <2>1. LW!IndexOf(es) \ LW!IndexOf(over) = LW!IndexOf(es \ over)
    <3>1. over \subseteq es
      BY DEF LW!Overwritten
    <3>2. \A e, f \in es : <<e.tag, e.key>> = <<f.tag, f.key>> => e = f
      BY DEF OnePerKey
    <3> HIDE DEF over, es
    <3> QED
      BY <3>1, <3>2 DEF LW!IndexOf
  <2>2. LW!IndexOf((es \ over) \cup win) = LW!IndexOf(es \ over) \cup LW!IndexOf(win)
    BY DEF LW!IndexOf
  <2> QED
    BY <2>1, <2>2 DEF LW!Reindex, LW!JoinEntries
<1> QED
  BY <1>1, <1>2, <1>3

-----------------------------------------------------------------------------
(***************************************************************************)
(* Multi-value registers and counters.                                     *)
(***************************************************************************)
MVState(s) ==
    /\ s = [context |-> s.context, values |-> s.values]
    /\ s.context \in [Replica -> Nat]
    /\ \A v \in s.values : v.dot.id \in Replica /\ v.dot.n \in Nat
    /\ MV!Valid(s)

\* No dot has two values, which the code enforces by refusing such states.
Agree(s, t) == \A v \in s.values, w \in t.values : v.dot = w.dot => v = w

Hi(a, b) == IF a >= b THEN a ELSE b

LEMMA MVJoinContext ==
    ASSUME NEW s, NEW t, MVState(s), MVState(t)
    PROVE  /\ MV!Join(s, t).context = [r \in Replica |-> Hi(s.context[r], t.context[r])]
           /\ MV!Join(s, t).context = MV!Join(t, s).context
           /\ MV!Join(s, s).context = s.context
<1>1. \A r \in Replica : s.context[r] \in Nat /\ t.context[r] \in Nat
  BY DEF MVState
<1>2. MV!Join(s, t).context = [r \in Replica |-> Hi(s.context[r], t.context[r])]
  BY DEF MV!Join, Hi
<1>3. MV!Join(t, s).context = [r \in Replica |-> Hi(t.context[r], s.context[r])]
  BY DEF MV!Join, Hi
<1>4. MV!Join(s, s).context = [r \in Replica |-> Hi(s.context[r], s.context[r])]
  BY DEF MV!Join, Hi
<1>5. \A r \in Replica : /\ Hi(s.context[r], t.context[r]) = Hi(t.context[r], s.context[r])
                         /\ Hi(s.context[r], s.context[r]) = s.context[r]
  BY <1>1 DEF Hi
<1>6. MV!Join(s, t).context = MV!Join(t, s).context
  BY <1>2, <1>3, <1>5
<1>7. [r \in Replica |-> Hi(s.context[r], s.context[r])] = s.context
  BY <1>5 DEF MVState
<1> QED
  BY <1>2, <1>4, <1>6, <1>7

LEMMA MVJoinValue ==
    ASSUME NEW s, NEW t, Agree(s, t), NEW v
    PROVE  v \in MV!Join(s, t).values <=>
              \/ v \in s.values /\ (v \in t.values \/ ~MV!Covers(t.context, v.dot))
              \/ v \in t.values /\ (v \in s.values \/ ~MV!Covers(s.context, v.dot))
BY DEF MV!Join, MV!Surviving, MV!DotsOf, Agree

LEMMA MVJoinState ==
    ASSUME NEW s, NEW t, MVState(s), MVState(t)
    PROVE  /\ MVState(MV!Join(s, t))
           /\ MV!Join(s, t).values \subseteq s.values \cup t.values
           /\ \A dot : dot.id \in Replica /\ dot.n \in Nat =>
                 (MV!Covers(MV!Join(s, t).context, dot) <=>
                    MV!Covers(s.context, dot) \/ MV!Covers(t.context, dot))
<1> DEFINE j == MV!Join(s, t)
<1>1. /\ j.context = [r \in Replica |-> IF s.context[r] >= t.context[r] THEN s.context[r]
                                         ELSE t.context[r]]
      /\ j.values = MV!Surviving(s, t) \cup MV!Surviving(t, s)
      /\ j = [context |-> j.context, values |-> j.values]
  BY DEF MV!Join
<1> HIDE DEF j
<1>2. j.context \in [Replica -> Nat] /\ j.values \subseteq s.values \cup t.values
  BY <1>1 DEF MVState, MV!Surviving
<1>3. ASSUME NEW dot, dot.id \in Replica, dot.n \in Nat
      PROVE  MV!Covers(j.context, dot) <=>
                MV!Covers(s.context, dot) \/ MV!Covers(t.context, dot)
  BY <1>1, <1>3 DEF MVState, MV!Covers
<1>4. \A v \in j.values : v.dot.id \in Replica /\ v.dot.n \in Nat
  BY <1>2 DEF MVState
<1>5. \A v \in s.values : MV!Covers(s.context, v.dot)
  BY DEF MVState, MV!Valid, MV!DotsOf
<1>6. \A v \in t.values : MV!Covers(t.context, v.dot)
  BY DEF MVState, MV!Valid, MV!DotsOf
<1>7. MV!Valid(j)
  BY <1>2, <1>3, <1>4, <1>5, <1>6 DEF MV!Valid, MV!DotsOf
<1> QED
  BY <1>1, <1>2, <1>3, <1>4, <1>7 DEF MVState, j

\* joinMVState of register/mvregister.go: neither the order, the grouping nor the
\* repetition of states shows in the result.
THEOREM MVJoinLaws ==
    ASSUME NEW s, NEW t, NEW u, MVState(s), MVState(t), MVState(u),
           Agree(s, t), Agree(t, u), Agree(s, u), Agree(s, s)
    PROVE  /\ MV!Join(s, t) = MV!Join(t, s)
           /\ MV!Join(MV!Join(s, t), u) = MV!Join(s, MV!Join(t, u))
           /\ MV!Join(s, s) = s
<1> DEFINE st == MV!Join(s, t)
           tu == MV!Join(t, u)
<1>1. ASSUME NEW p, NEW q
      PROVE  MV!Join(p, q) = [context |-> MV!Join(p, q).context,
                              values |-> MV!Join(p, q).values]
  BY DEF MV!Join
<1>2. MV!Join(s, t) = MV!Join(t, s)
  <2>1. MV!Join(s, t).context = MV!Join(t, s).context
    BY MVJoinContext
  <2>2. MV!Join(s, t).values = MV!Join(t, s).values
    BY DEF MV!Join
  <2> QED
    BY <1>1, <2>1, <2>2, Zenon
<1>3. MV!Join(s, s) = s
  <2>1. MV!Join(s, s).context = s.context
    BY MVJoinContext DEF MVState
  <2>2. MV!Join(s, s).values = s.values
    BY DEF MV!Join, MV!Surviving, MV!DotsOf
  <2> QED
    BY <1>1, <2>1, <2>2 DEF MVState
<1>4. MVState(st) /\ MVState(tu) /\ Agree(st, u) /\ Agree(s, tu)
  BY MVJoinState DEF Agree
<1>5. MV!Join(st, u).context = MV!Join(s, tu).context
  <2>1. \A r \in Replica : s.context[r] \in Nat /\ t.context[r] \in Nat /\ u.context[r] \in Nat
    BY DEF MVState
  <2>2. st.context = [r \in Replica |-> Hi(s.context[r], t.context[r])]
    BY MVJoinContext
  <2>3. tu.context = [r \in Replica |-> Hi(t.context[r], u.context[r])]
    BY MVJoinContext
  <2> HIDE DEF st, tu
  <2>4. MV!Join(st, u).context = [r \in Replica |-> Hi(st.context[r], u.context[r])]
    BY <1>4, MVJoinContext
  <2>5. MV!Join(s, tu).context = [r \in Replica |-> Hi(s.context[r], tu.context[r])]
    BY <1>4, MVJoinContext
  <2>6. \A r \in Replica : Hi(st.context[r], u.context[r]) = Hi(s.context[r], tu.context[r])
    BY <2>1, <2>2, <2>3 DEF Hi
  <2> QED
    BY <2>4, <2>5, <2>6
<1>6. ASSUME NEW v PROVE v \in MV!Join(st, u).values <=> v \in MV!Join(s, tu).values
  <2>1. CASE v \notin s.values \cup t.values \cup u.values
    BY <1>4, <2>1, MVJoinValue, MVJoinState
  <2>2. CASE v \in s.values \cup t.values \cup u.values
    <3>1. v.dot.id \in Replica /\ v.dot.n \in Nat
      BY <2>2 DEF MVState
    <3>2. /\ v \in s.values => MV!Covers(s.context, v.dot)
          /\ v \in t.values => MV!Covers(t.context, v.dot)
          /\ v \in u.values => MV!Covers(u.context, v.dot)
      BY DEF MVState, MV!Valid, MV!DotsOf
    <3>3. /\ MV!Covers(st.context, v.dot) <=> MV!Covers(s.context, v.dot) \/ MV!Covers(t.context, v.dot)
          /\ MV!Covers(tu.context, v.dot) <=> MV!Covers(t.context, v.dot) \/ MV!Covers(u.context, v.dot)
      BY <3>1, MVJoinState
    <3>4. /\ v \in st.values <=>
              \/ v \in s.values /\ (v \in t.values \/ ~MV!Covers(t.context, v.dot))
              \/ v \in t.values /\ (v \in s.values \/ ~MV!Covers(s.context, v.dot))
          /\ v \in tu.values <=>
              \/ v \in t.values /\ (v \in u.values \/ ~MV!Covers(u.context, v.dot))
              \/ v \in u.values /\ (v \in t.values \/ ~MV!Covers(t.context, v.dot))
      BY MVJoinValue
    <3>5. /\ v \in MV!Join(st, u).values <=>
              \/ v \in st.values /\ (v \in u.values \/ ~MV!Covers(u.context, v.dot))
              \/ v \in u.values /\ (v \in st.values \/ ~MV!Covers(st.context, v.dot))
          /\ v \in MV!Join(s, tu).values <=>
              \/ v \in s.values /\ (v \in tu.values \/ ~MV!Covers(tu.context, v.dot))
              \/ v \in tu.values /\ (v \in s.values \/ ~MV!Covers(s.context, v.dot))
      BY <1>4, MVJoinValue
    <3> QED
      BY <3>2, <3>3, <3>4, <3>5
  <2> QED
    BY <2>1, <2>2
<1>7. MV!Join(st, u) = MV!Join(s, tu)
  <2>1. MV!Join(st, u).values = MV!Join(s, tu).values
    <3> DEFINE a == MV!Join(st, u)
               b == MV!Join(s, tu)
    <3>1. a.values = MV!Surviving(st, u) \cup MV!Surviving(u, st)
      BY DEF MV!Join
    <3>2. b.values = MV!Surviving(s, tu) \cup MV!Surviving(tu, s)
      BY DEF MV!Join
    <3> QED
      BY <1>6, <3>1, <3>2
  <2>2. MV!Join(st, u) = [context |-> MV!Join(st, u).context,
                          values |-> MV!Join(st, u).values]
    BY <1>1
  <2>3. MV!Join(s, tu) = [context |-> MV!Join(s, tu).context,
                          values |-> MV!Join(s, tu).values]
    BY <1>1
  <2> QED
    BY <1>5, <2>1, <2>2, <2>3, Zenon
<1> QED
  BY <1>2, <1>3, <1>7

\* joinCounts of counter/: the same for counters, and applying a delta reports no
\* change exactly when the join changes nothing.
THEOREM CounterJoinLaws ==
    ASSUME NEW s \in [CT!Sign -> [Replica -> Nat]], NEW t \in [CT!Sign -> [Replica -> Nat]],
           NEW u \in [CT!Sign -> [Replica -> Nat]]
    PROVE  /\ CT!Join(s, t) = CT!Join(t, s)
           /\ CT!Join(CT!Join(s, t), u) = CT!Join(s, CT!Join(t, u))
           /\ CT!Join(s, s) = s
           /\ CT!Subsumes(s, t) <=> CT!Join(s, t) = s
<1>1. CT!Join(s, t) = CT!Join(t, s)
  <2>1. \A g \in CT!Sign, r \in Replica : s[g][r] \in Nat /\ t[g][r] \in Nat
    OBVIOUS
  <2>2. ASSUME NEW g \in CT!Sign, NEW r \in Replica
        PROVE  (IF t[g][r] > s[g][r] THEN t[g][r] ELSE s[g][r]) =
               (IF s[g][r] > t[g][r] THEN s[g][r] ELSE t[g][r])
    <3>1. \A a, b \in Nat : (IF b > a THEN b ELSE a) = (IF a > b THEN a ELSE b)
      OBVIOUS
    <3> QED
      BY <2>1, <3>1
  <2> QED
    BY <2>2 DEF CT!Join
<1>2. CT!Join(CT!Join(s, t), u) = CT!Join(s, CT!Join(t, u))
  BY DEF CT!Join
<1>3. CT!Join(s, s) = s
  BY DEF CT!Join
<1>4. CT!Subsumes(s, t) => CT!Join(s, t) = s
  BY DEF CT!Join, CT!Subsumes
<1>5. CT!Join(s, t) = s => CT!Subsumes(s, t)
  BY DEF CT!Join, CT!Subsumes
<1> QED
  BY <1>1, <1>2, <1>3, <1>4, <1>5
=============================================================================

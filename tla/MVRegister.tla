----------------------------- MODULE MVRegister -----------------------------
(***************************************************************************)
(* register.MVRegister (register/mvregister.go): a multi-value register.   *)
(* A write is named by a dot [id, n]; a state is a causal context (per     *)
(* replica, the number of its writes that are covered) with the values     *)
(* [dot, val] that no covered write has overwritten.  A delta is such a    *)
(* state as well.                                                          *)
(***************************************************************************)
EXTENDS Integers

CONSTANTS Replica,
          MaxCount   \* math.MaxUint64, small

\* NewMVRegister.
New == [context |-> [r \in Replica |-> 0], values |-> {}]

\* mvContextCovers.
Covers(context, dot) == dot.n <= context[dot.id]
DotsOf(values) == {v.dot : v \in values}

\* Set: the new write of replica r overwrites everything s has observed.
Set(s, r, v) ==
    LET dot == [id |-> r, n |-> s.context[r] + 1]
        next == [context |-> [s.context EXCEPT ![r] = dot.n],
                 values |-> {[dot |-> dot, val |-> v]}]
    IN  IF s.context[r] = MaxCount THEN {} ELSE {[state |-> next, bodies |-> {next}]}

\* The values of s that t has not overwritten.
Surviving(s, t) ==
    {v \in s.values : v.dot \in DotsOf(t.values) \/ ~Covers(t.context, v.dot)}

\* joinMVState.
Join(s, t) ==
    [context |-> [r \in Replica |->
        IF s.context[r] >= t.context[r] THEN s.context[r] ELSE t.context[r]],
     values |-> Surviving(s, t) \cup Surviving(t, s)]

\* Two values under one dot (ErrTagConflict).
Conflicts(s, t) == \E v \in s.values, w \in t.values : v.dot = w.dot /\ v # w

\* subsumes.
Subsumes(s, d) == \A r \in Replica : d.context[r] <= s.context[r]

\* validateMVState.
Valid(s) == \A d \in DotsOf(s.values) : Covers(s.context, d)

\* join: an invalid state or a conflict refuses the other state.
Merge(s, d) == IF ~Valid(s) \/ Conflicts(s, d) THEN {} ELSE {Join(s, d)}

\* NewMVRegisterFromSnapshot.
Restored(s) == IF Valid(s) THEN {s} ELSE {}

\* A register shows exactly the given writes that no other of them had seen.
Shows(s, updates) ==
    s.values = {[dot |-> u.id, val |-> u.what.val] : u \in {w \in updates :
                  ~ \E x \in updates : Covers(x.what.past, w.id)}}
=============================================================================

------------------------------ MODULE Counters ------------------------------
(***************************************************************************)
(* counter.GCounter, counter.PNCounter (counter/) and register.Max         *)
(* (register/register.go).  A counter holds one component per replica for  *)
(* its increments and one for its decrements; a G-Counter never decrements.*)
(* A component that is absent is zero.  A delta carries one component, or  *)
(* the join of several.                                                    *)
(***************************************************************************)
EXTENDS Integers, FiniteSetsExt

CONSTANTS Replica,
          MaxCount   \* math.MaxUint64, small

Sign == {"positive", "negative"}

\* NewGCounter, NewPNCounter.
New == [sign \in Sign |-> [r \in Replica |-> 0]]

\* Increment and Decrement (add): the delta is the new component.
Add(s, r, sign, amount) ==
    IF MaxCount - s[sign][r] < amount THEN {}
    ELSE {[state |-> [s EXCEPT ![sign][r] = @ + amount],
           bodies |-> {[New EXCEPT ![sign][r] = s[sign][r] + amount]}]}

\* joinCounts on both maps.
Join(s, d) ==
    [sign \in Sign |-> [r \in Replica |->
        IF d[sign][r] > s[sign][r] THEN d[sign][r] ELSE s[sign][r]]]

\* ApplyDeltaChanged reports false.
Subsumes(s, d) == \A sign \in Sign, r \in Replica : d[sign][r] <= s[sign][r]

\* sumCounts.
Total(counts) == MapThenSumSet(LAMBDA r : counts[r], Replica)

\* GCounter.Value: a sum that does not fit a word is an error.
GValue(s) == IF Total(s["positive"]) > MaxCount THEN {} ELSE {Total(s["positive"])}

\* PNCounter.Value, an exact integer.
PNValue(s) == Total(s["positive"]) - Total(s["negative"])

\* register.Max: value is empty or holds one number; Set and Merge.
MaxSet(s, n) == IF \A m \in s : n > m THEN {n} ELSE s
MaxMerge(s, d) == IF d = {} THEN s ELSE MaxSet(s, CHOOSE n \in d : TRUE)

\* The amounts of a set of updates with the given sign.
Amounts(updates, sign) ==
    MapThenSumSet(LAMBDA u : u.what, {u \in updates : u.id.sign = sign})

\* The value is the sum of the updates, each counted once.
GShows(s, updates) ==
    GValue(s) = IF Amounts(updates, "positive") > MaxCount THEN {}
                ELSE {Amounts(updates, "positive")}

Shows(s, updates) == PNValue(s) = Amounts(updates, "positive") - Amounts(updates, "negative")
=============================================================================

----------------------------- MODULE MCReplicas -----------------------------
(* Two replicas of each data type, and of a text.  The first retains one   *)
(* entry of a last-write-wins type and admits only one of the two values.  *)
(* The text is one more kind: its state lives in the same variables.       *)
EXTENDS Replicas, TLC
CONSTANTS x, y, v, w, live, del
MCReplica == {1, 2}
MCPhysical == {0}
MCNumber == {1, 2}
MCKind == {"gset", "orset", "gcounter", "pncounter", "lwwmap", "lwwset", "attachment",
           "lwwregister", "mvregister", "max"}
MCOptions == [r \in Replica |-> [entries |-> r, values |-> IF r = 1 THEN {v} ELSE {v, w}]]
MCMaxWrites == [k \in Kind |-> CASE k \in {"orset", "lwwmap", "mvregister", "pncounter"} -> 3
                                  [] k = "gcounter" -> 4
                                  [] OTHER -> 2]
MCSymmetry == Permutations(Element)

Text == INSTANCE RGA WITH
    MaxWord <- 15, Physical <- {0}, MinRun <- 2, MaxNodes <- 4, MaxTombs <- 2,
    MaxPending <- 2, MaxPendingBytes <- 4, MaxInsert <- 2, MaxEdits <- 3, MaxEvents <- 3,
    rga <- state, edit <- tagged, compacted <- acked, edits <- writes, events <- applying

\* One type runs in a behaviour.
AllInit == Init \/ (kind = "text" /\ seen = {} /\ Text!Init)

AllNext ==
    \/ kind # "text" /\ Next
    \/ kind = "text" /\ Text!Next /\ UNCHANGED <<kind, seen>>

AllSpec == AllInit /\ [][AllNext]_vars

\* Every replica of a set, map, register or counter shows what the updates it heard
\* of resolve to (package set, lww, mv, counter).
AllResolved == kind # "text" => Resolved

\* No tag, dot or counter interval names two updates, over all replicas, lives, saved
\* states and messages (Clock.Now, the Restore and Unmarshal of each type).
AllUnique == kind # "text" => UpdatesUnique

\* A write that returned a delta is what its own replica shows next, also right after
\* a restore, and what a state covers, own write or not, it goes on covering (the
\* mutators and ApplyDelta of each type, restored by NewFromSnapshot).
ReadYourWrites == [][kind # "text" => SubsumedStays /\ WritesShown]_vars

\* The text is in the order its tree dictates, its indexes agree with it, positions
\* are unique for ever, and what was compacted does not return (text.RGA).
TextConsistent == kind = "text" => Text!TextConsistent

\* RGA.DeltaSince against a saved snapshot is enough to reach the sender's text.
DeltaSinceSuffices == kind = "text" => Text!DeltaSinceSuffices

\* Text is inserted where its caller saw the offset, although Insert takes its tags
\* under one lock and integrates under another.
InsertAdjacent == [][kind = "text" => Text!InsertsAdjacent]_vars
=============================================================================

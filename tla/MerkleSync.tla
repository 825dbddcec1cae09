----------------------------- MODULE MerkleSync -----------------------------
(***************************************************************************)
(* The Merkle tree of merkle/tree.go and the repair tool built on it,      *)
(* cmd/crdt-merkle-sync: clients that each own a directory of G-Counter    *)
(* states and repair it against one serving directory.                     *)
(*                                                                         *)
(* A G-Counter state is the set of increments it counts, so its join is    *)
(* the union, and {} is a key without a file.  SHA-256 is a constructor:   *)
(* a digest is the term it was taken of.  A repair is a sequence of        *)
(* requests, each answered by the server as it is at that moment; other    *)
(* clients' requests fall between any two of them, a request or its answer *)
(* may be lost, a write may fail before or after its rename, and processes *)
(* stop and reopen their directories.                                      *)
(***************************************************************************)
EXTENDS Naturals, Sequences, FiniteSets, FiniteSetsExt, SequencesExt

CONSTANTS
    Client, Server,   \* the directories; Server is not a Client
    Key,              \* object keys, numbered in their order
    MaxObjects,       \* storeOptions.maxObjects
    MaxAdds,          \* bound: increments
    MaxFaults         \* bound: failed writes, lost answers and crashes

VARIABLES
    states,    \* stateStore.states, by node and key
    tree,      \* stateStore.tree: the leaf digests and the cached root
    file,      \* the state files
    left,      \* every content of the directory a power failure may leave
    sync,      \* by client, where synchronize is
    added, faults

vars == <<states, tree, file, left, sync, added, faults>>

Node == Client \cup {Server}
Empty == [k \in Key |-> {}]

(***************************************************************************)
(* merkle.Tree.                                                            *)
(***************************************************************************)
Zero == <<"zero">>
EmptyRoot == <<"empty">>
Leaf(k, digest) == <<"leaf", k, digest>>
Inner(l, r) == <<"inner", l, r>>

\* One level of rootForEntries: pairs, the last of an odd number with Zero.
Paired(nodes) ==
    [i \in 1..((Len(nodes) + 1) \div 2) |->
        Inner(nodes[2 * i - 1],
              IF 2 * i <= Len(nodes) THEN nodes[2 * i] ELSE Zero)]

\* The levels above the leaves, as many as a tree of all keys can need.
Top(leaves) ==
    FoldLeft(LAMBDA nodes, i : IF Len(nodes) > 1 THEN Paired(nodes) ELSE nodes,
             leaves, [i \in 1..Cardinality(Key) |-> i])

RootForEntries(entries) ==
    LET present == SetToSortSeq({k \in Key : entries[k] # {}}, LAMBDA x, y : x < y)
    IN IF present = <<>> THEN EmptyRoot
       ELSE Top([i \in 1..Len(present) |-> Leaf(present[i], entries[present[i]])])[1]

NewTree == [entries |-> Empty, root |-> EmptyRoot, cached |-> FALSE]

\* The mutated form: a changed leaf leaves the cached root standing.
InsertCached(t, k, digest) == [t EXCEPT !.entries[k] = digest]

Insert(t, k, digest) ==
    IF t.entries[k] = digest THEN t
    ELSE [t EXCEPT !.entries[k] = digest, !.cached = FALSE]

\* Root answers from the cache when it holds the present generation's root.
Root(t) == IF t.cached THEN t.root ELSE RootForEntries(t.entries)

Cached(t) == [t EXCEPT !.root = Root(t), !.cached = TRUE]

(***************************************************************************)
(* stateStore.                                                             *)
(***************************************************************************)
Idle == [phase |-> "idle", claimed |-> "none"]

Init ==
    /\ states = [n \in Node |-> Empty]
    /\ tree = [n \in Node |-> NewTree]
    /\ file = [n \in Node |-> Empty]
    /\ left = [n \in Node |-> {Empty}]
    /\ sync = [c \in Client |-> Idle]
    /\ added = {} /\ faults = 0

Admits(n, k) ==
    states[n][k] # {} \/ Cardinality({j \in Key : states[n][j] # {}}) < MaxObjects

\* merge: join, write (a temporary file, a rename, a directory sync), and only
\* then memory and the tree.  An error after the rename leaves a new file.
Merge(n, k, incoming, done) ==
    LET joined == states[n][k] \cup incoming
        Written(d) == [d EXCEPT ![k] = joined]
    IN
    /\ Admits(n, k)
    /\ IF joined = states[n][k]
         THEN done /\ UNCHANGED <<states, tree, file, left, faults>>
         ELSE \/ /\ done
                 /\ states' = [states EXCEPT ![n] = Written(@)]
                 /\ tree' = [tree EXCEPT ![n] = Insert(@, k, joined)]
                 /\ file' = [file EXCEPT ![n] = Written(@)]
                 /\ left' = [left EXCEPT ![n] = {file'[n]}]
                 /\ UNCHANGED faults
              \/ /\ ~done /\ faults < MaxFaults /\ faults' = faults + 1
                 /\ file' = [file EXCEPT ![n] = Written(@)]
                 /\ left' = [left EXCEPT ![n] = @ \cup {Written(d) : d \in @}]
                 /\ UNCHANGED <<states, tree>>

\* gcounter-add, in a process of its own while no other uses the directory.
AddGCounter(n, k) ==
    /\ n \in Client => sync[n].phase = "idle"
    /\ Cardinality(added) < MaxAdds
    /\ <<n, k>> \notin added
    /\ added' = added \cup {<<n, k>>}
    /\ \E done \in BOOLEAN : Merge(n, k, {n}, done)
    /\ UNCHANGED sync

(***************************************************************************)
(* synchronize, one step per request.                                      *)
(***************************************************************************)
At(c, phase) == sync[c].phase = phase
Goto(c, s) == sync' = [sync EXCEPT ![c] = s]

\* The report, with whether it was true when the server answered.
Reported(c) == [phase |-> "idle", claimed |-> IF states[c] = states[Server]
                                              THEN "equal" ELSE "false"]

FetchRoot(c) ==
    /\ At(c, "idle")
    /\ tree' = [tree EXCEPT ![c] = Cached(@), ![Server] = Cached(@)]
    /\ IF Root(tree[c]) = Root(tree[Server]) THEN Goto(c, Reported(c))
       ELSE Goto(c, [phase |-> "inventory", root |-> Root(tree[Server])])
    /\ UNCHANGED <<states, file, left, added, faults>>

FetchInventory(c) ==
    /\ At(c, "inventory")
    /\ tree' = [tree EXCEPT ![Server] = Cached(@), ![c] = Cached(@)]
    /\ IF Root(tree[Server]) # sync[c].root THEN Goto(c, Idle)
       ELSE Goto(c, [phase |-> "repair", remote |-> states[Server],
                     local |-> states[c], todo |-> Key])
    /\ UNCHANGED <<states, file, left, added, faults>>

\* The next key that differs, in order; the others are skipped.
NextKey(c) == LET ks == {k \in sync[c].todo : sync[c].local[k] # sync[c].remote[k]}
            IN IF ks = {} THEN 0 ELSE Min(ks)

\* The state fetched must have the digest the inventory gave.
FetchState(c) ==
    LET k == NextKey(c) IN
    /\ At(c, "repair") /\ k # 0
    /\ sync[c].remote[k] # {}
    /\ IF states[Server][k] # sync[c].remote[k]
         THEN Goto(c, Idle) /\ UNCHANGED <<states, tree, file, left, faults>>
         ELSE \E done \in BOOLEAN :
                /\ Merge(c, k, states[Server][k], done)
                /\ Goto(c, CASE ~done -> Idle
                             [] done /\ sync[c].local[k] = {} ->
                                  [sync[c] EXCEPT !.todo = @ \ {k}]
                             [] OTHER -> [sync[c] EXCEPT !.remote[k] = {}])
    /\ UNCHANGED added

\* The server merges and answers 204, or the answer is lost.
PutState(c) ==
    LET k == NextKey(c) IN
    /\ At(c, "repair") /\ k # 0
    /\ sync[c].remote[k] = {}
    /\ \E done, answered \in BOOLEAN :
          /\ Merge(Server, k, states[c][k], done)
          /\ Goto(c, IF done /\ answered THEN [sync[c] EXCEPT !.todo = @ \ {k}]
                     ELSE Idle)
    /\ UNCHANGED added

FinalRoot(c) ==
    /\ At(c, "repair") /\ NextKey(c) = 0
    /\ tree' = [tree EXCEPT ![c] = Cached(@), ![Server] = Cached(@)]
    /\ Goto(c, IF Root(tree[c]) = Root(tree[Server]) THEN Reported(c) ELSE Idle)
    /\ UNCHANGED <<states, file, left, added, faults>>

\* A request fails, or the merge was refused: the repair ends with an error.
GiveUp(c) ==
    /\ ~At(c, "idle")
    /\ Goto(c, Idle)
    /\ UNCHANGED <<states, tree, file, left, added, faults>>

\* A process stops and openStateStore reads the directory.
Restart(n) ==
    /\ faults < MaxFaults /\ faults' = faults + 1
    /\ \E d \in left[n] :
          /\ states' = [states EXCEPT ![n] = d]
          /\ file' = [file EXCEPT ![n] = d]
          /\ left' = [left EXCEPT ![n] = {d}]
          /\ tree' = [tree EXCEPT ![n] = [NewTree EXCEPT !.entries = d]]
    /\ sync' = IF n = Server THEN sync ELSE [sync EXCEPT ![n] = Idle]
    /\ UNCHANGED added

Next ==
    \/ \E n \in Node, k \in Key : AddGCounter(n, k)
    \/ \E c \in Client :
          \/ FetchRoot(c) \/ FetchInventory(c) \/ FetchState(c) \/ PutState(c)
          \/ FinalRoot(c) \/ GiveUp(c)
    \/ \E n \in Node : Restart(n)

Spec == Init /\ [][Next]_vars

-----------------------------------------------------------------------------
\* A state a process ever answered with survives its crash: the files a power
\* failure may leave count every increment memory counts.
StatesDurable ==
    \A n \in Node, k \in Key : \A d \in left[n] : states[n][k] \subseteq d[k]

\* A repair reports success only if, when the server gave its last answer,
\* the two directories held the same states: cached roots, keys that were
\* changed by other clients since the inventory and lost answers included; and
\* what was repaired stays repaired across a crash.
NoFalseSuccess ==
    /\ StatesDurable
    /\ \A c \in Client : sync[c].phase = "idle" => sync[c].claimed # "false"
=============================================================================

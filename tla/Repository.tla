----------------------------- MODULE Repository -----------------------------
(***************************************************************************)
(* The content-addressed version store of history/repository.go.           *)
(*                                                                         *)
(* A version is its parents and its state, and is its own address, as the  *)
(* SHA-256 of the two is in the code.  Every call runs under the lock      *)
(* except Fork, which reads the source's head under one lock and creates   *)
(* the branch under the next, so other calls fall between.  bytes is the   *)
(* running total versionBytes that the limit on the encoded record is      *)
(* decided with; a commit or a new branch that would break the limit is    *)
(* made and then taken back.  The process may stop anywhere and restarts   *)
(* from the record it last saved.                                          *)
(***************************************************************************)
EXTENDS Integers, FiniteSets, FiniteSetsExt, Functions

CONSTANTS
    Name,             \* branch names
    State,            \* snapshots a host may commit, by their encoded size
    MaxVersions,      \* RepositoryOptions.MaxVersions
    MaxBranches,      \* RepositoryOptions.MaxBranches
    MaxParents,       \* RepositoryOptions.MaxParents
    MaxEncodedBytes   \* RepositoryOptions.MaxEncodedBytes, in addresses

VARIABLES
    repo,    \* Repository: versions, branches (a head, or NoHead), bytes
    fork,    \* the Fork call between its two locks, or NoFork
    saved    \* the record written last

vars == <<repo, fork, saved>>

NoHead == [parents |-> {}, state |-> 0]
NoFork == [target |-> "none", head |-> NoHead]
NewRepository == [versions |-> {}, branches |-> << >>, bytes |-> 0]

Init ==
    /\ repo = NewRepository
    /\ fork = NoFork
    /\ saved = [versions |-> {}, branches |-> << >>]

\* encodedRecordSize: the address, the parents' addresses and the state.
RecordSize(v) == 1 + Cardinality(v.parents) + v.state

\* encodedSizeLocked: the running total and the branch table.
EncodedSize(r) ==
    r.bytes + FoldFunction(LAMBDA h, n : n + IF h = NoHead THEN 1 ELSE 2,
                           0, r.branches)

WithHead(r, b, head) ==
    [r EXCEPT !.branches = [n \in DOMAIN r.branches \cup {b} |->
                               IF n = b THEN head ELSE r.branches[n]]]

\* CreateBranch; a refused branch is deleted again.
CreateBranch(b, from) ==
    /\ b \notin DOMAIN repo.branches
    /\ Cardinality(DOMAIN repo.branches) < MaxBranches
    /\ from \in repo.versions \cup {NoHead}
    /\ LET grown == WithHead(repo, b, from) IN
       repo' = IF EncodedSize(grown) <= MaxEncodedBytes THEN grown ELSE repo

\* The first half of Fork, under the read lock.
ForkRead(target, source) ==
    /\ fork = NoFork
    /\ source \in DOMAIN repo.branches
    /\ repo.branches[source] # NoHead
    /\ fork' = [target |-> target, head |-> repo.branches[source]]
    /\ UNCHANGED <<repo, saved>>

\* The second half: CreateBranch at the head that was read.
ForkCreate ==
    /\ fork # NoFork
    /\ IF /\ fork.target \notin DOMAIN repo.branches
          /\ Cardinality(DOMAIN repo.branches) < MaxBranches
         THEN CreateBranch(fork.target, fork.head)
         ELSE UNCHANGED repo
    /\ fork' = NoFork
    /\ UNCHANGED saved

\* The mutated form: a commit taken back leaves its size in the total.
RollbackKeepingSize(r, b, previous, v, new) ==
    [WithHead(r, b, previous) EXCEPT
        !.versions = IF new THEN @ \ {v} ELSE @]

\* The end of commitLocked when the record would be too large.
Rollback(r, b, previous, v, new) ==
    [WithHead(r, b, previous) EXCEPT
        !.versions = IF new THEN @ \ {v} ELSE @,
        !.bytes = IF new THEN @ - RecordSize(v) ELSE @]

CommitLocked(b, parents, s) ==
    LET v == [parents |-> parents, state |-> s]
        new == v \notin repo.versions
        grown == [WithHead(repo, b, v) EXCEPT
                     !.versions = @ \cup {v},
                     !.bytes = IF new THEN @ + RecordSize(v) ELSE @]
    IN
    /\ Cardinality(parents) <= MaxParents
    /\ parents \subseteq repo.versions
    /\ new => /\ Cardinality(repo.versions) < MaxVersions
              /\ RecordSize(v) <= MaxEncodedBytes
    /\ repo' = IF EncodedSize(grown) <= MaxEncodedBytes THEN grown
               ELSE Rollback(grown, b, repo.branches[b], v, new)
    /\ UNCHANGED <<fork, saved>>

Commit(b, s) ==
    /\ b \in DOMAIN repo.branches
    /\ CommitLocked(b, {repo.branches[b]} \ {NoHead}, s)

Merge(target, source, s) ==
    /\ {target, source} \subseteq DOMAIN repo.branches
    /\ NoHead \notin {repo.branches[target], repo.branches[source]}
    /\ CommitLocked(target, {repo.branches[target], repo.branches[source]}, s)

\* What MarshalBinary can write and NewRepositoryFromBinary accepts.
Sum(r) == FoldSet(LAMBDA v, n : n + RecordSize(v), 0, r.versions)

Marshals(r) ==
    /\ Cardinality(r.versions) <= MaxVersions
    /\ Cardinality(DOMAIN r.branches) <= MaxBranches
    /\ EncodedSize([r EXCEPT !.bytes = Sum(r)]) <= MaxEncodedBytes
    /\ Range(r.branches) \subseteq r.versions \cup {NoHead}

Unmarshals(r) ==
    \A v \in r.versions : /\ Cardinality(v.parents) <= MaxParents
                          /\ v.parents \subseteq r.versions

Save ==
    /\ Marshals(repo)
    /\ saved' = [versions |-> repo.versions, branches |-> repo.branches]
    /\ UNCHANGED <<repo, fork>>

Restart ==
    /\ Unmarshals(saved)
    /\ repo' = [versions |-> saved.versions, branches |-> saved.branches,
                bytes |-> Sum(saved)]
    /\ fork' = NoFork
    /\ UNCHANGED saved

Next ==
    \/ \E b \in Name, from \in repo.versions \cup {NoHead} :
           CreateBranch(b, from) /\ UNCHANGED <<fork, saved>>
    \/ \E target, source \in Name : ForkRead(target, source)
    \/ ForkCreate
    \/ \E b \in Name, s \in State : Commit(b, s)
    \/ \E target, source \in Name, s \in State : Merge(target, source, s)
    \/ Save
    \/ Restart

Spec == Init /\ [][Next]_vars

-----------------------------------------------------------------------------
\* A repository can always be saved, the saved record is always accepted,
\* and restoring it gives the repository back, its running byte total
\* included, however many commits and branches were taken back, whatever ran
\* between the two halves of a Fork and however often the process restarted.
Restorable ==
    /\ Marshals(repo)
    /\ Unmarshals(repo)
    /\ repo.bytes = Sum(repo)
=============================================================================

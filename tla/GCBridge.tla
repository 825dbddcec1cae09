------------------------------ MODULE GCBridge ------------------------------
(***************************************************************************)
(* membership.Manager and membership.GCBridge (membership/manager.go,      *)
(* receipt.go, view.go) driving one tombstonegc.Coordinator in a process   *)
(* that may crash.                                                         *)
(*                                                                         *)
(* A signed view is an index into `views'; the index stands for the view's *)
(* hash, so equal indices are equal views and an authority that signs two  *)
(* successors of one view produces two indices with one epoch.  Receipts   *)
(* are signed by members and may reach the bridge late, repeatedly, out of *)
(* order or never.                                                         *)
(*                                                                         *)
(* Locks.  Install holds m.mu for writing from its checks to the end, with *)
(* the store written in between; Apply holds b.mu throughout, m.mu for     *)
(* reading only while it copies the view, and the coordinator's locks      *)
(* later, when another view may already be installed.                      *)
(***************************************************************************)
EXTENDS Coordinator, Sequences

CONSTANTS Bridge,     \* the bridge: the only caller that is ever active
          MaxViews,   \* bound on signed views
          MaxInc,     \* bound on incarnations
          MaxSeq,     \* bound on receipt sequence numbers per member
          MaxReceipts \* bound on receipts of all members

ASSUME BridgeAssumption == Bridge \in Caller

VARIABLES views,      \* every view the authority signed
          view,       \* m.view
          stored,     \* the view in the ViewStore
          installing, \* a view that Install saved and has not fenced yet, or 0
          signed,     \* receipts signed so far
          lastSeq,    \* b.lastSeq
          applying    \* the receipt Apply is working on, or {}

coordinator == vars
manager == <<view, stored, installing>>
bridge == <<lastSeq, applying>>
bridgeVars == <<coordinator, manager, bridge, views, signed>>

\* The members of view v; views[v].inc[m] is m's incarnation in it, or 0.
Active(v) == {m \in Member : views[v].inc[m] > 0}

\* NewManager with the first view of the group.
BridgeInit ==
    /\ Init
    /\ views = <<[epoch |-> 1, prev |-> 0,
                  inc |-> [m \in Member |-> IF m \in members THEN 1 ELSE 0]]>>
    /\ view = 1 /\ stored = 1 /\ installing = 0
    /\ signed = {}
    /\ lastSeq = [m \in Member |-> 0]
    /\ applying = {}

\* The authority signs a successor of any view: it retires members and admits
\* members, the latter with a new incarnation.
Issue(parent) ==
    /\ Len(views) < MaxViews
    /\ views[parent].epoch < MaxEpoch
    /\ \E inc \in [Member -> 0..MaxInc] :
          /\ \E m \in Member : inc[m] > 0
          /\ \A m \in Member :
                IF views[parent].inc[m] > 0
                THEN inc[m] \in {0, views[parent].inc[m]}
                ELSE inc[m] \in {0} \cup {i \in 1..MaxInc :
                                             \A v \in DOMAIN views : i > views[v].inc[m]}
          /\ views' = Append(views, [epoch |-> views[parent].epoch + 1, prev |-> parent,
                                     inc |-> inc])
    /\ UNCHANGED <<coordinator, manager, bridge, signed>>

\* A member signs a receipt for a view it is active in.
SignReceipt(m, v, tags) ==
    LET used == {r.seq : r \in {s \in signed : s.member = m}}
        next == Cardinality(used) + 1 IN
    /\ m \in Active(v)
    /\ next <= MaxSeq
    /\ Cardinality(signed) < MaxReceipts
    /\ signed' = signed \cup {[view |-> v, member |-> m, inc |-> views[v].inc[m],
                               seq |-> next, tags |-> tags]}
    /\ UNCHANGED <<coordinator, manager, bridge, views>>

\* Install's tests: a direct successor of the installed view.
Successor(v) == views[v].epoch = views[view].epoch + 1 /\ views[v].prev = view

\* Install up to the end of SaveView.
InstallSave(v) ==
    /\ installing = 0
    /\ Successor(v)
    /\ stored' = v
    /\ installing' = v
    /\ UNCHANGED <<coordinator, view, bridge, views, signed>>

\* SaveView wrote the view and then reported an error: Install returns it.
InstallSaveAmbiguous(v) ==
    /\ installing = 0
    /\ Successor(v)
    /\ stored' = v
    /\ UNCHANGED <<coordinator, view, installing, bridge, views, signed>>

\* Install from InstallMembership to its end.
InstallFence ==
    /\ installing # 0
    /\ InstallMembership(views[installing].epoch, Active(installing))
    /\ view' = installing
    /\ installing' = 0
    /\ UNCHANGED <<stored, bridge, views, signed>>

\* Mutated form: receipts are bound to the epoch, not to the view's hash.
CurrentByEpoch(r) ==
    /\ views[r.view].epoch = views[view].epoch
    /\ r.inc = views[view].inc[r.member]
    /\ r.seq > lastSeq[r.member]

\* Apply's tests against the view it copied and against lastSeq.
Current(r) ==
    /\ r.view = view
    /\ r.inc = views[view].inc[r.member]
    /\ r.seq > lastSeq[r.member]

\* Apply up to the replay test; m.mu must be free for a reader.
ApplyCheck(r) ==
    /\ applying = {}
    /\ installing = 0
    /\ Current(r)
    /\ applying' = {r}
    /\ UNCHANGED <<coordinator, manager, lastSeq, views, signed>>

\* AcknowledgeAndCompact starts, with the epoch of the receipt.
ApplyRead(r) ==
    /\ r \in applying
    /\ ReadCandidates(Bridge, [member |-> r.member, epoch |-> views[r.view].epoch,
                                  tags |-> r.tags])
    /\ UNCHANGED <<manager, bridge, views, signed>>

\* The coordinator decides; when it rejects the report Apply returns the error.
ApplyDecide(r) ==
    /\ r \in applying
    /\ Decide(Bridge)
    /\ applying' = IF call'[Bridge] = Idle THEN {} ELSE applying
    /\ UNCHANGED <<manager, lastSeq, views, signed>>

\* The target is compacted and the sequence number recorded.
ApplyCompact(r) ==
    /\ r \in applying
    /\ CompactTarget(Bridge)
    /\ lastSeq' = [lastSeq EXCEPT ![r.member] = r.seq]
    /\ applying' = {}
    /\ UNCHANGED <<manager, views, signed>>

\* A deletion reaches the local target; the host prunes proofs.
Locally ==
    /\ \/ \E t \in Tag : Delete(t)
       \/ \E tags \in (SUBSET Tag) \ {{}} : Prune(epoch, tags)
    /\ UNCHANGED <<manager, bridge, views, signed>>

\* A new process: a manager at view v, saved, and an empty bridge.
Reset(v) ==
    /\ view' = v
    /\ stored' = v
    /\ installing' = 0
    /\ lastSeq' = [m \in Member |-> 0]
    /\ applying' = {}
    /\ NewCoordinatorAtMembership(views[v].epoch, Active(v))
    /\ UNCHANGED <<views, signed>>

\* Mutated form: the restarted process reads the authority's newest view and
\* keeps its acknowledgements.
OpenManagerKeepsAcks ==
    /\ view' = stored
    /\ installing' = 0
    /\ lastSeq' = [m \in Member |-> 0]
    /\ applying' = {}
    /\ epoch' = views[stored].epoch
    /\ members' = Active(stored)
    /\ call' = [p \in Caller |-> Idle]
    /\ reported' = IF views[stored].epoch = epoch THEN reported ELSE NoAcks
    /\ UNCHANGED <<acks, counts, entries, target, stored, views, signed>>

\* Crash at any point, then OpenManager and NewGCBridge.
OpenManager == Reset(stored)

\* "the currently authoritative view from its control plane": one of the newest
\* epoch, and newer than the process has stored.  NewManager tests neither; the
\* host that passes the view answers for it.
Authoritative(v) ==
    /\ \A w \in DOMAIN views : views[w].epoch <= views[v].epoch
    /\ views[v].epoch > views[stored].epoch

\* Crash, then NewManager with the authoritative view and NewGCBridge.
NewManager(v) == Authoritative(v) /\ Reset(v)

BridgeNext ==
    \/ \E v \in DOMAIN views :
          \/ Issue(v)
          \/ InstallSave(v) \/ InstallSaveAmbiguous(v)
          \/ NewManager(v)
          \/ \E m \in Member, tags \in (SUBSET Tag) \ {{}} : SignReceipt(m, v, tags)
    \/ InstallFence
    \/ OpenManager
    \/ \E r \in signed : ApplyCheck(r) \/ ApplyRead(r) \/ ApplyDecide(r) \/ ApplyCompact(r)
    \/ Locally

BridgeSpec == BridgeInit /\ [][BridgeNext]_bridgeVars

----------------------------------------------------------------------------
\* Between calls of Install the coordinator works on the installed view, and
\* the store is never behind it: a restart can only move the fence forward.
FenceMatchesView ==
    /\ epoch = views[view].epoch /\ members = Active(view)
    /\ stored # view => views[stored].prev = view
    /\ installing # 0 => stored = installing

\* A tombstone is collected only if every member of the installed view, in its
\* current incarnation, signed a receipt with that tag bound to that very view;
\* receipts of earlier views, of sibling views of the same epoch and of earlier
\* incarnations, replays and restarts never count.
CollectedWithReceipts ==
    [][\A t \in target \ target' : \A m \in Active(view) :
          \E r \in signed : /\ r.member = m /\ r.view = view
                            /\ r.inc = views[view].inc[m] /\ t \in r.tags]_bridgeVars

\* Both together: collection runs under the fence of the installed view, and
\* what it collects every member of that view has signed for.
CollectedUnderFence == []FenceMatchesView /\ CollectedWithReceipts

\* The bridge and the manager drive the coordinator only by its own operations,
\* so what is proved about the coordinator holds inside this composition.
RefinesCoordinator == Spec
=============================================================================

# TLA+ models of the crdt library

This directory models the protocols and data types of the Go module
`github.com/darkinno-tech/crdt`: how replicas name their mutations, how changes
are delivered, stored and relayed, how replicated values converge, how local
history, checkpoints and presence behave around them, and when deletion markers
may be forgotten. `PROJECT.json` maps every definition to the lines it models and
lists runs, mutated forms, hazards and theorems.

Paths such as `clock/hlc.go` are relative to the repository (`src/`).

## 1. The system and its parts

The library has four layers. A host program embeds it: it calls the data types,
persists their snapshots, and hands encoded deltas to a transport.

**Naming mutations.** `clock.HLC` issues tags (wall time, logical counter,
replica). Everything ordered by tags (OR-Set, LWW map, texts, lists, trees) relies
on tags never being reused and on a new tag being above what was seen. Hard part:
the physical clock is read before the lock; overflow; restarts.

**Replicated values.** State-based CRDTs with deltas: counters (`counter`), G-Set
and OR-Set (`set`), LWW map and set (`lww`), LWW, Max and multi-value registers
(`register`), text (`text`), lists with and without moves (`list`), OR-Tree
(`tree`), compositions (`documenttree`, `richtext`, `xml`, `attachment`). Hard
part: deltas arrive repeated, reordered, through third parties; several operations
take more than one critical section; a restored replica must not reuse a name;
replicas with different limits must not end up different for good.

**Delivery and storage.** `replica.Inbox` installs the changes of every actor in
counter order through a bounded buffer. `delta.Coalescer` queues deltas and joins
them outside its lock. `durable` is a relay: a store with one sequence of events,
a WebSocket handler that replays and then streams them, and a reconnecting client
with an outbox and a resume cursor. `providers` put the store on SQL or Redis;
`extensions` has live groups over WebSocket, HTTP and gRPC and a relay of Yjs
rooms; `merkle` and `crdt-merkle-sync` repair directories; `persistence` and
`history` store checkpoints, versions and undo records; `observe`, `awareness`
and `shared` notify the application.

**Forgetting.** A tombstone may be dropped when every member has it durably.
`tombstonegc.Coordinator` counts acknowledgements per membership epoch;
`membership.Manager` installs signed views that fence the coordinator;
`membership.GCBridge` turns signed receipts into acknowledgements;
`membership.Gossip` is an advisory failure detector.

| Part | Source | Model | Run | Main properties |
|---|---|---|---|---|
| tags, clock | `crdt.go`, `clock/hlc.go` | `Tags`, `HLC` | `services` | no tag twice, also across restarts; a tag exceeds all it follows |
| inbox | `replica/replica.go` | `Inbox`, `InOrderDelivery` | `inbox` | in-order installation, exact buffer accounting, progress with the smallest buffer |
| replica session, checkpoint stores | `replica/replica.go`, `persistence/` | `CheckpointStore` | `services` | what was acknowledged survives a crash; one recovery base per group |
| coalescer | `delta/batch.go` | `Coalescer` | `services` | an accepted delta is in exactly one place, a refused one nowhere |
| sets, counters, registers, LWW types, attachments | `set/`, `counter/`, `register/`, `lww/`, `attachment/` | `ORSet`, `Counters`, `MVRegister`, `LWW`, `Replicas` | `replicas` | what is shown depends only on the updates heard of; names are unique; own writes win |
| locks of merging sets | `set/orset.go` | `MergeLocks` | `services` | no deadlock, one writer |
| text | `text/rga.go`, `sequence.go`, `snapshot_delta.go` | `RGAState`, `RGA` | `replicas` | order given by the tree, exact indexes, edits land where they were made |
| undo, anchors | `text/undo.go`, `text/anchor.go` | `Undo` | `structures` | undo takes back the last edit and nothing else |
| lists, XML | `list/`, `xml/fragment.go` | `ListRGA`, `MoveList` | `structures` | what is shown is a function of what was heard of; an edit does what it says |
| OR-Tree, document tree, rich text | `tree/`, `documenttree/`, `richtext/` | `ORTree`, `DocumentTree`, `RichText` over `Forest` | `structures` | the same; nothing another replica accepted is taken for corrupt |
| shared document | `shared/document.go` | `SharedDocument` | `services` | one root per name, every local update handed over once |
| presence | `awareness/` | `Awareness` | `awareness` | only news revives, subscribers end up with the final view |
| observers | `observe/observe.go` | `Observers` | `services` | a subscriber that stays gets the newest value, in order |
| history, versions | `history/` | `HistoryManager`, `Repository` | `services` | undo and redo retrace; every version can be restored |
| durable relay | `durable/` | `DurableRelay` | `relay` | every dot once, streams without gaps, safe resume, writing only after the replay, eventual settlement |
| storage providers | `providers/` | `ProviderLog` | `services` | no append lost or doubled, complete replays |
| live groups | `extensions/{group,handler,grpc,...}.go` | `RelayGroup` | `services` | a stream has no gap or is cut |
| Yjs rooms | `extensions/yjs*.go` | `YjsRoom` | `services` | no update missed, presence settles |
| Merkle repair | `merkle/tree.go`, `cmd/crdt-merkle-sync` | `MerkleSync` | `services` | success means equal directories, also after a crash |
| GC coordinator, views, receipts | `tombstonegc/`, `membership/` | `Coordinator`, `GCBridge` | `gcbridge` | exact counters, collects only what all members acknowledged |
| gossip | `membership/gossip.go` | `Gossip` | `services` | suspicion is justified, revival needs a newer heartbeat |

About three lines in ten of the Go code outside tests are the source of some
definition.

## 2. Modules

Every component has one module with its state, `Init`, one action per operation
or critical section, and its properties. Definitions whose comment starts with
"Mutated form" are deliberately wrong variants of the definition that follows
them: replacing the definition by its variant must violate the property that
`PROJECT.json` pairs with it.

Data is abstracted, control is not. A payload is a model value, its size a small
number; a signature is the record of what it binds; a digest is the term it was
taken of; an encoded delta is the partial state it carries. Errors that return
before any change of state are disabled actions; errors that leave something
behind are actions or branches.

**Tags, HLC.** `Tags` holds the pure part: comparing, advancing and witnessing,
with words bounded by `MaxWord` in the place of `math.MaxUint64`. `HLC` splits
`Now` and `Witness` at the lock, because the physical reading precedes it
(`ReadNow`/`LockNow`). `released` are tags that left the process, `durable` the
saved clock; `Restart` keeps only the latter. The host's duty stated in the
comment of `clock.State`, to persist before a tag is used, is the guard of
`Release`.

**Inbox.** `Receive` is `Buffer` or `InstallNext` followed by `Drain` steps;
`draining` stands for `i.mu`. `Offer` is everything the transport may deliver, at
any time and any number of times, including two changes with one dot. `applied`
is the host's persistent log. `InOrderDelivery` is the abstract specification:
logs grow by the next change or fall back to what was saved.

**ORSet, LWW, MVRegister, Counters, Replicas.** The first four are pure: the
states of the data types and what one critical section does to them. `Replicas`
is the system around them; `kind`, chosen in `Init`, says which of ten types the
replicas hold. A write is one step (`Write`), or `TakeTag` and `FinishWrite`
where the code takes its tag before the mutex. `ApplyDelta` is one step, or
`ApplyCheck`, `ApplyWitness` and `ApplyJoin` where the code releases the lock in
between. Deltas stay in `unsent`, where they may be joined, until the host has
saved the state (`Save`), and are then in `net`, from where any replica may
receive them any number of times, in any order or never. Joining the deltas of a
last-writer-wins map refuses two writes with one tag (`MergeDelta`). `Merge` takes
in a complete state another replica saved. `Restart` is a crash followed by a restore.
`Collectable` is the contract that the comments of the compaction operations put
on their callers: every replica has the tombstone in a saved state, and no delta
in flight would be revived by forgetting it. `seen` is history: the updates a
replica has heard of, so that `Resolved` compares the state with a reference
definition computed from updates.

**RGAState, RGA.** `RGAState` is one text: integrated and pending nodes,
tombstones, the order as a list of enter and exit markers (the treap of
`sequence.go` is an index over that list), the visible positions, the index of
children. `ApplyDelta` keeps the two paths of the code, the fast path for a
linear run and the general plan with its limits. `RGA` adds replicas: an edit
reads positions, takes one tag per character and is applied, while other
goroutines apply remote deltas in between. `Acknowledged` is the contract of
`CompactTombstones`: an exact-acknowledgement epoch whose deltas are retired,
with the compacted state saved. It is assumed in its strong reading, in which
every replica holds the nodes of the tombstones and has no edit in progress.

**Forest, ListRGA, MoveList, ORTree, DocumentTree, RichText, Undo, Structures.**
The first seven are pure, `Structures` is the system around them, in the manner
of `Replicas`. `Forest` has what lists, trees and arrays share: nodes that name
their parent, and the walk that orders them. A local edit of a list,
`ORTree.Remove` and the calls of the undo manager read positions, take tags and
apply in three kinds of steps; every other edit is one critical section. `seen`
is history: the records a replica has heard of. `EditTakesEffect` and
`UndoTakesBack` apply every edit, and the top of every undo stack, in every
reachable state and compare what is shown with a plain list, tree, map or
formatted text. An XML fragment is the list it wraps.

The projection of a list with moves attaches elements from the newest placement on
and drops an attachment that would close a cycle (`WouldCycle`). Its replicas start
with three elements, so that cycles through two and through three of them come
about. `SavedClocks` is the one place where a save is not a single section: MoveRGA
reads its clock after it released the lock on its state, and the clock saved may be
later than the state. The limits of a document tree on what is pending count
records (`Count`) and their size (`Bytes`, in tags). The undo manager refuses an
edit that is larger than its history (`Recordable`). A rich text whose clock cannot
witness the tags of a transaction's marks keeps the text and returns no delta
(`RichText!Outcomes`).

**Awareness, Observers.** Goroutines call the store, run under its lock, give
events to the mailbox of one subscriber after the other, and unlock; subscriber
goroutines take them. In both the event and the token on the wake channel are
separate steps.

**Coordinator, GCBridge.** `Coordinator` splits `AcknowledgeAndCompactTarget` into
its read of the candidates, the decision under the lock, and the removal from the
target. `GCBridge` extends it with the authority that issues views (also forks),
members that sign receipts, the manager's two-step `Install` (store, then fence)
with ambiguous store errors, and crashes; it drives the coordinator's own actions
and is checked to implement its specification. The constructor
`NewCoordinatorAtMembership` takes any membership; that the host resumes at the
stored one or a later one is its contract, the guard of `Coordinator!Restart` and
`GCBridge!Authoritative`. The bridge's lock admits one caller,
so concurrent callers of a bare coordinator, its `Acknowledge` and its
`ReplaceMembership` are covered by the proofs and not by a run.

**DurableRelay.** One server and clients that resume by cursor, by state vector or
by Merkle inventory (`mode`). `log` is the committed log, `queue` the bounded queue
of a connected peer, `pipe` and `up` the bytes in flight, `cursor` and `memory` the
client's memory, and `installed`, `resume` and `outbox` what the host behind it
made durable. `Connect` and `ConnectMerkle` are the handshake with replay and
registration up to the welcome; for a Merkle client the inventory, the request
(`RequestMerkle`) and the answer (`AnswerMerkle`) follow, while live events wait
in the queue. An append with its fan-out is one step under the group's lock.
Connections break at any step, and changes already sent on a dead connection may
still be read by the server (`stale`). `run` says whether `Run` is active:
it returns when the client cannot be brought up to date, and also when a
connection is lost before the welcome or during a Merkle catch-up, which it takes
for an invalid message; `RunAgain` is the host calling it again. `writer` says
whether the goroutine that publishes was started. `WritesAfterReplay` relates it to
what the host holds: a client that writes has installed every event that the log
held at its welcome, in each protocol and whatever failed in between. Removing a
change from the outbox when its event is installed is the host's part, and
external.

**ProviderLog.** Relay processes that append to and replay one group's log in a
database. The database is external: a row lock, transactions whose writes appear
together, snapshots for replays, scripts that run alone. Any statement may fail,
and the answer to a commit may be lost.

**RelayGroup.** One live group, its WebSocket, batch, event-stream and gRPC
subscribers, and the clients. `rx` is the holder of the receive lock, which goes
through the inbox (`Receive`), the snapshot of the peer table (`Snapshot`) and one
queue after the other (`Broadcast`); `peer` and `client` are the two ends of a
connection with everything under way between them.

**YjsRoom.** A room with or without a store, its connections and the server-side
agent. Handlers hold the lock of the room for one message and its fan-out; a
connection leaves, is cut, or is replaced at any step. The answer to an awareness
query is a copy made under that lock (`QueryAwareness`) and enqueued message by
message after it (`Reply`), while others change the room.

**MerkleSync.** The tree (`Insert`, cached roots) and the repair of a directory,
request by request, against a server that other clients change meanwhile, with
lost answers, failing writes and crashes.

**CheckpointStore, HistoryManager, Repository, Coalescer, Gossip, MergeLocks,
SharedDocument.** Each splits its operations where the code releases its lock or
where a crash leaves something behind: `replaceFile` after each of its steps,
the executor's effect and the bookkeeping after it, the two locks of `Fork`, the
merge that `Add` runs outside its lock, the locks of `sync.RWMutex` with its
waiting writer, the handlers that run after the mutation.

## 3. Runs

`MCInbox`, `MCDurableRelay`, `MCReplicas` and `MCServices` give constants their
values; `RelayGroup`, `GCBridge`, `Structures`, `Awareness` and `RGA` are
configured directly. `MCReplicas` and `MCServices` combine parts that share no
state: the variable `kind` or `part`, chosen in the initial state, says which one
a behaviour is about, and its variables are shared slots, so the state space is
the sum of those of the parts.

| Run | Shows | Distinct states | Bounds |
|---|---|---|---|
| `services` | thirteen parts, see section 1 | 3.8 million | below |
| `inbox` | in-order delivery, exact accounting, refinement, progress | 3,000 | 2 actors with one reused dot and one large change, buffer of 2 changes and 3 bytes |
| `gcbridge` | counters, receipts and views | 2.3 million | 2 members, 1 tag, 4 views (a chain, or a fork whose branch not taken has a successor), 2 incarnations, 2 sequence numbers, 2 receipts |
| `relay` | log, streams, cursors, start of the writer, settlement | 262,000 | 2 clients in 3 pairings of protocols, queues of 1, replay window of 2, inventories of 3, seven starts: up to 3 missed events, a change of one or both hosts, one dot with two contents |
| `replicas` | ten data types and the text | 855,000 | 2 replicas, 2 elements, 2 values, words 0..1, components up to 2, 2 to 4 writes, one replica retains 1 entry and admits 1 value, the other 2; texts: 3 edits, crashes and compactions altogether, up to 2 characters each, 4 nodes, 2 tombstones, 2 pending nodes |
| `structures` | lists, moves, trees, documents, rich texts, undo | 188,000 | 2 replicas, 2 edits (3 with undo) after 0 or 1 seeded elements, 3 in lists with moves; one restart, exchange or repetition, 4 nodes, 2 tombstones, 2 pending nodes, 5 units of pending size |
| `awareness` | revival, final view | 1.6 million | 2 callers, the expiry loop, 2 subscribers, 3 calls, one local and two remote actors with room for 2, clocks up to 2, 3 instants |
| `grpc_slow`, `rga_replace`, `awareness_lock`, `movelist_read`, `provider_replay` | violated: see section 6 | | similar |

In `services`: 2 callers of the clock with words 0..2, so that both overflow; 2
detectors, 5 instants; 2 batching goroutines, 4 deltas of 2 types, 2 tries, 2
drains; 2 scopes, stacks of 2, 3 calls and a remote change; 2 branches, 3
versions; 2 records, 3 writes, both stores, before and after a change of format;
2 subscribers, 2 versions; 2 repairing clients, 2 keys, 2 additions, 1 fault; 2
connections of any 2 transports, queues of 2 messages and 2 bytes, 2 publications,
1 failure; 2 connections to a Yjs room and the agent, 2 updates, 3 reads; 2 relay
processes, 5 changes that conflict, fit or do not, 4 calls; 3 goroutines merging 3
sets; 3 goroutines on 2 shared documents, 2 updates.

The bounds are the smallest that let the interesting cases happen: queues are
smaller than what is offered to them, counters reach their maximum, replicas can
be behind, ahead and concurrent. Every property has a mutated form of the code
that violates it under the same bounds. Larger instances were explored without a
violation: trees and undo with 3 edits (1.1 million and 0.8 million states),
documents with 3 edits, rich texts with 2 seeded characters, Merkle repair with 3
additions, Yjs rooms with 4 reads (7.9 million), shared documents with 3 updates
(2.0 million).

What the bounds leave out: in `relay` the log has room for all changes, so a full
store, which settles nothing, is not reached; in `replicas` and `structures` the
words of a text's or a list's clock do not run out (the clock and the ten types
cover that); `MinRun` 2 stands for the run length from which the code takes its
fast path; in `awareness` every state passes `Normalize` (`awareness_lock` has the
other case) and the limit on subscriptions is not reached.

Symmetry is used where the values are compared by equality alone and no liveness
is checked: elements, callers and members. `services`
and `awareness` allow the system to stop (all calls made, all time passed); in the other
passing runs deadlock is checked.

## 4. Fairness

`inbox` assumes that the transport keeps retransmitting each change and that
apply does not fail on one change for ever (strong fairness per change), that a
call holding `i.mu` finishes, and, in the property, that crashes stop. Nothing is
assumed about which change arrives first.

`relay` assumes weak fairness of each step of the reader, the writer, the client
loop and the host, because the Go scheduler runs a goroutine that stays runnable,
and that faults stop eventually: after the last fault nothing but the code may
prevent progress. `ReconnectClient.Run` retries for ever, which justifies fairness
of `Connect`; a host that wants to stay connected calls `Run` again after it
returned (`RunAgain`) and installs a checkpoint when it is told to (`Bootstrap`).
Excepted are a host that holds a change whose dot the log has bound to other
content, because the store refuses that change for ever, and a Merkle client
beyond the handler's limits: neither the inventory nor the request is ever cut
into pieces that fit.

`awareness` and `awareness_lock` assume weak fairness of each goroutine's next
step, callbacks that return or panic, an expiry loop that keeps ticking, and time
that passes. Nobody has to call or to unsubscribe.

`grpc_slow` assumes weak fairness of every step of the server's goroutines that
does not wait for the other side. Clients need not do anything.

## 5. Proofs

The theorems hold for every value of the constants (number of callers, actors,
members, subscribers, processes and tags; word size; buffer size), under the
assumptions stated in the modules that declare them: word and buffer bounds are
naturals, sizes are naturals, the set of members is finite, lock ids are naturals
with a greatest one, a dot and a body make one change.

* `HLCProofs`. The invariant is `TypeOK /\ ClockDominates /\ TagsUnique`.
  Uniqueness alone is not inductive: `ClockDominates` adds that the clock is at
  least every tag held, released or witnessed, and the saved clock at least every
  tag released. Lemmas: the order on stamps is transitive, `Now` and `Witness`
  strictly advance.
* `InboxProofs`. The invariant joins the type, `frontier = Lengths(applied)`, that
  `applied` and `durable` are prefixes of offered changes, `PendingBeyondFrontier`,
  finiteness of the buffer and `CountExact`. Lemmas: installing the next dot
  extends a prefix; removing an installed dot keeps the count exact. Results: the
  type, all invariants but the byte count, `BufferedNotLost`, and the refinement
  of `InOrderDelivery`.
* `CoordinatorProofs`. The invariant adds to `CountsExact` that every recorded
  acknowledgement was reported in the current epoch, and that every decision not
  yet executed was fully acknowledged and is protected from a membership change
  by the reader lock. The second part is about `GCBridge`. Its invariant adds that
  the store holds the installed view or a direct successor of it, that a receipt
  being applied is bound to the installed view or to one of an earlier epoch, and
  that whatever a member reported in the current epoch it signed for the installed
  view; so of two sibling views with one epoch only the installed one counts.
  Results: `RefinesCoordinator` (the composition implements the coordinator's
  specification) and `CollectedUnderFence`. They assume only that the bridge is
  one of the coordinator's callers.
* `ObserversProofs`. The invariant follows the newest event of a subscription from
  the mailbox into the callback and to what was delivered, and says that an event
  in a mailbox always has a token, or the sender of one, behind it. Result:
  `SubscriberCurrent`, also checked in `services`.
* `ProviderLogProofs`. What a transaction read under the row lock is still true
  when it commits, because only the holder of that lock is past `LockGroup`.
  Results: `AppendedOnce`, also checked in `services`, and `ReplayExact`, the part
  of `ReplayComplete` without the byte total.
* `MergeLocksProofs`. The invariant says who is registered at a mutex, those that
  hold it and those that have asked for it, and that a goroutine wants locks with
  greater ids than those it holds. Were everybody waiting, whoever holds what a
  goroutine waits for would wait for a greater id. Result: `MergesNeverDeadlock`.
* `JoinProofs`. The joins of OR-Sets, last-writer-wins entries, multi-value
  registers and counters are commutative, associative and idempotent, and the
  tests with which merges return early are true exactly when the join would change
  nothing. The hypotheses are that no add lies under its own tombstone, that a
  map has one entry per key, and that a tag or dot names one write; `AllUnique` of
  the run `replicas` checks the last.

Only model-checked: liveness; byte totals (`SizeExact` of the inbox, `db.used` of
the providers, `StreamUnbroken`: sums over data need induction, which the provers
cannot do); the properties of the other modules.

## 6. Findings

`grpc_slow`: the comment of `GRPCRelay.Sync` (`extensions/grpc.go:127`) says that a
slow stream is disconnected. When its queue is full the subscriber is closed and
leaves the group, but `Sync` then waits for the goroutine that receives from the
stream, and nothing ends that one: the client stays connected and hears no more.

`rga_replace`: the comment of `ReplaceRunBinaryWithLimits` (`text/rga.go:663`)
says that it atomically replaces the runes at an offset. `replace` reads the runes
to delete and the place of the insertion under two locks; when a remote delta is
applied in between, the offset names another place and the new text does not stand
where the deleted text was.

`awareness_lock`: the comment of `awareness.Store` (`awareness/awareness.go:213`)
says that it is safe for concurrent goroutines. `next` returns with `store.mu`
locked when `Normalize` refuses the state given to `Set`
(`awareness/awareness.go:299`), and every later call waits for ever.

`movelist_read`: `README.md:7` promises convergence under reordered delivery.
`MoveRGA` allocates its projection with the number of nodes minus the number of
tombstones (`list/move.go:538`); tombstones that arrive before their nodes make
that negative, and every read panics until the nodes arrive.

`provider_replay`: `durable/types.go:23` says that a replay over the window is
`ErrReplayUnavailable`. The SQL and Redis stores report `ErrCorruptStore` when the
bytes of an intact suffix are over the window, so the client is not told to
install a checkpoint. Reads that failed are reported as a corrupt store as well.

Met while modelling, without a run of their own:

* `Run` of the durable client "maintains sessions until ctx is cancelled"
  (`durable/client.go:197`), but a connection lost between hello and welcome
  (`client.go:276`) or in a Merkle catch-up (`client.go:381`, `418`, `441`) is
  reported as an invalid message, for which `Run` returns for good. In
  `DurableRelay` this is `HandshakeFails` and `Disconnect`; settlement relies on
  the host to call `Run` again.
* A Merkle client that lacks more events than the handler's replay window gets no
  error code (`durable/handler.go:284` names two errors, `MerkleEvents` returns
  another), so that its host does not learn that it needs a checkpoint.
* `Gossip.Suspects` "never includes self" (`membership/gossip.go:191`), but
  `Observe` accepts the member's own heartbeat when a transport echoes it, and the
  record it makes for self expires.
* A Yjs room lets "a harmless duplicate" that another client forwards pass
  (`extensions/yjs.go:605`). A forwarded removal at the recorded clock is not
  skipped as stale, and the test of the owner that follows refuses it
  (`yjs.go:608`), which ends the connection that forwarded it.
* An update that the store of a Yjs room took while its answer was lost is not
  fanned out. `NoUpdateMissed` excepts it.
* A Yjs client that reconnects under its id while the tombstone of the old
  connection has another owner is refused until its clock is above it; a tombstone
  evicted at `MaxAwarenessTombstones` may let an older state back.
  `PresenceSettled` excepts the clients concerned.
* `documenttree.Document.Map` returns a handle "only for an integrated map object"
  (`documenttree/document.go:409`), and the depth preflight assumes that the parent
  is integrated (`document.go:1121`). An object whose owner has not arrived gets a
  handle as well, so a child may be made below it whose depth is over the limit
  once the owner arrives, and the owner's delta is then refused for good.
  `NeverTakenForCorrupt` excepts limits.
* A list with moves "gives every legal sequential move its exact list result"
  (`list/move.go:249`). After concurrent moves whose cycle cost an element its
  attachment this fails: in [a, b, c] let one replica move a behind c and another
  b before a so that [b, a, c] is shown; moving c to the front then gives
  [c, a, b]. `EditTakesEffect` asks for the exact result where no attachment was
  dropped, and elsewhere that the moved range stands where it was sent.
* Undo after a redo may bring characters back in another order
  (`text/undo.go:141`); `UndoTakesBack` asks for the order only where nothing was
  undone since the edit.

## 7. Not modelled

* Byte formats (`encoding`, `snapshot`, `*/wire*.go`, `durable/wire.go`, the codecs
  of anchors, nodes and checkpoints). They appear as the values they carry and as
  what they accept; their code is loops over bytes, whose input space is out of
  reach for TLC and whose induction is out of reach for TLAPS.
* Authentication and authorization of relays and rooms, heartbeats and timeouts
  as such (a timeout is a step that breaks a connection), byte limits beside the
  limits on events in `DurableRelay`.
* `UnmarshalBinary` over a value in use for the types of `Replicas`; for the
  types of `Structures` it is modelled.
* Negotiation of manifests, changes of view in `Gossip`, the end of the expiry
  loop of `awareness`.
* Observable wrappers, the document manager, the simple collector and the WebRTC
  provider: each calls an operation that is modelled, under at most one lock of
  its own, and adds no protocol state.
* Configuration, telemetry, bindings, commands other than the Merkle repair,
  examples and the clients in other languages.
* Compaction composed with `Coordinator`: the types assume the contract
  (`Collectable`, `Acknowledged`) that `GCBridge` and `CoordinatorProofs`
  establish for the collector's side.

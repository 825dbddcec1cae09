--------------------------- MODULE HistoryManager ---------------------------
(***************************************************************************)
(* The local undo/redo history of history/history.go, together with the    *)
(* host that owns the scopes.                                              *)
(*                                                                         *)
(* A scope is a register and a command is the value to write to it; the    *)
(* executor's compensating command is the value that was there.  Execute,  *)
(* Undo, Redo and Clear hold execMu from start to end, but the stacks'     *)
(* own lock is released while the executor runs, so a call has two steps:  *)
(* the executor's effect and the bookkeeping after it.  Remote changes of  *)
(* a scope, which the manager never captures, and a crash may fall between *)
(* the two.  The host saves its scopes and the manager's record in one     *)
(* transaction, between calls, and restarts from what it saved.            *)
(***************************************************************************)
EXTENDS Naturals, Sequences, SequencesExt

CONSTANTS
    Scope,           \* the host's scopes
    Value,           \* the contents a scope may have, and so the commands
    Start,           \* the content of every scope at first, a Value
    MaxEntries,      \* Options.MaxEntries
    MaxStateBytes,   \* Options.MaxStateBytes, in commands of equal size
    MaxCalls,        \* bound: calls to the manager
    MaxRemote        \* bound: remote changes

VARIABLES
    content,     \* what the host's scopes hold
    undo, redo,  \* Manager.undo and Manager.redo, the top at the end
    call,        \* what the holder of execMu is doing, or Idle
    stored,      \* the host's last transaction
    base,        \* ghost: the content before the oldest retained command
    newest,      \* ghost: the content after the newest retained command
    calm,        \* ghost: every change since base was captured
    calls, remote

vars == <<content, undo, redo, call, stored, base, newest, calm, calls, remote>>

Idle == [op |-> "idle"]

Record == [content |-> content, undo |-> undo, redo |-> redo,
           base |-> base, newest |-> newest, calm |-> calm]

Init ==
    /\ content = [s \in Scope |-> Start]
    /\ undo = <<>> /\ redo = <<>>
    /\ call = Idle
    /\ base = content /\ newest = content /\ calm = TRUE
    /\ stored = Record
    /\ calls = 0 /\ remote = 0

\* Every entry retains its two commands.
Size == 2 * (Len(undo) + Len(redo))

(***************************************************************************)
(* The executor.  An error or a panic leaves its scope as it was; a result *)
(* beyond MaxCommandBytes or MaxResultBytes comes after the scope changed. *)
(***************************************************************************)
Called(op, entry, command) ==
    \E outcome \in {"applied", "failed", "refused"} :
        /\ content' = IF outcome = "failed" THEN content
                      ELSE [content EXCEPT ![entry.scope] = command]
        /\ call' = [op |-> op, outcome |-> outcome, entry |-> entry,
                    reverse |-> content[entry.scope]]
        /\ calm' = (calm /\ outcome # "refused")
        /\ UNCHANGED <<undo, redo, stored, base, newest, remote>>

Calling == call = Idle /\ calls < MaxCalls /\ calls' = calls + 1

Execute(s, v) ==
    /\ Calling
    /\ Len(undo) < MaxEntries
    /\ Called("execute", [scope |-> s, undo |-> v, redo |-> v], v)

Undo ==
    /\ Calling
    /\ undo # <<>>
    /\ Called("undo", Last(undo), Last(undo).undo)

Redo ==
    /\ Calling
    /\ redo # <<>>
    /\ Called("redo", Last(redo), Last(redo).redo)

(***************************************************************************)
(* The bookkeeping once the executor has returned.                         *)
(***************************************************************************)
\* The mutated form: a new command leaves the redo stack in place.
RecordedKeepingRedo(c) ==
    CASE c.op = "execute" ->
            /\ undo' = Append(undo, [c.entry EXCEPT !.undo = c.reverse])
            /\ redo' = redo
      [] c.op = "undo" ->
            /\ undo' = Front(undo)
            /\ redo' = Append(redo, [c.entry EXCEPT !.redo = c.reverse])
      [] c.op = "redo" ->
            /\ redo' = Front(redo)
            /\ undo' = Append(undo, [c.entry EXCEPT !.undo = c.reverse])

Recorded(c) ==
    CASE c.op = "execute" ->
            /\ undo' = Append(undo, [c.entry EXCEPT !.undo = c.reverse])
            /\ redo' = <<>>
      [] c.op = "undo" ->
            /\ undo' = Front(undo)
            /\ redo' = Append(redo, [c.entry EXCEPT !.redo = c.reverse])
      [] c.op = "redo" ->
            /\ redo' = Front(redo)
            /\ undo' = Append(undo, [c.entry EXCEPT !.undo = c.reverse])

Return ==
    /\ call # Idle
    /\ call' = Idle
    /\ IF call.outcome = "applied"
         THEN /\ Recorded(call)
              /\ newest' = IF call.op = "execute" THEN content ELSE newest
         ELSE UNCHANGED <<undo, redo, newest>>
    /\ UNCHANGED <<content, stored, base, calm, calls, remote>>

Clear ==
    /\ call = Idle
    /\ undo' = <<>> /\ redo' = <<>>
    /\ base' = content /\ newest' = content /\ calm' = TRUE
    /\ UNCHANGED <<content, call, stored, calls, remote>>

\* A remote operation reaches a scope without going through the manager.
RemoteChange(s, v) ==
    /\ remote < MaxRemote /\ remote' = remote + 1
    /\ v # content[s]
    /\ content' = [content EXCEPT ![s] = v]
    /\ calm' = FALSE
    /\ UNCHANGED <<undo, redo, call, stored, base, newest, calls>>

\* marshalManager refuses a record above its limit.
Save ==
    /\ call = Idle
    /\ Len(undo) + Len(redo) <= MaxEntries
    /\ Size <= MaxStateBytes
    /\ stored' = Record
    /\ UNCHANGED <<content, undo, redo, call, base, newest, calm, calls, remote>>

\* The process stops, in a call or between two, and NewManagerFromBinary
\* starts from the host's transaction.
Restart ==
    /\ content' = stored.content
    /\ undo' = stored.undo /\ redo' = stored.redo
    /\ base' = stored.base /\ newest' = stored.newest /\ calm' = stored.calm
    /\ call' = Idle
    /\ UNCHANGED <<stored, calls, remote>>

Next ==
    \/ \E s \in Scope, v \in Value : Execute(s, v)
    \/ Undo
    \/ Redo
    \/ Return
    \/ Clear
    \/ \E s \in Scope, v \in Value : RemoteChange(s, v)
    \/ Save
    \/ Restart

Spec == Init /\ [][Next]_vars

-----------------------------------------------------------------------------
\* Between calls, when nothing changed behind the manager's back, undoing
\* everything leads to the content before the oldest retained command and
\* redoing everything to the content after the newest one, whatever mix of
\* Execute, Undo, Redo, failing executors and restarts came before.
Retraces ==
    calm /\ call = Idle =>
        /\ FoldRight(LAMBDA e, c : [c EXCEPT ![e.scope] = e.undo], undo, content)
             = base
        /\ FoldRight(LAMBDA e, c : [c EXCEPT ![e.scope] = e.redo], redo, content)
             = newest
=============================================================================

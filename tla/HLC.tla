--------------------------------- MODULE HLC --------------------------------
(***************************************************************************)
(* One hybrid logical clock object (clock/hlc.go) used by several          *)
(* goroutines of a process that may crash and be restarted under the same  *)
(* replica identifier.                                                     *)
(*                                                                         *)
(* Now and Witness read the physical clock BEFORE they take h.mu, so each  *)
(* is two steps here: Read* samples a physical time, and Lock* runs the    *)
(* critical section with that possibly stale sample.  The physical clock   *)
(* is arbitrary: it may stand still, jump, or go back.                     *)
(*                                                                         *)
(* The host follows the contract in the comments of State and Tag: it      *)
(* saves the clock state after a Now call succeeded and before the tag     *)
(* leaves the process, and it restores that state on restart.              *)
(***************************************************************************)
EXTENDS Tags

CONSTANTS Caller,    \* goroutines that share the clock
          Physical,  \* readings of the physical clock, in milliseconds
          Remote     \* stamps of tags received from other replicas

ASSUME PhysicalAssumption == Physical \subseteq Word
ASSUME RemoteAssumption == Remote \subseteq Stamp

VARIABLES clock,      \* h.wallTime, h.logical
          call,       \* what each caller is doing
          durable,    \* the clock.State last saved by the host
          released,   \* stamps of tags that left the process, in any life
          witnessed   \* remote stamps witnessed in this life

vars == <<clock, call, durable, released, witnessed>>

Idle == [op |-> "idle"]

Calls ==
    [op : {"idle"}] \cup [op : {"now"}, physical : Word]
      \cup [op : {"witness"}, physical : Word, remote : Stamp]
      \cup [op : {"holding", "saved"}, tag : Stamp]

Holders == {p \in Caller : call[p].op \in {"holding", "saved"}}

TypeOK ==
    /\ clock \in Stamp
    /\ call \in [Caller -> Calls]
    /\ durable \in Stamp
    /\ released \subseteq Stamp
    /\ witnessed \subseteq Stamp

Init ==
    /\ clock = ZeroStamp
    /\ call = [p \in Caller |-> Idle]
    /\ durable = ZeroStamp
    /\ released = {}
    /\ witnessed = {}

\* Now, before h.mu is taken.
ReadNow(p) ==
    /\ call[p] = Idle
    /\ \E t \in Physical : call' = [call EXCEPT ![p] = [op |-> "now", physical |-> t]]
    /\ UNCHANGED <<clock, durable, released, witnessed>>

\* Now, inside h.mu: advanceLocal with the sample taken earlier.
LockNow(p) ==
    /\ call[p].op = "now"
    /\ \/ /\ NowFails(clock, call[p].physical)
          /\ call' = [call EXCEPT ![p] = Idle]
          /\ clock' = clock
       \/ /\ ~NowFails(clock, call[p].physical)
          /\ clock' = NowBase(clock, call[p].physical)
          /\ call' = [call EXCEPT ![p] = [op |-> "holding", tag |-> clock']]
    /\ UNCHANGED <<durable, released, witnessed>>

\* Witness, before h.mu is taken.
ReadWitness(p) ==
    /\ call[p] = Idle
    /\ \E t \in Physical, r \in Remote :
          call' = [call EXCEPT ![p] = [op |-> "witness", physical |-> t, remote |-> r]]
    /\ UNCHANGED <<clock, durable, released, witnessed>>

\* Witness, inside h.mu.
LockWitness(p) ==
    /\ call[p].op = "witness"
    /\ call' = [call EXCEPT ![p] = Idle]
    /\ LET r == call[p].remote
           t == call[p].physical
       IN  \/ WitnessFails(clock, r, t) /\ UNCHANGED <<clock, witnessed>>
           \/ /\ ~WitnessFails(clock, r, t)
              /\ clock' = Witnessed(clock, r, t)
              /\ witnessed' = witnessed \cup {r}
    /\ UNCHANGED <<durable, released>>

\* Mutated form: the caller saves the stamp of its own tag, not the state of
\* the shared clock.
SaveOwnTag(p) ==
    /\ call[p].op = "holding"
    /\ durable' = call[p].tag
    /\ call' = [call EXCEPT ![p].op = "saved"]
    /\ UNCHANGED <<clock, released, witnessed>>

\* Snapshot, and the host's save of it.
SaveSnapshot(p) ==
    /\ call[p].op = "holding"
    /\ durable' = clock
    /\ call' = [call EXCEPT ![p].op = "saved"]
    /\ UNCHANGED <<clock, released, witnessed>>

\* The tag leaves the process inside a delta.
Release(p) ==
    /\ call[p].op = "saved"
    /\ released' = released \cup {call[p].tag}
    /\ call' = [call EXCEPT ![p] = Idle]
    /\ UNCHANGED <<clock, durable, witnessed>>

\* The process dies and NewHLCFromState rebuilds the clock from the saved state.
Restart ==
    /\ clock' = durable
    /\ call' = [p \in Caller |-> Idle]
    /\ witnessed' = {}
    /\ UNCHANGED <<durable, released>>

Next ==
    \/ \E p \in Caller : ReadNow(p) \/ LockNow(p) \/ ReadWitness(p) \/ LockWitness(p)
                            \/ SaveSnapshot(p) \/ Release(p)
    \/ Restart

Spec == Init /\ [][Next]_vars

----------------------------------------------------------------------------
\* A stamp that is not above s.
AtMost(t, s) == t = s \/ StampLess(t, s)

\* The clock dominates everything it gave out or witnessed in this life, and
\* the saved state dominates everything that ever left the process.
ClockDominates ==
    /\ \A p \in Holders : AtMost(call[p].tag, clock)
    /\ \A t \in witnessed : StampLess(t, clock)
    /\ AtMost(durable, clock)
    /\ \A p \in Caller : call[p].op = "saved" => AtMost(call[p].tag, durable)
    /\ \A t \in released : AtMost(t, durable)

\* "Tag uniquely identifies a CRDT mutation" (crdt.go): goroutines racing in
\* Now never hold the same tag, and none holds a tag that already left the
\* process, whatever the physical clock did and however often the process was
\* restarted.
TagsUnique ==
    /\ \A p, q \in Holders : p # q => call[p].tag # call[q].tag
    /\ \A p \in Holders : call[p].tag \notin released

\* A tag returned by Now is strictly above every tag that left the process,
\* every tag another goroutine still holds and every remote tag witnessed
\* before it: tag order extends causal order even when the physical sample was
\* taken long before the lock.
NowExceedsHistory ==
    [][\A p \in Caller : call[p].op = "now" /\ call'[p].op = "holding" =>
         /\ \A t \in released \cup witnessed : StampLess(t, call'[p].tag)
         /\ \A q \in Holders : StampLess(call[q].tag, call'[p].tag)]_vars
=============================================================================

-------------------------- MODULE InOrderDelivery ---------------------------
(***************************************************************************)
(* What replica.Inbox promises to its host: per actor, the changes of dots *)
(* 1, 2, 3, ... are delivered once each and in this order, and a restart   *)
(* resumes from the last state the host saved.  There is no buffer, no     *)
(* frontier and no transport here.                                         *)
(***************************************************************************)
EXTENDS Naturals, Sequences

CONSTANTS Actor, Offer

VARIABLES log,    \* payloads delivered, per actor
          saved   \* log, as last saved by the host

vars == <<log, saved>>

Init == log = [a \in Actor |-> <<>>] /\ saved = log

Deliver(c) ==
    /\ c.counter = Len(log[c.actor]) + 1
    /\ log' = [log EXCEPT ![c.actor] = Append(@, c.payload)]
    /\ UNCHANGED saved

SaveLog == saved' = log /\ UNCHANGED log

Recover == log' = saved /\ UNCHANGED saved

Next == (\E c \in Offer : Deliver(c)) \/ SaveLog \/ Recover

Spec == Init /\ [][Next]_vars
=============================================================================

-------------------------------- MODULE Gossip ------------------------------
(***************************************************************************)
(* membership.Gossip (membership/gossip.go): heartbeats of the members of  *)
(* one signed view, and each member's local suspicion of the others.       *)
(*                                                                         *)
(* Heartbeats are kept in `sent' and may be forwarded to any member, its   *)
(* own sender included ("may be forwarded over any application-selected    *)
(* transport"), late, repeatedly, out of order or never.  Time is a        *)
(* discrete clock common to all members.                                   *)
(***************************************************************************)
EXTENDS Integers

CONSTANTS Member,
          SuspectAfter,  \* g.suspectAfter, in ticks
          MaxCounter,    \* bound on heartbeats of a member
          MaxTime        \* bound on time

SuspectAfterAssumption == SuspectAfter \in Nat \ {0}

VARIABLES now,
          counter,   \* g.counter of each member
          records,   \* g.records: records[g][m], for every m that has a record
          sent       \* heartbeats sent: <<sender, counter>>

vars == <<now, counter, records, sent>>

\* NewGossipAt: every other member starts alive and its timer starts.
Fresh(g, t) ==
    [m \in Member \ {g} |-> [counter |-> 0, lastSeen |-> t, state |-> "alive"]]

Init ==
    /\ now = 0
    /\ counter = [g \in Member |-> 0]
    /\ records = [g \in Member |-> Fresh(g, 0)]
    /\ sent = {}

Tick ==
    /\ now < MaxTime
    /\ now' = now + 1
    /\ UNCHANGED <<counter, records, sent>>

\* Heartbeat: the only effect besides the message is the counter.
Heartbeat(g) ==
    /\ counter[g] < MaxCounter
    /\ counter' = [counter EXCEPT ![g] = @ + 1]
    /\ sent' = sent \cup {<<g, counter'[g]>>}
    /\ UNCHANGED <<now, records>>

\* The counter of the record, 0 when there is none (a zero livenessRecord).
Known(g, m) == IF m \in DOMAIN records[g] THEN records[g][m].counter ELSE 0

\* Mutated form: an old heartbeat also refreshes the timer.
ObserveAnyOrder(g, m, c) ==
    /\ records' = [records EXCEPT ![g] = [k \in DOMAIN @ \cup {m} |->
                     IF k = m THEN [counter |-> c, lastSeen |-> now, state |-> "alive"]
                     ELSE @[k]]]
    /\ UNCHANGED <<now, counter, sent>>

\* Observe of a valid heartbeat; an old one changes nothing.
Observe(g, m, c) ==
    /\ c > Known(g, m)
    /\ records' = [records EXCEPT ![g] = [k \in DOMAIN @ \cup {m} |->
                     IF k = m THEN [counter |-> c, lastSeen |-> now, state |-> "alive"]
                     ELSE @[k]]]
    /\ UNCHANGED <<now, counter, sent>>

\* A record that Suspects turns.
Overdue(r) == r.state = "alive" /\ now - r.lastSeen >= SuspectAfter

\* Suspects: turns every overdue record, and returns their members.
Suspects(g) ==
    /\ \E m \in DOMAIN records[g] : Overdue(records[g][m])
    /\ records' = [records EXCEPT ![g] = [m \in DOMAIN @ |->
                     IF Overdue(@[m]) THEN [@[m] EXCEPT !.state = "suspect"] ELSE @[m]]]
    /\ UNCHANGED <<now, counter, sent>>

\* A process restarts its detector in the same incarnation: nothing is saved.
Restart(g) ==
    /\ counter' = [counter EXCEPT ![g] = 0]
    /\ records' = [records EXCEPT ![g] = Fresh(g, now)]
    /\ UNCHANGED <<now, sent>>

Next ==
    \/ Tick
    \/ \E g \in Member : Heartbeat(g) \/ Suspects(g) \/ Restart(g)
    \/ \E g \in Member, h \in sent : Observe(g, h[1], h[2])

Spec == Init /\ [][Next]_vars

----------------------------------------------------------------------------
Suspected(g) == {m \in DOMAIN records[g] : records[g][m].state = "suspect"}

\* A member is suspected only after a full suspectAfter during which the
\* observer accepted no newer heartbeat of it, however late the heartbeats it
\* did receive were; and no record is ahead of what its member ever sent.
SuspicionJustified ==
    \A g \in Member : \A m \in DOMAIN records[g] :
        /\ m \in Suspected(g) => now - records[g][m].lastSeen >= SuspectAfter
        /\ records[g][m].counter > 0 => <<m, records[g][m].counter>> \in sent

\* A suspected member comes back only by a heartbeat that is newer than every
\* heartbeat the observer accepted before (or by a restart of the observer): a
\* delayed or replayed heartbeat never revives a silent member.
OnlyByNewer ==
    \A g \in Member : \A m \in Suspected(g) \ Suspected(g)' :
        \/ records'[g] = Fresh(g, now)
        \/ records'[g][m].counter > records[g][m].counter
=============================================================================

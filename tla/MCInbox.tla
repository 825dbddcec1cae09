------------------------------ MODULE MCInbox -------------------------------
(* Two actors; one of them reuses dot 2 with another payload.              *)
EXTENDS Inbox, TLC

CONSTANTS a1, a2, none

MCActor == {a1, a2}
MCPayload == {"x", "y", "long"}
MCSize(p) == IF p = "long" THEN 2 ELSE 1
Ch(a, n, p) == [actor |-> a, counter |-> n, payload |-> p]
MCOffer == {Ch(a1, 1, "x"), Ch(a1, 2, "x"), Ch(a1, 2, "y"), Ch(a1, 3, "long"),
            Ch(a1, 4, "x"), Ch(a2, 1, "long"), Ch(a2, 2, "y"), Ch(a2, 3, "x")}
=============================================================================

---------------------------- MODULE Announcement ----------------------------
(***************************************************************************)
(* What the notification outboxes promise about the outcome of a run: it is *)
(* owed to the user from the terminal commit on, and the debt is settled    *)
(* after the push gateway has answered or the user has declined, and once   *)
(* answered it stays settled.                                              *)
(* Delivery is at least once, so the gateway may hear of it again.          *)
(***************************************************************************)
VARIABLES
    debt,      \* "none", "owed" or "settled"
    answered,  \* the gateway has answered a delivery
    declined   \* the user does not want the push

vars == <<debt, answered, declined>>

Init == debt = "none" /\ answered = FALSE /\ declined = FALSE

Commit == debt = "none" /\ debt' = "owed" /\ UNCHANGED <<answered, declined>>

Decline == declined' = TRUE /\ UNCHANGED <<debt, answered>>

Deliver == debt # "none" /\ answered' = TRUE /\ UNCHANGED <<debt, declined>>

Settle ==
    /\ debt = "owed"
    /\ answered \/ declined
    /\ debt' = "settled"
    /\ UNCHANGED <<answered, declined>>

\* An invocation that has read the preference before the user changed it may
\* take up again what another one has settled as declined.
Resume ==
    /\ debt = "settled" /\ declined /\ ~answered
    /\ debt' = "owed"
    /\ UNCHANGED <<answered, declined>>

Next == Commit \/ Decline \/ Deliver \/ Settle \/ Resume

Spec == Init /\ [][Next]_vars
=============================================================================

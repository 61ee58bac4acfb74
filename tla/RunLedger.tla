----------------------------- MODULE RunLedger ------------------------------
(***************************************************************************)
(* What the runs table promises to everything that reads it: a run has at  *)
(* most one owner at a time, ownership epochs only grow, the work of an    *)
(* agent is accepted from an owner only, and the outcome is written once.  *)
(*                                                                         *)
(* RunLifecycle implements this ledger; the mapping hides statuses, queue   *)
(* messages, heartbeats and actors.                                        *)
(***************************************************************************)
EXTENDS Naturals

CONSTANT Runs

VARIABLES
    phase,  \* where each run stands
    epoch   \* how many times each run has been claimed

ledger == <<phase, epoch>>

Outcome == {"completed", "failed", "cancelled"}
Phase == {"absent", "waiting", "owned"} \cup Outcome

Init ==
    /\ phase = [r \in Runs |-> "absent"]
    /\ epoch = [r \in Runs |-> 0]

\* The run is created and waits for an owner.
Create(r) ==
    /\ phase[r] = "absent"
    /\ phase' = [phase EXCEPT ![r] = "waiting"]
    /\ UNCHANGED epoch

\* A new owner, under a new epoch.
Claim(r) ==
    /\ phase[r] = "waiting"
    /\ phase' = [phase EXCEPT ![r] = "owned"]
    /\ epoch' = [epoch EXCEPT ![r] = @ + 1]

\* The owner gives the run back, or is taken for dead.
Release(r) ==
    /\ phase[r] = "owned"
    /\ phase' = [phase EXCEPT ![r] = "waiting"]
    /\ UNCHANGED epoch

\* The run ends; only an owned run can be completed.
Finish(r, o) ==
    /\ \/ phase[r] = "owned"
       \/ phase[r] = "waiting" /\ o # "completed"
    /\ phase' = [phase EXCEPT ![r] = o]
    /\ UNCHANGED epoch

Next ==
    \E r \in Runs :
        Create(r) \/ Claim(r) \/ Release(r) \/ \E o \in Outcome : Finish(r, o)

Spec == Init /\ [][Next]_ledger
=============================================================================

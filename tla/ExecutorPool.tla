---------------------------- MODULE ExecutorPool ----------------------------
(***************************************************************************)
(* The pool of executor containers: the proxy tokens that each container's  *)
(* durable object keeps (executor-host.ts), the /dispatch requests that     *)
(* mint them, the control RPCs that use and revoke them, and the registry   *)
(* of runs inside the agent container (containers/agent/src/main.rs).       *)
(*                                                                         *)
(* A lease of a run is dispatched once and mints at most one token, so a    *)
(* token is named by its run and lease; the service id is part of the       *)
(* lease.  A durable object serialises its methods: each is one step.  The  *)
(* Worker calls the objects one after the other or all at once, and what    *)
(* it learned may be out of date when it calls again.                      *)
(***************************************************************************)
EXTENDS Naturals, FiniteSets

CONSTANTS
    Runs,
    Tier1,      \* warm slots, tried first
    Tier3,      \* slots tried when every warm one is full
    Capacity,   \* MAX_CONCURRENT_RUNS of each slot
    None,       \* no slot
    MaxLease,   \* bound on the leases of a run
    MaxFaults   \* bound on crashes, failed calls and slow answers

Slots == Tier1 \cup Tier3

ASSUME BoundsAssumption == MaxLease \in Nat /\ MaxFaults \in Nat
ASSUME CapacityAssumption == Capacity \in [Slots -> Nat \ {0}]
ASSUME PoolAssumption ==
    IsFiniteSet(Runs) /\ IsFiniteSet(Slots) /\ None \notin Slots

VARIABLES
    status,    \* status of the run's row
    lease,     \* leaseVersion of the row
    dispatch,  \* progress of the /dispatch request of each lease
    tokens,    \* proxyTokens of each slot's durable object
    stale,     \* tokens without a heartbeat for fifteen minutes
    registry,  \* active_runs of each container: the lease, 0 for none
    draining,  \* containers that got SIGTERM
    task,      \* the agent task of each lease
    call,      \* the control RPC of each lease that is under way
    sweep,     \* slots where the tokens of a finished run are still to go
    faults     \* faults so far

vars == <<status, lease, dispatch, tokens, stale, registry, draining, task,
          call, sweep, faults>>

Token == Runs \X (1..MaxLease)

DispatchPc == {"none", "check", "sweep", "tier1", "tier3", "reserve", "start",
               "revoke", "failed", "started"}
Dispatch == [pc : DispatchPc, todo : SUBSET Slots, load : [Slots -> Nat],
             slot : Slots \cup {None}]

Call == {"none", "beat", "beatVerified", "touch", "rpc", "rpcVerified",
         "finish", "finishVerified", "lost", "conflict"}

TypeOK ==
    /\ status \in [Runs -> {"queued", "running", "ended"}]
    /\ lease \in [Runs -> 0..MaxLease]
    /\ dispatch \in [Token -> Dispatch]
    /\ tokens \in [Slots -> SUBSET Token]
    /\ stale \in SUBSET Token
    /\ registry \in [Slots -> [Runs -> 0..MaxLease]]
    /\ draining \in SUBSET Slots
    /\ task \in [Token -> {"none", "running", "cancelled", "over"}]
    /\ call \in [Token -> Call]
    /\ sweep \in [Runs -> SUBSET Slots]
    /\ faults \in 0..MaxFaults

NoLoad == [s \in Slots |-> 0]

Init ==
    /\ status = [r \in Runs |-> "queued"]
    /\ lease = [r \in Runs |-> 0]
    /\ dispatch = [t \in Token |-> [pc |-> "none", todo |-> {}, load |-> NoLoad,
                                    slot |-> None]]
    /\ tokens = [s \in Slots |-> {}]
    /\ stale = {}
    /\ registry = [s \in Slots |-> [r \in Runs |-> 0]]
    /\ draining = {}
    /\ task = [t \in Token |-> "none"]
    /\ call = [t \in Token |-> "none"]
    /\ sweep = [r \in Runs |-> {}]
    /\ faults = 0

Fault == faults < MaxFaults /\ faults' = faults + 1

\* ensureRunLease.
HoldsLease(t) == status[t[1]] = "running" /\ lease[t[1]] = t[2]

(***************************************************************************)
(* The run's row.                                                          *)
(***************************************************************************)

RowFrame == UNCHANGED <<tokens, stale, registry, draining, task, call>>

\* The queue handler claims the run and posts /dispatch.
Claim(r) ==
    /\ status[r] = "queued"
    /\ lease[r] < MaxLease
    /\ status' = [status EXCEPT ![r] = "running"]
    /\ lease' = [lease EXCEPT ![r] = @ + 1]
    /\ dispatch' = [dispatch EXCEPT ![<<r, lease[r] + 1>>].pc = "check"]
    /\ UNCHANGED <<sweep, faults>>
    /\ RowFrame

\* The handler of a failed dispatch, or stale recovery, puts the run back: a
\* slow start or lost heartbeats let it do so while somebody is at work.
Release(r) ==
    /\ status[r] = "running"
    /\ status' = [status EXCEPT ![r] = "queued"]
    /\ UNCHANGED <<lease, dispatch, sweep, faults>>
    /\ RowFrame

\* The user cancels the run, after which its tokens are revoked.
Cancel(r) ==
    /\ status[r] # "ended"
    /\ status' = [status EXCEPT ![r] = "ended"]
    /\ sweep' = [sweep EXCEPT ![r] = Slots]
    /\ UNCHANGED <<lease, dispatch, faults>>
    /\ RowFrame

\* The control plane fails the run (dead letter, lost access): no revocation.
FailRun(r) ==
    /\ status[r] # "ended"
    /\ status' = [status EXCEPT ![r] = "ended"]
    /\ UNCHANGED <<lease, dispatch, sweep, faults>>
    /\ RowFrame

(***************************************************************************)
(* /dispatch of the lease t.                                               *)
(***************************************************************************)

DispatchFrame == UNCHANGED <<status, lease, stale, draining, call, sweep>>

Goto(t, pc) == dispatch' = [dispatch EXCEPT ![t].pc = pc]

GotoAll(t, pc, todo) ==
    dispatch' = [dispatch EXCEPT ![t] = [@ EXCEPT !.pc = pc, !.todo = todo]]

\* The check before the sweep.
CheckLease(t) ==
    /\ dispatch[t].pc = "check"
    /\ IF HoldsLease(t) THEN GotoAll(t, "sweep", Slots) ELSE Goto(t, "failed")
    /\ UNCHANGED <<tokens, registry, task, faults>>
    /\ DispatchFrame

\* Mutant: every other token of the run goes.
IsOtherLease(u, t) == u[1] = t[1] /\ u[2] # t[2]

\* removeSupersededProxyTokens: older leases of the run only.
IsSuperseded(u, t) == u[1] = t[1] /\ u[2] < t[2]

\* One slot of the sweep.
SweepSuperseded(t, s) ==
    /\ dispatch[t].pc = "sweep"
    /\ s \in dispatch[t].todo
    /\ tokens' = [tokens EXCEPT ![s] = {u \in @ : ~IsSuperseded(u, t)}]
    /\ dispatch' = [dispatch EXCEPT ![t].todo = @ \ {s}]
    /\ UNCHANGED <<registry, task, faults>>
    /\ DispatchFrame

\* A slot that does not answer is logged and left as it is.
SweepFails(t, s) ==
    /\ dispatch[t].pc = "sweep"
    /\ s \in dispatch[t].todo
    /\ Fault
    /\ dispatch' = [dispatch EXCEPT ![t].todo = @ \ {s}]
    /\ UNCHANGED <<tokens, registry, task>>
    /\ DispatchFrame

\* The check after the sweep.
RecheckLease(t) ==
    /\ dispatch[t].pc = "sweep"
    /\ dispatch[t].todo = {}
    /\ IF HoldsLease(t) THEN GotoAll(t, "tier1", Tier1) ELSE Goto(t, "failed")
    /\ UNCHANGED <<tokens, registry, task, faults>>
    /\ DispatchFrame

Live(s) == tokens[s] \ stale

\* getLoad of one slot, which also drops its expired tokens.
ReadLoad(t, s) ==
    /\ dispatch[t].pc \in {"tier1", "tier3"}
    /\ s \in dispatch[t].todo
    /\ tokens' = [tokens EXCEPT ![s] = Live(s)]
    /\ dispatch' = [dispatch EXCEPT ![t] = [@ EXCEPT
                      !.todo = dispatch[t].todo \ {s},
                      !.load = [dispatch[t].load EXCEPT ![s] = Cardinality(Live(s))]]]
    /\ UNCHANGED <<registry, task, faults>>
    /\ DispatchFrame

\* The slots with room, by the loads read, and the least loaded of them.
Available(t, tier) == {s \in tier : dispatch[t].load[s] < Capacity[s]}

LeastLoaded(t, tier) ==
    {s \in Available(t, tier) :
        \A u \in Available(t, tier) : dispatch[t].load[s] <= dispatch[t].load[u]}

\* selectExecutorPoolSlot: tier 1 first, then tier 3.
SelectSlot(t) ==
    LET tier == IF dispatch[t].pc = "tier1" THEN Tier1 ELSE Tier3 IN
    /\ dispatch[t].pc \in {"tier1", "tier3"}
    /\ dispatch[t].todo = {}
    /\ \/ \E s \in LeastLoaded(t, tier) :
            dispatch' = [dispatch EXCEPT ![t] = [@ EXCEPT !.pc = "reserve",
                                                 !.slot = s, !.load = NoLoad]]
       \/ /\ Available(t, tier) = {} /\ dispatch[t].pc = "tier1"
          /\ GotoAll(t, "tier3", Tier3)
       \/ /\ Available(t, tier) = {} /\ dispatch[t].pc = "tier3"
          /\ Goto(t, "failed")
    /\ UNCHANGED <<tokens, registry, task, faults>>
    /\ DispatchFrame

\* Mutant: the load that selected the slot is trusted.
HasRoomAsSeen(s) == TRUE

\* The capacity check of dispatchStart, on the tokens that have not expired.
HasRoom(s) == Cardinality(Live(s)) < Capacity[s]

\* dispatchStart reserves a place by minting the token.
Reserve(t) ==
    LET s == dispatch[t].slot IN
    /\ dispatch[t].pc = "reserve"
    /\ IF HasRoom(s)
       THEN /\ tokens' = [tokens EXCEPT ![s] = Live(s) \cup {t}]
            /\ Goto(t, "start")
       ELSE /\ tokens' = [tokens EXCEPT ![s] = Live(s)]
            /\ Goto(t, "failed")
    /\ UNCHANGED <<registry, task, faults>>
    /\ DispatchFrame

\* The runs that the container of a slot counts.
ActiveRuns(s) == {r \in Runs : registry[s][r] # 0}

\* try_register_run admits the run: not while shutting down; in the place of
\* another lease of the run, whichever it is; else while there is room.
Admits(s, r) ==
    /\ s \notin draining
    /\ registry[s][r] # 0 \/ Cardinality(ActiveRuns(s)) < Capacity[s]

\* The lease version in the identity of a task (RunLeaseIdentity).
Version(t) == t[2]

\* The registry takes the new lease, the task of the one before is cancelled.
Register(t) ==
    LET s == dispatch[t].slot
        old == <<t[1], registry[s][t[1]]>>
    IN  /\ registry' = [registry EXCEPT ![s][t[1]] = Version(t)]
        /\ task' = [u \in Token |->
                      CASE u = t -> "running"
                        [] u = old /\ task[u] = "running" -> "cancelled"
                        [] OTHER -> task[u]]

\* The container is started if need be, and gets /start.
StartContainer(t) ==
    /\ dispatch[t].pc = "start"
    /\ IF Admits(dispatch[t].slot, t[1])
       THEN Register(t) /\ Goto(t, "started")
       ELSE Goto(t, "revoke") /\ UNCHANGED <<registry, task>>
    /\ UNCHANGED <<tokens, faults>>
    /\ DispatchFrame

\* The container does not start, or its answer is lost.
StartThrows(t) ==
    /\ dispatch[t].pc = "start"
    /\ Fault
    /\ \/ Admits(dispatch[t].slot, t[1]) /\ Register(t)
       \/ UNCHANGED <<registry, task>>
    /\ Goto(t, "revoke")
    /\ UNCHANGED tokens
    /\ DispatchFrame

\* The reservation of a failed start is returned.
ReturnReservation(t) ==
    /\ dispatch[t].pc = "revoke"
    /\ tokens' = [tokens EXCEPT ![dispatch[t].slot] = @ \ {t}]
    /\ Goto(t, "failed")
    /\ UNCHANGED <<registry, task, faults>>
    /\ DispatchFrame

DispatchStep(t) ==
    \/ CheckLease(t) \/ (\E s \in Slots : SweepSuperseded(t, s) \/ ReadLoad(t, s))
    \/ RecheckLease(t) \/ SelectSlot(t) \/ Reserve(t) \/ StartContainer(t)
    \/ ReturnReservation(t)

(***************************************************************************)
(* The container and its tasks.                                            *)
(***************************************************************************)

TaskFrame == UNCHANGED <<status, lease, dispatch, sweep>>

\* The task is gone; finish_run clears its own entry of the registry only.
EndTask(t) ==
    LET s == dispatch[t].slot IN
    /\ task' = [task EXCEPT ![t] = "over"]
    /\ registry' = IF registry[s][t[1]] = t[2]
                   THEN [registry EXCEPT ![s][t[1]] = 0] ELSE registry

\* A cancelled task winds down without reporting.
StopTask(t) ==
    /\ task[t] = "cancelled"
    /\ call[t] = "none"
    /\ EndTask(t)
    /\ UNCHANGED <<tokens, stale, draining, call, faults>>
    /\ TaskFrame

\* A heartbeat; another RPC that the lease fences, such as checkpoint-save or
\* tool-execute; or the final complete-run.  A cancelled engine still sends what
\* its current turn has to send.
SendCall(t) ==
    /\ call[t] = "none"
    /\ \/ task[t] = "running" /\ call' = [call EXCEPT ![t] = "beat"]
       \/ /\ task[t] \in {"running", "cancelled"}
          /\ \E kind \in {"rpc", "finish"} : call' = [call EXCEPT ![t] = kind]
    /\ UNCHANGED <<tokens, stale, registry, draining, task, faults>>
    /\ TaskFrame

Cancelled(t) ==
    task' = [task EXCEPT ![t] = IF @ = "running" THEN "cancelled" ELSE @]

Verified == [beat |-> "beatVerified", rpc |-> "rpcVerified",
             finish |-> "finishVerified"]

\* verifyProxyToken; without its token the task has lost its authority.
Verify(t) ==
    LET s == dispatch[t].slot IN
    /\ call[t] \in {"beat", "rpc", "finish"}
    /\ tokens' = [tokens EXCEPT ![s] = Live(s)]
    /\ IF t \in Live(s)
       THEN /\ call' = [call EXCEPT ![t] = Verified[@]]
            /\ UNCHANGED task
       ELSE /\ call' = [call EXCEPT ![t] = "none"]
            /\ Cancelled(t)
    /\ UNCHANGED <<stale, registry, draining, faults>>
    /\ TaskFrame

\* The heartbeat's UPDATE of the row; "lease lost" cancels the task.
HandleBeat(t) ==
    /\ call[t] = "beatVerified"
    /\ IF HoldsLease(t)
       THEN call' = [call EXCEPT ![t] = "touch"] /\ UNCHANGED task
       ELSE call' = [call EXCEPT ![t] = "lost"] /\ Cancelled(t)
    /\ UNCHANGED <<tokens, stale, registry, draining, faults>>
    /\ TaskFrame

\* touchProxyToken: the token is fresh again, expired ones go.
Touch(t) ==
    LET s == dispatch[t].slot IN
    /\ call[t] = "touch"
    /\ call' = [call EXCEPT ![t] = "none"]
    /\ IF t \in tokens[s]
       THEN /\ stale' = stale \ {t}
            /\ tokens' = [tokens EXCEPT ![s] = Live(s) \cup {t}]
       ELSE UNCHANGED <<stale, tokens>>
    /\ UNCHANGED <<registry, draining, task, faults>>
    /\ TaskFrame

\* The other RPCs do their work under the same fence.
HandleRpc(t) ==
    /\ call[t] = "rpcVerified"
    /\ IF HoldsLease(t)
       THEN call' = [call EXCEPT ![t] = "none"] /\ UNCHANGED task
       ELSE call' = [call EXCEPT ![t] = "lost"] /\ Cancelled(t)
    /\ UNCHANGED <<tokens, stale, registry, draining, faults>>
    /\ TaskFrame

\* "Lease lost" is also what the owner is told when a save or complete-run
\* finds the checkpoint pointer moved by an overlapping save of the same lease,
\* or when the monitor of a tool call cannot confirm the run's access.
AnswerConflict(t) ==
    /\ call[t] \in {"rpcVerified", "finishVerified"}
    /\ HoldsLease(t)
    /\ Fault
    /\ call' = [call EXCEPT ![t] = "conflict"]
    /\ Cancelled(t)
    /\ UNCHANGED <<tokens, stale, registry, draining>>
    /\ TaskFrame

\* complete-run ends the run, whose tokens are then revoked everywhere, or
\* finds the lease lost.
HandleFinish(t) ==
    /\ call[t] = "finishVerified"
    /\ IF HoldsLease(t)
       THEN /\ status' = [status EXCEPT ![t[1]] = "ended"]
            /\ sweep' = [sweep EXCEPT ![t[1]] = Slots]
            /\ call' = [call EXCEPT ![t] = "none"]
            /\ EndTask(t)
       ELSE /\ call' = [call EXCEPT ![t] = "lost"]
            /\ Cancelled(t)
            /\ UNCHANGED <<status, sweep, registry>>
    /\ UNCHANGED <<lease, dispatch, tokens, stale, draining, faults>>

\* responseSignalsLeaseLost: both kinds look alike to the host.
AnsweredLost(t) == call[t] \in {"lost", "conflict"}

\* "Lease lost" revokes the tokens of this very lease, in every slot.
RevokeLease(t) ==
    /\ AnsweredLost(t)
    /\ tokens' = [s \in Slots |-> tokens[s] \ {t}]
    /\ call' = [call EXCEPT ![t] = "none"]
    /\ UNCHANGED <<stale, registry, draining, task, faults>>
    /\ TaskFrame

\* The revocation fails, which is logged.
RevokeFails(t) ==
    /\ AnsweredLost(t)
    /\ Fault
    /\ call' = [call EXCEPT ![t] = "none"]
    /\ UNCHANGED <<tokens, stale, registry, draining, task>>
    /\ TaskFrame

MaintenanceFrame == UNCHANGED <<status, lease, dispatch, call>>

\* revokeRunProxyTokens, at one slot.
SweepRun(r, s) ==
    /\ s \in sweep[r]
    /\ sweep' = [sweep EXCEPT ![r] = @ \ {s}]
    /\ tokens' = [tokens EXCEPT ![s] = {u \in @ : u[1] # r}]
    /\ UNCHANGED <<stale, registry, draining, task, faults>>
    /\ MaintenanceFrame

SweepRunFails(r, s) ==
    /\ s \in sweep[r]
    /\ Fault
    /\ sweep' = [sweep EXCEPT ![r] = @ \ {s}]
    /\ UNCHANGED <<tokens, stale, registry, draining, task>>
    /\ MaintenanceFrame

\* Does the token have somebody who will use or return it?
IsInUse(t) ==
    \/ dispatch[t].pc \in {"start", "revoke"}
    \/ task[t] \in {"running", "cancelled"}
    \/ call[t] # "none"

IsHeld(t) == \E s \in Slots : t \in tokens[s]

\* Fifteen minutes without a heartbeat.
Expire(t) ==
    /\ IsHeld(t) /\ t \notin stale
    /\ ~IsInUse(t)
    /\ stale' = stale \cup {t}
    /\ UNCHANGED <<tokens, registry, draining, task, sweep, faults>>
    /\ MaintenanceFrame

\* The heartbeats of a live task fail for as long.
ExpireInUse(t) ==
    /\ IsHeld(t) /\ t \notin stale
    /\ IsInUse(t)
    /\ Fault
    /\ stale' = stale \cup {t}
    /\ UNCHANGED <<tokens, registry, draining, task, sweep>>
    /\ MaintenanceFrame

\* Mutant: the cron only starts the containers.
WarmOnly(s) ==
    /\ s \in Tier1
    /\ UNCHANGED vars

\* The cron reads the load of each warm slot.
Warm(s) ==
    /\ s \in Tier1
    /\ tokens[s] # Live(s)
    /\ tokens' = [tokens EXCEPT ![s] = Live(s)]
    /\ UNCHANGED <<stale, registry, draining, task, sweep, faults>>
    /\ MaintenanceFrame

\* SIGTERM of a rollout: runs go on, new ones are refused.
BeginShutdown(s) ==
    /\ s \notin draining
    /\ Fault
    /\ draining' = draining \cup {s}
    /\ UNCHANGED <<tokens, stale, registry, task, sweep>>
    /\ MaintenanceFrame

\* The container is gone, with its tasks; the durable object stays.
StopContainer(s) ==
    /\ IF s \in draining THEN UNCHANGED faults ELSE ActiveRuns(s) # {} /\ Fault
    /\ draining' = draining \ {s}
    /\ registry' = [registry EXCEPT ![s] = [r \in Runs |-> 0]]
    /\ task' = [t \in Token |->
                  IF dispatch[t].slot = s /\ task[t] # "none" THEN "over" ELSE task[t]]
    /\ UNCHANGED <<tokens, stale, sweep>>
    /\ MaintenanceFrame

RunNext == \E r \in Runs : Claim(r) \/ Release(r) \/ Cancel(r) \/ FailRun(r)

TaskStep(t) ==
    \/ StopTask(t) \/ Verify(t) \/ HandleBeat(t) \/ Touch(t) \/ HandleRpc(t)
    \/ HandleFinish(t) \/ RevokeLease(t)

TokenNext ==
    \E t \in Token :
        \/ DispatchStep(t) \/ StartThrows(t) \/ (\E s \in Slots : SweepFails(t, s))
        \/ TaskStep(t) \/ SendCall(t) \/ AnswerConflict(t) \/ RevokeFails(t)
        \/ Expire(t) \/ ExpireInUse(t)

SlotNext ==
    \E s \in Slots :
        \/ \E r \in Runs : SweepRun(r, s) \/ SweepRunFails(r, s)
        \/ Warm(s) \/ BeginShutdown(s) \/ StopContainer(s)

Next == RunNext \/ TokenNext \/ SlotNext

Spec == Init /\ [][Next]_vars

\* Requests and tasks make progress, an engine comes to its end, the clock and
\* the cron go on.
Fairness ==
    /\ \A t \in Token :
         /\ WF_vars(DispatchStep(t)) /\ WF_vars(TaskStep(t))
         /\ SF_vars(SendCall(t) /\ call'[t] = "finish")
         /\ WF_vars(Expire(t))
    /\ \A s \in Slots :
         /\ WF_vars(Warm(s))
         /\ \A r \in Runs : WF_vars(SweepRun(r, s))

FairSpec == Spec /\ Fairness

(***************************************************************************)
(* Properties.                                                             *)
(***************************************************************************)

\* Neither the reservations nor the container's own count ever exceed the
\* capacity of a slot, however stale the loads that selected it
\* (dispatchStart, try_register_run).
CapacityIsRespected ==
    \A s \in Slots : /\ Cardinality(tokens[s]) <= Capacity[s]
                     /\ Cardinality(ActiveRuns(s)) <= Capacity[s]

\* The token of the lease that owns the run is taken away by nobody else: not
\* by the delayed sweep of an older dispatch, by the cleanup of another lease
\* that was lost or by that of a finished run; it goes when its own start fails,
\* when it expires or when a call of its own was answered "Lease lost" while the
\* lease was held (the monotonic guard of removeSupersededProxyTokens, the exact
\* match of removeProxyTokensForLease).
LiveTokenIsKept ==
    [][\A s \in Slots : \A t \in tokens[s] :
         HoldsLease(t) /\ t \notin tokens'[s] =>
           t \in stale \/ dispatch[t].pc = "revoke" \/ call[t] = "conflict"]_vars

\* Every place in a warm slot is given back in the end, whatever failed.
PlacesReturn ==
    \A t \in Token, s \in Tier1 : t \in tokens[s] ~> t \notin tokens[s]
=============================================================================

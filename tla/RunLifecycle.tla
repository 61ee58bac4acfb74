---------------------------- MODULE RunLifecycle ----------------------------
(***************************************************************************)
(* The life of an agent run: its row in the runs table and every actor that *)
(* writes the row.                                                         *)
(*                                                                         *)
(*   creator    createThreadRun (services/execution/run-creation.ts)       *)
(*   handler    one batch invocation of the run queue consumer             *)
(*              (runtime/runner/queue-handler.ts), identified by the       *)
(*              serviceId it draws for the batch                           *)
(*   container  the agent process started for one claimed lease            *)
(*              (containers/agent, runtime/container-hosts)                *)
(*   cron       the recovery sweep (runtime/runner/cron-handler.ts)        *)
(*   canceller  POST /runs/:id/cancel (server/routes/runs/routes.ts)       *)
(*   dlq        the dead-letter consumer of the run queue                  *)
(*                                                                         *)
(* Every SQL statement or transaction is one step; the actors interleave   *)
(* between statements.  A lease is a pair (serviceId, leaseVersion): the    *)
(* claim increments leaseVersion, so a container is named by its run and    *)
(* the version it was started for.                                         *)
(*                                                                         *)
(* Time is abstract.  A heartbeat is "fresh" or older than the five minute *)
(* threshold ("stale"); `aged' says the same of createdAt.  Faults         *)
(* (crashes, lost responses, failed sends, redeliveries, five minute        *)
(* stalls) draw on a budget of MaxFaults.                                   *)
(***************************************************************************)
EXTENDS Naturals, Sequences

CONSTANTS
    Runs,           \* run ids
    Invocations,    \* queue batch invocations, named by their serviceId
    Crons,          \* concurrently running cron sweeps
    None,           \* SQL NULL in the service_id column
    MaxLease,       \* bound on leaseVersion
    MaxRetries,     \* queue redeliveries before the dead-letter queue (code: 5)
    MaxFaults,      \* bound on the faults of one behaviour
    CancelTries,    \* attempts of one cancel request (code: 3)
    Cancellable,    \* the runs somebody asks to cancel
    PromptCreation  \* TRUE: no cancel and no five minute stall between the
                    \* INSERT of a run and the UPDATE that marks it queued

ASSUME BoundsAssumption ==
    /\ MaxLease \in Nat
    /\ MaxRetries \in Nat
    /\ MaxFaults \in Nat
    /\ CancelTries \in Nat
ASSUME NoneAssumption == None \notin Invocations
ASSUME CreationAssumption == PromptCreation \in BOOLEAN

VARIABLES
    row,        \* the runs table
    aged,       \* is createdAt older than the stale threshold?
    queue,      \* visible messages: how many per run and delivery attempt
    dlq,        \* messages in the dead-letter queue, per run
    creator,    \* progress of createThreadRun, per run
    handler,    \* the queue batch invocations
    cron,       \* the cron sweeps
    canceller,  \* the cancel request of each run
    container,  \* the agent process of each run and lease version
    claimant,   \* history: the serviceId that claimed each lease version
    terminals,  \* terminal run_events rows, in commit order, per run
    faults      \* faults so far

vars == <<row, aged, queue, dlq, creator, handler, cron, canceller,
          container, claimant, terminals, faults>>

(***************************************************************************)
(* Types.                                                                  *)
(***************************************************************************)

Leases == 1..MaxLease
Attempts == 0..MaxRetries

ActiveStatus == {"pending", "queued", "running"}
TerminalStatus == {"completed", "failed", "cancelled"}
RunStatus == ActiveStatus \cup TerminalStatus \cup {"absent"}

\* completion_key: which lease's complete-run wrote the terminal state (0: a
\* control-plane transition) and the status it wrote.
Key == [lease : 0..MaxLease, status : TerminalStatus \cup {"none"}]
NoKey == [lease |-> 0, status |-> "none"]

Row == [status : RunStatus,
        serviceId : Invocations \cup {None},
        leaseVersion : 0..MaxLease,
        heartbeat : {"null", "fresh", "stale"},
        completionKey : Key]

HandlerPc == {"idle", "recover", "claim", "readback", "access", "freeze",
              "dispatch", "start", "denied", "rejected", "reset", "defer",
              "requeue"}
Handler == [pc : HandlerPc, run : Runs \cup {None}, attempt : Attempts,
            lease : 0..MaxLease]

ContainerPc == {"none", "live", "finishing", "confirmed", "gone"}
Container == [pc : ContainerPc, outcome : {"none", "completed", "failed"}]

Canceller == [pc : {"none", "cas", "reread", "ok", "refused"},
              seen : RunStatus, tries : 0..CancelTries]

Cron == [pc : {"idle", "sendStale", "sendUnclaimed"}, run : Runs \cup {None}]

CreatorPc == {"none", "inserted", "queued", "failing", "done"}

TypeOK ==
    /\ row \in [Runs -> Row]
    /\ aged \in [Runs -> BOOLEAN]
    /\ queue \in [Runs -> [Attempts -> Nat]]
    /\ dlq \in [Runs -> Nat]
    /\ creator \in [Runs -> CreatorPc]
    /\ handler \in [Invocations -> Handler]
    /\ cron \in [Crons -> Cron]
    /\ canceller \in [Runs -> Canceller]
    /\ container \in [Runs -> [Leases -> Container]]
    /\ claimant \in [Runs -> [Leases -> Invocations \cup {None}]]
    /\ terminals \in [Runs -> Seq(Key)]
    /\ faults \in 0..MaxFaults

Init ==
    /\ row = [r \in Runs |-> [status |-> "absent", serviceId |-> None,
                              leaseVersion |-> 0, heartbeat |-> "null",
                              completionKey |-> NoKey]]
    /\ aged = [r \in Runs |-> FALSE]
    /\ queue = [r \in Runs |-> [n \in Attempts |-> 0]]
    /\ dlq = [r \in Runs |-> 0]
    /\ creator = [r \in Runs |-> "none"]
    /\ handler = [i \in Invocations |-> [pc |-> "idle", run |-> None,
                                         attempt |-> 0, lease |-> 0]]
    /\ cron = [c \in Crons |-> [pc |-> "idle", run |-> None]]
    /\ canceller = [r \in Runs |-> [pc |-> "none", seen |-> "absent",
                                    tries |-> 0]]
    /\ container = [r \in Runs |-> [v \in Leases |->
                                      [pc |-> "none", outcome |-> "none"]]]
    /\ claimant = [r \in Runs |-> [v \in Leases |-> None]]
    /\ terminals = [r \in Runs |-> <<>>]
    /\ faults = 0

(***************************************************************************)
(* Building blocks.                                                        *)
(***************************************************************************)

\* One more fault happens, within the budget.
Fault == faults < MaxFaults /\ faults' = faults + 1

\* Mutant: the status is left out of the lease predicate.
HoldsLeaseAnyStatus(r, i, v) == row[r].serviceId = i /\ row[r].leaseVersion = v

\* The row still names this lease as its running owner (the SQL predicate of
\* every lease-fenced statement, and ensureRunLease).
HoldsLease(r, i, v) ==
    /\ row[r].status = "running"
    /\ row[r].serviceId = i
    /\ row[r].leaseVersion = v

\* A queue copy of run r becomes visible at delivery attempt n.
Enqueue(r, n) == queue' = [queue EXCEPT ![r][n] = @ + 1]

\* message.retry(), or a consumer that died: redeliver, or dead-letter after
\* MaxRetries redeliveries.
Redeliver(r, n) ==
    \/ /\ n < MaxRetries
       /\ queue' = [queue EXCEPT ![r][n + 1] = @ + 1]
       /\ UNCHANGED dlq
    \/ /\ n = MaxRetries
       /\ dlq' = [dlq EXCEPT ![r] = @ + 1]
       /\ UNCHANGED queue

\* The atomic terminal batch: the compare-and-set of the row and the rows
\* inserted under the committed predicate (terminal event and outboxes).
CommitTerminal(r, key) ==
    /\ row' = [row EXCEPT ![r] = [@ EXCEPT !.status = key.status,
                                           !.completionKey = key]]
    /\ terminals' = [terminals EXCEPT ![r] = Append(@, key)]

\* transitionRunTerminalAtomically: commits iff its predicate holds.
TransitionRunTerminal(r, enabled, status) ==
    IF enabled THEN CommitTerminal(r, [lease |-> 0, status |-> status])
               ELSE UNCHANGED <<row, terminals>>

\* Mutant: the owner column is not cleared.
ToQueuedKeepsOwner(r) ==
    row' = [row EXCEPT ![r] = [@ EXCEPT !.status = "queued",
                                        !.heartbeat = "null",
                                        !.completionKey = NoKey]]

\* The UPDATE that gives a running row back to the queue.
ToQueued(r) ==
    row' = [row EXCEPT ![r] = [@ EXCEPT !.status = "queued",
                                        !.serviceId = None,
                                        !.heartbeat = "null",
                                        !.completionKey = NoKey]]

\* Mutant: only the heartbeat is looked at.
HasStaleHeartbeat(r) == row[r].heartbeat = "stale"

\* A running row whose owner has been silent for the stale threshold.
IsStaleRunning(r) == row[r].status = "running" /\ row[r].heartbeat = "stale"

(***************************************************************************)
(* createThreadRun.                                                        *)
(***************************************************************************)

CreatorFrame == UNCHANGED <<dlq, handler, cron, canceller, container, claimant>>

\* createPendingRun: INSERT the row as pending.
CreatePendingRun(r) ==
    /\ creator[r] = "none"
    /\ row' = [row EXCEPT ![r].status = "pending"]
    /\ creator' = [creator EXCEPT ![r] = "inserted"]
    /\ UNCHANGED <<aged, queue, terminals, faults>>
    /\ CreatorFrame

\* updateRunStatus(queued): an UPDATE by id alone, whatever the status is.
MarkQueued(r) ==
    /\ creator[r] = "inserted"
    /\ row' = [row EXCEPT ![r].status = "queued"]
    /\ creator' = [creator EXCEPT ![r] = "queued"]
    /\ UNCHANGED <<aged, queue, terminals, faults>>
    /\ CreatorFrame

\* RUN_QUEUE.send succeeds.
SendRun(r) ==
    /\ creator[r] = "queued"
    /\ Enqueue(r, 0)
    /\ creator' = [creator EXCEPT ![r] = "done"]
    /\ UNCHANGED <<row, aged, terminals, faults>>
    /\ CreatorFrame

\* The UPDATE or the send throws; a send that throws may still have delivered.
SendRunThrows(r) ==
    /\ creator[r] \in {"inserted", "queued"}
    /\ Fault
    /\ creator' = [creator EXCEPT ![r] = "failing"]
    /\ \/ UNCHANGED queue
       \/ creator[r] = "queued" /\ Enqueue(r, 0)
    /\ UNCHANGED <<row, aged, terminals>>
    /\ CreatorFrame

\* The catch block: fail the run if it is still unclaimed.
FailEnqueue(r) ==
    /\ creator[r] = "failing"
    /\ TransitionRunTerminal(r, row[r].status \in {"pending", "queued"}, "failed")
    /\ creator' = [creator EXCEPT ![r] = "done"]
    /\ UNCHANGED <<aged, queue, faults>>
    /\ CreatorFrame

\* The request's isolate dies before createThreadRun returns.
CreatorCrash(r) ==
    /\ creator[r] \in {"inserted", "queued", "failing"}
    /\ Fault
    /\ creator' = [creator EXCEPT ![r] = "done"]
    /\ UNCHANGED <<row, aged, queue, terminals>>
    /\ CreatorFrame

CreatorNext ==
    \E r \in Runs :
        \/ CreatePendingRun(r) \/ MarkQueued(r) \/ SendRun(r)
        \/ SendRunThrows(r) \/ FailEnqueue(r) \/ CreatorCrash(r)

(***************************************************************************)
(* handleQueue: one message of one batch invocation.                       *)
(***************************************************************************)

HandlerFrame == UNCHANGED <<aged, creator, cron, canceller>>

Goto(i, pc) == handler' = [handler EXCEPT ![i].pc = pc]

\* The message is settled and the invocation ends.
Settle(i) == handler' = [handler EXCEPT ![i] = [pc |-> "idle", run |-> None,
                                                attempt |-> 0, lease |-> 0]]

Working(i) == handler[i].pc # "idle"

\* Each batch draws a new UUID and the queue delivers batches of one message
\* (max_batch_size = 1), so a message is handled under a serviceId that no
\* running row and no running agent carries.
FreshServiceId(i) ==
    \A r \in Runs :
        /\ ~(row[r].status = "running" /\ row[r].serviceId = i)
        /\ \A v \in Leases : claimant[r][v] = i =>
             container[r][v].pc \notin {"live", "finishing"}

\* The queue hands a visible message to a new invocation.
ReceiveMessage(i, r, n) ==
    /\ handler[i].pc = "idle"
    /\ FreshServiceId(i)
    /\ queue[r][n] > 0
    /\ queue' = [queue EXCEPT ![r][n] = @ - 1]
    /\ handler' = [handler EXCEPT ![i] = [pc |-> "recover", run |-> r,
                                          attempt |-> n, lease |-> 0]]
    /\ UNCHANGED <<row, dlq, container, claimant, terminals, faults>>
    /\ HandlerFrame

\* The run is taken from a dead worker: back to queued if it is running and
\* its heartbeat is older than the threshold.
RecoverStale(i) ==
    LET r == handler[i].run IN
    /\ handler[i].pc = "recover"
    /\ IF IsStaleRunning(r) THEN ToQueued(r) ELSE UNCHANGED row
    /\ Goto(i, "claim")
    /\ UNCHANGED <<queue, dlq, container, claimant, terminals, faults>>
    /\ HandlerFrame

\* Mutant: a running row can be claimed.
ClaimableIfActive(r) == row[r].status \in {"queued", "running"}

\* The claim predicate: queued and unowned.
Claimable(r) == row[r].status = "queued" /\ row[r].serviceId = None

\* The compare-and-set that takes the lease; otherwise the message is acked.
ClaimRun(i) ==
    LET r == handler[i].run
        v == row[r].leaseVersion + 1
    IN
    /\ handler[i].pc = "claim"
    /\ \/ /\ Claimable(r)
          /\ v <= MaxLease
          /\ row' = [row EXCEPT ![r] = [@ EXCEPT !.status = "running",
                                                 !.serviceId = i,
                                                 !.heartbeat = "fresh",
                                                 !.leaseVersion = v]]
          /\ claimant' = [claimant EXCEPT ![r][v] = i]
          /\ Goto(i, "readback")
       \/ /\ ~Claimable(r)
          /\ Settle(i)
          /\ UNCHANGED <<row, claimant>>
    /\ UNCHANGED <<queue, dlq, container, terminals, faults>>
    /\ HandlerFrame

\* Read leaseVersion back, guarded by serviceId.
ReadBackLease(i) ==
    LET r == handler[i].run IN
    /\ handler[i].pc = "readback"
    /\ \/ /\ row[r].serviceId = i
          /\ handler' = [handler EXCEPT ![i] = [@ EXCEPT !.pc = "access",
                                                         !.lease = row[r].leaseVersion]]
       \/ /\ row[r].serviceId # i
          /\ Settle(i)
    /\ UNCHANGED <<row, queue, dlq, container, claimant, terminals, faults>>
    /\ HandlerFrame

\* assertRunExecutionAccess: the requester is, or is no longer, a member.
AssertExecutionAccess(i) ==
    /\ handler[i].pc = "access"
    /\ \E pc \in {"freeze", "denied"} : Goto(i, pc)
    /\ UNCHANGED <<row, queue, dlq, container, claimant, terminals, faults>>
    /\ HandlerFrame

\* A run without a model gets one under the exact lease; losing the lease here
\* retries the message.  A run that has its model goes on unchecked.
FreezeModel(i) ==
    LET h == handler[i] IN
    /\ h.pc = "freeze"
    /\ \/ Goto(i, "dispatch") /\ UNCHANGED <<queue, dlq>>
       \/ /\ ~HoldsLease(h.run, i, h.lease)
          /\ Settle(i)
          /\ Redeliver(h.run, h.attempt)
    /\ UNCHANGED <<row, container, claimant, terminals, faults>>
    /\ HandlerFrame

\* The executor host's lease check on /dispatch; 409 when the lease is gone.
HostChecksLease(i) ==
    LET h == handler[i] IN
    /\ h.pc = "dispatch"
    /\ Goto(i, IF HoldsLease(h.run, i, h.lease) THEN "start" ELSE "rejected")
    /\ UNCHANGED <<row, queue, dlq, container, claimant, terminals, faults>>
    /\ HandlerFrame

StartContainer(r, v) ==
    container' = [container EXCEPT ![r][v] = [pc |-> "live", outcome |-> "none"]]

\* The host starts the agent and answers 202; the message is acked.
HostStartsContainer(i) ==
    LET h == handler[i] IN
    /\ h.pc = "start"
    /\ StartContainer(h.run, h.lease)
    /\ Settle(i)
    /\ UNCHANGED <<row, queue, dlq, claimant, terminals, faults>>
    /\ HandlerFrame

\* The fetch throws or answers 5xx; the agent may have been started all the same.
DispatchFails(i) ==
    LET h == handler[i] IN
    /\ h.pc \in {"dispatch", "start"}
    /\ Fault
    /\ \/ UNCHANGED container
       \/ h.pc = "start" /\ StartContainer(h.run, h.lease)
    /\ Goto(i, "reset")
    /\ UNCHANGED <<row, queue, dlq, claimant, terminals>>
    /\ HandlerFrame

\* The host refuses the dispatch: no free pool slot (503), or a permanent 4xx.
HostRefuses(i) ==
    /\ handler[i].pc = "start"
    /\ Fault
    /\ \E pc \in {"defer", "rejected"} : Goto(i, pc)
    /\ UNCHANGED <<row, queue, dlq, container, claimant, terminals>>
    /\ HandlerFrame

\* Access revoked or dispatch rejected: fail the run under the exact lease and
\* ack, committed or not.
FailClaimedRun(i) ==
    LET h == handler[i] IN
    /\ h.pc \in {"denied", "rejected"}
    /\ TransitionRunTerminal(h.run, HoldsLease(h.run, i, h.lease), "failed")
    /\ Settle(i)
    /\ UNCHANGED <<queue, dlq, container, claimant, faults>>
    /\ HandlerFrame

\* Mutant: the reset is not fenced by serviceId.
ReleaseUnfenced(i, r) ==
    IF row[r].status = "running" THEN ToQueued(r) ELSE UNCHANGED row

\* The row goes back to queued if this invocation still owns it (serviceId is
\* the only fence of this UPDATE).
ReleaseIfOwned(i, r) ==
    IF row[r].status = "running" /\ row[r].serviceId = i
    THEN ToQueued(r) ELSE UNCHANGED row

\* Dispatch failed, or a step threw: give the row back and retry the message.
ResetAndRetry(i) ==
    LET h == handler[i] IN
    /\ h.pc = "reset"
    /\ ReleaseIfOwned(i, h.run)
    /\ Redeliver(h.run, h.attempt)
    /\ Settle(i)
    /\ UNCHANGED <<container, claimant, terminals, faults>>
    /\ HandlerFrame

\* Pool saturated: give the row back, then requeue a copy.
ResetForCapacity(i) ==
    /\ handler[i].pc = "defer"
    /\ ReleaseIfOwned(i, handler[i].run)
    /\ Goto(i, "requeue")
    /\ UNCHANGED <<queue, dlq, container, claimant, terminals, faults>>
    /\ HandlerFrame

\* requeueRunForExecutorCapacity: send a fresh copy and ack; if the send fails
\* the message itself is retried.
RequeueForCapacity(i) ==
    LET h == handler[i] IN
    /\ h.pc = "requeue"
    /\ \/ Enqueue(h.run, 0) /\ UNCHANGED <<dlq, faults>>
       \/ Redeliver(h.run, h.attempt) /\ Fault
    /\ Settle(i)
    /\ UNCHANGED <<row, container, claimant, terminals>>
    /\ HandlerFrame

\* A statement throws: the outer catch resets the row and retries.
HandlerThrows(i) ==
    /\ handler[i].pc \in {"recover", "claim", "readback", "access", "freeze",
                          "denied", "rejected"}
    /\ Fault
    /\ Goto(i, "reset")
    /\ UNCHANGED <<row, queue, dlq, container, claimant, terminals>>
    /\ HandlerFrame

\* The invocation dies: the message is redelivered.
HandlerCrash(i) ==
    LET h == handler[i] IN
    /\ Working(i)
    /\ Fault
    /\ Settle(i)
    /\ Redeliver(h.run, h.attempt)
    /\ UNCHANGED <<row, container, claimant, terminals>>
    /\ HandlerFrame

\* At-least-once delivery: a message in flight becomes visible again.
DuplicateDelivery(i) ==
    /\ Working(i)
    /\ Fault
    /\ Enqueue(handler[i].run, handler[i].attempt)
    /\ UNCHANGED <<row, dlq, handler, container, claimant, terminals>>
    /\ HandlerFrame

\* Mutant: the dead letter fails the run whatever its status.
ConsumeDeadLetterUnguarded(r) ==
    /\ dlq[r] > 0
    /\ dlq' = [dlq EXCEPT ![r] = @ - 1]
    /\ TransitionRunTerminal(r, TRUE, "failed")
    /\ UNCHANGED <<queue, handler, container, claimant, faults>>
    /\ HandlerFrame

\* The dead-letter branch: fail the run if no lease is running it, then ack.
ConsumeDeadLetter(r) ==
    /\ dlq[r] > 0
    /\ dlq' = [dlq EXCEPT ![r] = @ - 1]
    /\ TransitionRunTerminal(r, row[r].status \in {"pending", "queued"}, "failed")
    /\ UNCHANGED <<queue, handler, container, claimant, faults>>
    /\ HandlerFrame

\* The steps the invocation takes by itself, once it has a message.
HandlerStep(i) ==
    \/ RecoverStale(i) \/ ClaimRun(i) \/ ReadBackLease(i)
    \/ AssertExecutionAccess(i) \/ FreezeModel(i) \/ HostChecksLease(i)
    \/ HostStartsContainer(i) \/ FailClaimedRun(i) \/ ResetAndRetry(i)
    \/ ResetForCapacity(i) \/ RequeueForCapacity(i)

HandlerNext ==
    \/ \E i \in Invocations :
        \/ HandlerStep(i)
        \/ \E r \in Runs, n \in Attempts : ReceiveMessage(i, r, n)
        \/ DispatchFails(i) \/ HostRefuses(i) \/ HandlerThrows(i)
        \/ HandlerCrash(i) \/ DuplicateDelivery(i)
    \/ \E r \in Runs : ConsumeDeadLetter(r)

(***************************************************************************)
(* The agent container and its control RPCs.                               *)
(***************************************************************************)

ContainerFrame == UNCHANGED <<aged, queue, dlq, creator, handler, cron,
                              canceller, claimant>>

Stop(r, v, pc) == container' = [container EXCEPT ![r][v].pc = pc]

\* Mutant: any agent of a running row passes for its owner.
RunIsRunning(r, v) == row[r].status = "running"

\* The lease a container was started with is still the running owner.
ContainerHoldsLease(r, v) == HoldsLease(r, claimant[r][v], v)

\* handleHeartbeat: renew under the lease predicate (also while finalizing).
Heartbeat(r, v) ==
    /\ container[r][v].pc \in {"live", "finishing"}
    /\ ContainerHoldsLease(r, v)
    /\ row' = [row EXCEPT ![r].heartbeat = "fresh"]
    /\ UNCHANGED <<container, terminals, faults>>
    /\ ContainerFrame

\* A heartbeat answered 409: the agent cancels its work.
HeartbeatLeaseLost(r, v) ==
    /\ container[r][v].pc = "live"
    /\ ~ContainerHoldsLease(r, v)
    /\ Stop(r, v, "gone")
    /\ UNCHANGED <<row, terminals, faults>>
    /\ ContainerFrame

\* The engine loop ends; the payload of complete-run is now fixed.
FinishWork(r, v) ==
    /\ container[r][v].pc = "live"
    /\ \E st \in {"completed", "failed"} :
         container' = [container EXCEPT ![r][v] = [pc |-> "finishing",
                                                   outcome |-> st]]
    /\ UNCHANGED <<row, terminals, faults>>
    /\ ContainerFrame

CompletionKey(r, v) == [lease |-> v, status |-> container[r][v].outcome]

\* completeRunAtomically commits; the response reaches the agent or is lost.
CompleteRun(r, v) ==
    /\ container[r][v].pc = "finishing"
    /\ ContainerHoldsLease(r, v)
    /\ CommitTerminal(r, CompletionKey(r, v))
    /\ \/ Stop(r, v, "confirmed") /\ UNCHANGED faults
       \/ Fault /\ UNCHANGED container
    /\ ContainerFrame

\* Mutant: equal statuses are taken for a replay.
SameStatus(r, v) == row[r].status = container[r][v].outcome

\* The row already carries this very completion.
IsReplay(r, v) ==
    /\ row[r].status = container[r][v].outcome
    /\ row[r].serviceId = claimant[r][v]
    /\ row[r].leaseVersion = v
    /\ row[r].completionKey = CompletionKey(r, v)

\* A retry of complete-run finds its own commit (idempotent success), or finds
\* that another outcome won (409 Lease lost).
CompleteRunAgain(r, v) ==
    /\ container[r][v].pc = "finishing"
    /\ ~ContainerHoldsLease(r, v)
    /\ Stop(r, v, IF IsReplay(r, v) THEN "confirmed" ELSE "gone")
    /\ UNCHANGED <<row, terminals, faults>>
    /\ ContainerFrame

\* The container dies, or runs out of finalization attempts.
ContainerDies(r, v) ==
    /\ container[r][v].pc \in {"live", "finishing"}
    /\ Fault
    /\ Stop(r, v, "gone")
    /\ UNCHANGED <<row, terminals>>
    /\ ContainerFrame

ContainerStep(r, v) ==
    \/ HeartbeatLeaseLost(r, v) \/ FinishWork(r, v)
    \/ CompleteRun(r, v) \/ CompleteRunAgain(r, v)

ContainerNext ==
    \E r \in Runs, v \in Leases :
        ContainerStep(r, v) \/ Heartbeat(r, v) \/ ContainerDies(r, v)

(***************************************************************************)
(* The cron sweep.                                                         *)
(***************************************************************************)

CronFrame == UNCHANGED <<aged, dlq, creator, handler, canceller, container,
                         claimant, terminals>>

CronTo(c, pc, r) == cron' = [cron EXCEPT ![c] = [pc |-> pc, run |-> r]]

\* reenqueueStaleRunningRuns: reset one stale running run.
CronResetsStale(c, r) ==
    /\ cron[c].pc = "idle"
    /\ IsStaleRunning(r)
    /\ ToQueued(r)
    /\ CronTo(c, "sendStale", r)
    /\ UNCHANGED <<queue, faults>>
    /\ CronFrame

\* Mutant: a run whose creator died before marking it queued is not looked at.
IsUnclaimedQueued(r) ==
    /\ row[r].status = "queued"
    /\ row[r].serviceId = None
    /\ aged[r]
    /\ row[r].heartbeat \in {"null", "stale"}

\* An old run that nobody claimed, not marked in the last five minutes.
IsUnclaimed(r) ==
    /\ row[r].status \in {"pending", "queued"}
    /\ row[r].serviceId = None
    /\ aged[r]
    /\ row[r].heartbeat \in {"null", "stale"}

\* reenqueueStaleUnclaimedRuns: mark one old run that nobody claimed.
CronMarksUnclaimed(c, r) ==
    /\ cron[c].pc = "idle"
    /\ IsUnclaimed(r)
    /\ row' = [row EXCEPT ![r] = [@ EXCEPT !.status = "queued",
                                           !.heartbeat = "fresh"]]
    /\ CronTo(c, "sendUnclaimed", r)
    /\ UNCHANGED <<queue, faults>>
    /\ CronFrame

\* sendRunQueueMessage succeeds.
CronSends(c) ==
    /\ cron[c].pc # "idle"
    /\ Enqueue(cron[c].run, 0)
    /\ CronTo(c, "idle", None)
    /\ UNCHANGED <<row, faults>>
    /\ CronFrame

\* The send throws.  A recovered run is put back to running with an epoch
\* heartbeat if it is still queued; an unclaimed one waits for the next sweep.
CronSendThrows(c) ==
    LET r == cron[c].run IN
    /\ cron[c].pc # "idle"
    /\ Fault
    /\ IF cron[c].pc = "sendStale" /\ row[r].status = "queued"
       THEN row' = [row EXCEPT ![r] = [@ EXCEPT !.status = "running",
                                                !.heartbeat = "stale"]]
       ELSE UNCHANGED row
    /\ CronTo(c, "idle", None)
    /\ UNCHANGED queue
    /\ CronFrame

\* The sweep dies between the reset and the send, or the revert fails.
CronCrash(c) ==
    /\ cron[c].pc # "idle"
    /\ Fault
    /\ CronTo(c, "idle", None)
    /\ UNCHANGED <<row, queue>>
    /\ CronFrame

CronStep(c) ==
    \/ CronSends(c)
    \/ \E r \in Runs : CronResetsStale(c, r) \/ CronMarksUnclaimed(c, r)

CronNext == \E c \in Crons : CronStep(c) \/ CronSendThrows(c) \/ CronCrash(c)

(***************************************************************************)
(* POST /runs/:id/cancel.                                                  *)
(***************************************************************************)

CancelFrame == UNCHANGED <<aged, queue, dlq, creator, handler, cron, container,
                           claimant, faults>>

\* checkRunAccess reads the status the first attempt will expect.
RequestCancel(r) ==
    /\ r \in Cancellable
    /\ canceller[r].pc = "none"
    /\ row[r].status # "absent"
    /\ PromptCreation => creator[r] # "inserted"
    /\ canceller' = [canceller EXCEPT ![r] = [@ EXCEPT !.pc = "cas",
                                                       !.seen = row[r].status]]
    /\ UNCHANGED <<row, terminals>>
    /\ CancelFrame

\* Mutant: the cancel overwrites whatever it finds.
CancelAlwaysMatches(r) == TRUE

\* The compare-and-set of the cancel: the row still has the status seen.
CancelMatches(r) == row[r].status = canceller[r].seen

\* Mutant: the loop makes one attempt too many.
MayTryOnceMore(r) == canceller[r].tries <= CancelTries

\* The condition of the loop of attempts.
MayTry(r) == canceller[r].tries < CancelTries

\* One attempt: refuse a finished run, else compare-and-set the status seen.
\* The attempt also fails when the running agent saves a checkpoint between the
\* transition's read of the checkpoint pointer and its UPDATE.
CancelAttempt(r) ==
    LET c == canceller[r] IN
    /\ c.pc = "cas"
    /\ \/ /\ c.seen \in TerminalStatus \/ ~MayTry(r)
          /\ canceller' = [canceller EXCEPT ![r].pc = "refused"]
          /\ UNCHANGED <<row, terminals>>
       \/ /\ c.seen \in ActiveStatus /\ MayTry(r)
          /\ CancelMatches(r)
          /\ CommitTerminal(r, [lease |-> 0, status |-> "cancelled"])
          /\ canceller' = [canceller EXCEPT ![r].pc = "ok"]
       \/ /\ c.seen \in ActiveStatus /\ MayTry(r)
          /\ \/ ~CancelMatches(r)
             \/ \E v \in Leases : /\ container[r][v].pc = "live"
                                  /\ ContainerHoldsLease(r, v)
          /\ canceller' = [canceller EXCEPT ![r].pc = "reread"]
          /\ UNCHANGED <<row, terminals>>
    /\ CancelFrame

\* Read the status again for the next of at most three attempts.
CancelRereads(r) ==
    /\ canceller[r].pc = "reread"
    /\ canceller' = [canceller EXCEPT ![r] = [pc |-> "cas",
                                              seen |-> row[r].status,
                                              tries |-> @.tries + 1]]
    /\ UNCHANGED <<row, terminals>>
    /\ CancelFrame

CancelNext == \E r \in Runs : RequestCancel(r) \/ CancelAttempt(r) \/ CancelRereads(r)

(***************************************************************************)
(* Time.                                                                   *)
(***************************************************************************)

TimeFrame == UNCHANGED <<queue, dlq, creator, handler, cron, canceller,
                         container, claimant, terminals>>

\* Somebody is about to move the run: a message, an invocation, a sweep or the
\* agent of the current lease.
Attended(r) ==
    \/ \E n \in Attempts : queue[r][n] > 0
    \/ \E i \in Invocations : Working(i) /\ handler[i].run = r
    \/ \E c \in Crons : cron[c].run = r
    \/ \E v \in Leases : /\ container[r][v].pc \in {"live", "finishing"}
                         /\ ContainerHoldsLease(r, v)

\* Five minutes pass with nobody on the run.
HeartbeatExpires(r) ==
    /\ row[r].heartbeat = "fresh"
    /\ ~Attended(r)
    /\ row' = [row EXCEPT ![r].heartbeat = "stale"]
    /\ UNCHANGED <<aged, faults>>
    /\ TimeFrame

\* Whoever attends the run stalls for five minutes.
HeartbeatExpiresEarly(r) ==
    /\ row[r].heartbeat = "fresh"
    /\ Attended(r)
    /\ Fault
    /\ row' = [row EXCEPT ![r].heartbeat = "stale"]
    /\ UNCHANGED aged
    /\ TimeFrame

\* The run was created more than five minutes ago.
CreatedAtAges(r) ==
    /\ ~aged[r]
    /\ row[r].status # "absent"
    /\ PromptCreation => creator[r] # "inserted"
    /\ aged' = [aged EXCEPT ![r] = TRUE]
    /\ UNCHANGED <<row, faults>>
    /\ TimeFrame

TimeNext ==
    \E r \in Runs : HeartbeatExpires(r) \/ HeartbeatExpiresEarly(r) \/ CreatedAtAges(r)

(***************************************************************************)
(* Specification.                                                          *)
(***************************************************************************)

Next == CreatorNext \/ HandlerNext \/ ContainerNext \/ CronNext \/ CancelNext
        \/ TimeNext

Spec == Init /\ [][Next]_vars

\* createThreadRun and the cancel route run to their end unless they crash; the
\* queue delivers visible messages to some invocation; an invocation, a sweep
\* and an agent keep executing; sweeps are scheduled for ever and reach every
\* run; time passes.  Faults, heartbeats and requests are not fair.
Fairness ==
    /\ \A r \in Runs :
        /\ WF_vars(MarkQueued(r) \/ SendRun(r) \/ FailEnqueue(r))
        /\ WF_vars(CancelAttempt(r) \/ CancelRereads(r))
        /\ WF_vars(\E i \in Invocations, n \in Attempts : ReceiveMessage(i, r, n))
        /\ WF_vars(ConsumeDeadLetter(r))
        /\ WF_vars(\E c \in Crons : CronResetsStale(c, r) \/ CronMarksUnclaimed(c, r))
        /\ WF_vars(HeartbeatExpires(r))
        /\ WF_vars(CreatedAtAges(r))
        /\ \A v \in Leases : WF_vars(ContainerStep(r, v))
    /\ \A i \in Invocations : WF_vars(HandlerStep(i))
    /\ \A c \in Crons : WF_vars(CronSends(c))

FairSpec == Spec /\ Fairness

(***************************************************************************)
(* Properties.                                                             *)
(***************************************************************************)

\* A terminal row is final: once any actor has written completed, failed or
\* cancelled, no recovery, late container, dead letter, cancel or creator step
\* changes the status or the completion key again.
TerminalIsFinal ==
    [][\A r \in Runs : row[r].status \in TerminalStatus =>
         /\ row'[r].status = row[r].status
         /\ row'[r].completionKey = row[r].completionKey]_vars

\* Each run has exactly one terminal event (and so one set of outbox rows) if it
\* is finished and none if it is not, and the event is the one of the row's
\* status: racing finishers never leave two outcomes, or one that disagrees.
OneTerminalRecord ==
    \A r \in Runs :
        terminals[r] = IF row[r].status \in TerminalStatus
                       THEN <<row[r].completionKey>> ELSE <<>>

\* A result written by complete-run comes from the newest lease ever granted
\* for the run: no container was started for a later one, so no work done after
\* a takeover is thrown away for the work of the process it replaced.
CompletionByNewestLease ==
    \A r \in Runs : row[r].completionKey.lease > 0 =>
        \A v \in Leases :
            claimant[r][v] # None => v <= row[r].completionKey.lease

\* What an actor was told stays true: an agent whose complete-run was confirmed
\* (first answer or replay) is the one whose outcome the row carries, and a
\* cancel answered with success is a cancelled run.
AnswersAreTrue ==
    \A r \in Runs :
        /\ \A v \in Leases : container[r][v].pc = "confirmed" =>
             row[r].completionKey = CompletionKey(r, v)
        /\ canceller[r].pc = "ok" => row[r].status = "cancelled"

\* Duplicate queue messages are safe: a running agent whose heartbeat is fresh
\* is put back to the queue only by the dispatch of its own lease, when that
\* dispatch was reported as failed; no other invocation, sweep or redelivery
\* takes its lease, although the handler's resets are fenced by serviceId alone.
LiveLeaseIsKept ==
    [][\A r \in Runs, v \in Leases :
         (/\ container[r][v].pc \in {"live", "finishing"}
          /\ ContainerHoldsLease(r, v)
          /\ row[r].heartbeat = "fresh"
          /\ row'[r].status = "queued")
         => \E i \in Invocations : /\ handler[i].pc = "reset"
                                   /\ handler[i].run = r
                                   /\ handler[i].lease = v
                                   /\ claimant[r][v] = i]_vars

\* A run waiting for a claim is always claimable: pending and queued rows have
\* no owner, otherwise neither the claim, nor the stale sweep, nor the unclaimed
\* sweep would ever match them again.
WaitingRunsAreUnowned ==
    \A r \in Runs : row[r].status \in {"pending", "queued"} =>
        row[r].serviceId = None

\* The owner named by a running row is the invocation that claimed its current
\* lease version, whatever takeovers, resets and reverts happened.
OwnerIsClaimant ==
    \A r \in Runs : row[r].serviceId # None =>
        /\ row[r].leaseVersion \in Leases
        /\ row[r].serviceId = claimant[r][row[r].leaseVersion]

\* The ledger's view of a row.  A row the cron put back to running has no owner.
PhaseOf(r) ==
    IF row[r].status \in {"pending", "queued"} THEN "waiting"
    ELSE IF row[r].status # "running" THEN row[r].status
    ELSE IF row[r].serviceId = None THEN "waiting" ELSE "owned"

Ledger == INSTANCE RunLedger WITH
    phase <- [r \in Runs |-> PhaseOf(r)],
    epoch <- [r \in Runs |-> row[r].leaseVersion]

\* RunLifecycle implements RunLedger: seen through PhaseOf, every statement of
\* every actor is a create, a claim under a new epoch, a release, a final
\* outcome, or invisible.
ImplementsLedger == Ledger!Spec

\* Every run that was created ends, through any crashes, lost messages, dead
\* containers and stalls the budget allows.
EveryRunEnds ==
    \A r \in Runs : row[r].status \in ActiveStatus ~> row[r].status \in TerminalStatus
=============================================================================

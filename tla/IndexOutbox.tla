---------------------------- MODULE IndexOutbox ----------------------------
(***************************************************************************)
(* One search-index job: its row in index_jobs, the dispatchers that send   *)
(* the row to the index queue (index-outbox.ts: the flush after a terminal  *)
(* commit and the runner's cron), the queue consumer (indexer/index.ts) and *)
(* the consumer of its dead letters (indexer/handlers.ts).                  *)
(*                                                                         *)
(* No statement touches two rows, so one job is enough.  Every SQL          *)
(* statement is a step.  The queue delivers a message at least once: a      *)
(* delivery, named by its deliveryId, may exist in two copies, and a copy   *)
(* is also the consumer invocation that handles it.  The timestamps         *)
(* started_at are successive numbers; "stale" is the age that the reader of *)
(* the row asks for (five minutes for a row that waits, fifteen for one     *)
(* that runs).                                                             *)
(***************************************************************************)
EXTENDS Naturals

CONSTANTS
    Dispatchers,    \* invocations of dispatchTerminalIndexOutbox
    Sweepers,       \* those of the cron, which pass staleBefore
    MaxDeliveries,  \* bound on the deliveries of the job
    MaxRetries,     \* max_retries of the index queue
    MaxDlqRetries,  \* max_retries of its dead-letter queue
    MaxFaults       \* bound on crashes, failed calls, delays and duplicates

ASSUME IndexAssumption ==
    /\ Sweepers \subseteq Dispatchers
    /\ MaxDeliveries \in Nat \ {0}
    /\ MaxRetries \in Nat /\ MaxDlqRetries \in Nat /\ MaxFaults \in Nat

VARIABLES
    row,         \* the row of the job; status "none" before it exists
    dispatcher,  \* progress of each dispatcher
    msg,         \* every copy of every delivery, and its consumer
    minted,      \* deliveries so far
    clock,       \* the last started_at that was written
    dropped,     \* the dead letter used up its retries
    faults       \* faults so far

vars == <<row, dispatcher, msg, minted, clock, dropped, faults>>

Deliveries == 1..MaxDeliveries
Msgs == Deliveries \X {1, 2}

\* claim_token and started_at are 0 for NULL.
Status == {"none", "queued", "enqueued", "running", "completed", "failed"}
Row == [status : Status, token : 0..MaxDeliveries, startedAt : Nat,
        stale : BOOLEAN]

DispatcherPc == {"idle", "claim", "send", "revert"}
Dispatcher == [pc : DispatcherPc, seen : Status, delivery : 0..MaxDeliveries,
               at : Nat]

MsgPc == {"none", "waiting", "read", "claim", "handle", "complete", "fail",
          "release", "dead", "dlqCommit", "gone"}
Msg == [pc : MsgPc, tries : Nat, seen : Status, seenToken : 0..MaxDeliveries,
        seenAt : Nat]

TypeOK ==
    /\ row \in Row
    /\ dispatcher \in [Dispatchers -> Dispatcher]
    /\ msg \in [Msgs -> Msg]
    /\ minted \in 0..MaxDeliveries
    /\ clock \in Nat
    /\ dropped \in BOOLEAN
    /\ faults \in 0..MaxFaults

Idle == [pc |-> "idle", seen |-> "none", delivery |-> 0, at |-> 0]
NoMsg == [pc |-> "none", tries |-> 0, seen |-> "none", seenToken |-> 0, seenAt |-> 0]

Init ==
    /\ row = [status |-> "none", token |-> 0, startedAt |-> 0, stale |-> FALSE]
    /\ dispatcher = [x \in Dispatchers |-> Idle]
    /\ msg = [m \in Msgs |-> NoMsg]
    /\ minted = 0
    /\ clock = 0
    /\ dropped = FALSE
    /\ faults = 0

Fault == faults < MaxFaults /\ faults' = faults + 1

\* UPDATE of status, claim_token and started_at at once.
SetRow(status, token, at) ==
    row' = [status |-> status, token |-> token, startedAt |-> at, stale |-> FALSE]

\* UPDATE that ends the job: started_at stays.
EndRow(status) == row' = [row EXCEPT !.status = status, !.token = 0]

(***************************************************************************)
(* Where jobs come from.                                                   *)
(***************************************************************************)

OriginFrame == UNCHANGED <<dispatcher, clock, dropped, faults>>

\* The terminal transaction of a run inserts the row.
CommitOutboxRow ==
    /\ row.status = "none" /\ minted = 0
    /\ SetRow("queued", 0, 0)
    /\ UNCHANGED <<msg, minted>>
    /\ OriginFrame

\* A thread_context job that has more to do sends a follow-up without a row.
SendFollowUp ==
    /\ row.status = "none" /\ minted = 0
    /\ minted' = 1
    /\ msg' = [msg EXCEPT ![<<1, 1>>].pc = "waiting"]
    /\ UNCHANGED row
    /\ OriginFrame

(***************************************************************************)
(* dispatchTerminalIndexOutbox.                                            *)
(***************************************************************************)

\* Mutant: only rows without a time are overdue.
IsUntimed == row.startedAt = 0

\* started_at IS NULL OR started_at < staleBefore.
IsOverdue == row.startedAt = 0 \/ row.stale

Dispatchable(x, status) ==
    /\ row.status = status
    /\ \/ status = "queued"
       \/ status = "enqueued" /\ x \in Sweepers /\ IsOverdue

\* The SELECT; a dispatcher that finds nothing stays idle.
SelectJob(x) ==
    /\ dispatcher[x].pc = "idle"
    /\ \E status \in {"queued", "enqueued"} :
          /\ Dispatchable(x, status)
          /\ dispatcher' = [dispatcher EXCEPT ![x].pc = "claim",
                                              ![x].seen = status]
    /\ UNCHANGED <<row, msg, minted, clock, dropped, faults>>

\* The compare-and-set to enqueued under a new deliveryId.
ClaimForDelivery(x) ==
    /\ dispatcher[x].pc = "claim"
    /\ IF Dispatchable(x, dispatcher[x].seen)
       THEN /\ minted < MaxDeliveries
            /\ minted' = minted + 1
            /\ clock' = clock + 1
            /\ SetRow("enqueued", minted + 1, clock + 1)
            /\ dispatcher' = [dispatcher EXCEPT ![x].pc = "send",
                                                ![x].delivery = minted + 1,
                                                ![x].at = clock + 1]
       ELSE /\ dispatcher' = [dispatcher EXCEPT ![x] = Idle]
            /\ UNCHANGED <<row, minted, clock>>
    /\ UNCHANGED <<msg, dropped, faults>>

\* The queue accepts the message.
Accept(x) == msg' = [msg EXCEPT ![<<dispatcher[x].delivery, 1>>].pc = "waiting"]

SendDelivery(x) ==
    /\ dispatcher[x].pc = "send"
    /\ Accept(x)
    /\ dispatcher' = [dispatcher EXCEPT ![x] = Idle]
    /\ UNCHANGED <<row, minted, clock, dropped, faults>>

\* The send throws, although the queue may have the message.
SendThrows(x) ==
    /\ dispatcher[x].pc = "send"
    /\ Fault
    /\ Accept(x) \/ UNCHANGED msg
    /\ dispatcher' = [dispatcher EXCEPT ![x].pc = "revert"]
    /\ UNCHANGED <<row, minted, clock, dropped>>

\* The claim of the dispatcher is still in the row.
IsExactClaim(x) ==
    /\ row.status = "enqueued"
    /\ row.token = dispatcher[x].delivery
    /\ row.startedAt = dispatcher[x].at

RevertClaim(x) ==
    /\ dispatcher[x].pc = "revert"
    /\ IF IsExactClaim(x) THEN SetRow("queued", 0, 0) ELSE UNCHANGED row
    /\ dispatcher' = [dispatcher EXCEPT ![x] = Idle]
    /\ UNCHANGED <<msg, minted, clock, dropped, faults>>

\* The isolate dies, or a statement throws.
DispatcherStops(x) ==
    /\ dispatcher[x].pc # "idle"
    /\ Fault
    /\ dispatcher' = [dispatcher EXCEPT ![x] = Idle]
    /\ UNCHANGED <<row, msg, minted, clock, dropped>>

(***************************************************************************)
(* The queue consumer.                                                     *)
(***************************************************************************)

ConsumerFrame == UNCHANGED <<dispatcher, minted>>

Ack(m) == msg' = [msg EXCEPT ![m] = [NoMsg EXCEPT !.pc = "gone"]]

\* message.retry; a delay waits for the claim of time "at", 0 for none.  After
\* the last retry the message goes to the dead-letter queue.
RetryAt(m, at) ==
    msg' = [msg EXCEPT ![m] =
              IF @.tries < MaxRetries
              THEN [NoMsg EXCEPT !.pc = "waiting", !.tries = msg[m].tries + 1, !.seenAt = at]
              ELSE [NoMsg EXCEPT !.pc = "dead", !.seenAt = at]]

Retry(m) == RetryAt(m, 0)

\* indexClaimRetryDelaySeconds: the claim that m waits for is still running and
\* younger than fifteen minutes.
IsDelayed(m) ==
    row.status = "running" /\ row.startedAt = msg[m].seenAt /\ ~row.stale

\* A message is delivered; the consumer inserts the row if there is none.
ReceiveMessage(m) ==
    /\ msg[m].pc = "waiting" /\ ~IsDelayed(m)
    /\ msg' = [msg EXCEPT ![m].pc = "read"]
    /\ IF row.status = "none" THEN SetRow("enqueued", 0, 0) ELSE UNCHANGED row
    /\ UNCHANGED <<clock, dropped, faults>>
    /\ ConsumerFrame

\* The consumer reads the row and stays with it, or takes the message for a
\* duplicate or a superseded copy, or waits for the claim to age.
ReadJob(m) ==
    /\ msg[m].pc = "read"
    /\ \/ /\ \/ row.status \in {"completed", "failed"}
             \/ row.status = "running" /\ row.token # m[1]
             \/ row.status = "enqueued" /\ row.token \notin {0, m[1]}
          /\ Ack(m)
       \/ /\ row.status = "running" /\ row.token = m[1] /\ ~row.stale
          /\ RetryAt(m, row.startedAt)
       \/ /\ \/ row.status = "queued"
             \/ row.status = "enqueued" /\ row.token \in {0, m[1]}
             \/ row.status = "running" /\ row.token = m[1] /\ row.stale
          /\ msg' = [msg EXCEPT ![m].pc = "claim", ![m].seen = row.status,
                                ![m].seenToken = row.token,
                                ![m].seenAt = row.startedAt]
    /\ UNCHANGED <<row, clock, dropped, faults>>
    /\ ConsumerFrame

\* Mutant: a stale claim is taken over by token alone.
IsPriorStateByToken(m) ==
    /\ row.status = msg[m].seen
    /\ msg[m].seen = "running" => row.token = m[1]
    /\ msg[m].seen = "enqueued" /\ msg[m].seenToken # 0 => row.token = m[1]

\* exactPriorState: the token counts only if the row had one.
IsPriorState(m) ==
    /\ row.status = msg[m].seen
    /\ msg[m].seen = "running" => row.token = m[1] /\ row.startedAt = msg[m].seenAt
    /\ msg[m].seen = "enqueued" /\ msg[m].seenToken # 0 => row.token = m[1]

ClaimJob(m) ==
    /\ msg[m].pc = "claim"
    /\ IF IsPriorState(m)
       THEN /\ clock' = clock + 1
            /\ SetRow("running", m[1], clock + 1)
            /\ msg' = [msg EXCEPT ![m].pc = "handle"]
       ELSE /\ Ack(m)
            /\ UNCHANGED <<row, clock>>
    /\ UNCHANGED <<dropped, faults>>
    /\ ConsumerFrame

\* The handler returns: processed, or refused for good.
HandlerReturns(m) ==
    /\ msg[m].pc = "handle"
    /\ \E pc \in {"complete", "fail"} : msg' = [msg EXCEPT ![m].pc = pc]
    /\ UNCHANGED <<row, clock, dropped, faults>>
    /\ ConsumerFrame

\* The handler throws or reports a failure that may be retried.
HandlerFails(m) ==
    /\ msg[m].pc = "handle"
    /\ Fault
    /\ msg' = [msg EXCEPT ![m].pc = "release"]
    /\ UNCHANGED <<row, clock, dropped>>
    /\ ConsumerFrame

\* status = 'running' AND claim_token = deliveryId.
HoldsClaim(m) == row.status = "running" /\ row.token = m[1]

\* The outcome is written, if the claim is still there.
FinishJob(m) ==
    /\ msg[m].pc \in {"complete", "fail"}
    /\ IF HoldsClaim(m)
       THEN /\ EndRow(IF msg[m].pc = "complete" THEN "completed" ELSE "failed")
            /\ Ack(m)
       ELSE /\ Retry(m)
            /\ UNCHANGED row
    /\ UNCHANGED <<clock, dropped, faults>>
    /\ ConsumerFrame

\* That write throws, before or after it took effect.
FinishThrows(m) ==
    /\ msg[m].pc \in {"complete", "fail"}
    /\ Fault
    /\ \/ UNCHANGED row
       \/ /\ HoldsClaim(m)
          /\ EndRow(IF msg[m].pc = "complete" THEN "completed" ELSE "failed")
    /\ msg' = [msg EXCEPT ![m].pc = "release"]
    /\ UNCHANGED <<clock, dropped>>
    /\ ConsumerFrame

\* The claim is given back and the message retried.
ReleaseJob(m) ==
    /\ msg[m].pc = "release"
    /\ IF HoldsClaim(m) THEN SetRow("enqueued", 0, 0) ELSE UNCHANGED row
    /\ Retry(m)
    /\ UNCHANGED <<clock, dropped, faults>>
    /\ ConsumerFrame

Working == {"handle", "complete", "fail", "release"}

\* The isolate dies, or a statement throws before the claim or after the
\* handler: the message is delivered again.
ConsumerStops(m) ==
    /\ msg[m].pc \in {"read", "claim"} \cup Working
    /\ Fault
    /\ Retry(m)
    /\ UNCHANGED <<row, clock, dropped>>
    /\ ConsumerFrame

(***************************************************************************)
(* handleIndexJobDlq, and the retries of the dead-letter queue.            *)
(***************************************************************************)

\* Beyond its retries the dead letter is discarded.
RetryDeadAt(m, at) ==
    IF msg[m].tries < MaxDlqRetries
    THEN /\ msg' = [msg EXCEPT ![m].pc = "dead", ![m].tries = @ + 1,
                               ![m].seenAt = at]
         /\ UNCHANGED dropped
    ELSE /\ Ack(m)
         /\ dropped' = TRUE

\* A claim of the same delivery that is still young is left alone.
ReadDead(m) ==
    /\ msg[m].pc = "dead" /\ ~IsDelayed(m)
    /\ IF HoldsClaim(m) /\ ~row.stale
       THEN RetryDeadAt(m, row.startedAt)
       ELSE /\ msg' = [msg EXCEPT ![m].pc = "dlqCommit"]
            /\ UNCHANGED dropped
    /\ UNCHANGED <<row, clock, faults>>
    /\ ConsumerFrame

\* Mutant: a dead letter fails the job whatever its status.
FailedByAnyDlq(m) == row.status # "none"

\* What a dead letter may fail.
FailedByDlq(m) ==
    \/ row.status \in {"queued", "enqueued"}
    \/ HoldsClaim(m) /\ IsOverdue

CommitDead(m) ==
    /\ msg[m].pc = "dlqCommit"
    /\ IF FailedByDlq(m) THEN EndRow("failed") ELSE UNCHANGED row
    /\ Ack(m)
    /\ UNCHANGED <<clock, dropped, faults>>
    /\ ConsumerFrame

\* The read or the batch throws, or the isolate dies.
DlqStops(m) ==
    /\ msg[m].pc \in {"dead", "dlqCommit"} /\ ~IsDelayed(m)
    /\ Fault
    /\ RetryDeadAt(m, 0)
    /\ UNCHANGED <<row, clock>>
    /\ ConsumerFrame

(***************************************************************************)
(* Time and the queue.                                                     *)
(***************************************************************************)

\* Somebody is about to act on the claim in the row.
InProgress ==
    \/ \E x \in Dispatchers : /\ dispatcher[x].pc \in {"send", "revert"}
                              /\ dispatcher[x].delivery = row.token
    \/ \E m \in Msgs : /\ msg[m].pc \in {"waiting", "read", "claim"} \cup Working
                       /\ m[1] = row.token

Ages == row.status \in {"enqueued", "running"} /\ row.startedAt # 0 /\ ~row.stale

\* Time passes for a claim that nobody works on.
Elapse ==
    /\ Ages
    /\ IF row.status = "enqueued" THEN ~InProgress
       ELSE \A m \in Msgs : msg[m].pc \in Working => ~HoldsClaim(m)
    /\ row' = [row EXCEPT !.stale = TRUE]
    /\ UNCHANGED <<dispatcher, msg, minted, clock, dropped, faults>>

\* A delivery under way takes longer than five minutes.
Delay ==
    /\ Ages /\ row.status = "enqueued" /\ InProgress
    /\ Fault
    /\ row' = [row EXCEPT !.stale = TRUE]
    /\ UNCHANGED <<dispatcher, msg, minted, clock, dropped>>

\* The queue delivers a message twice.
Duplicate(d) ==
    /\ msg[<<d, 1>>].pc = "waiting" /\ msg[<<d, 2>>].pc = "none"
    /\ Fault
    /\ msg' = [msg EXCEPT ![<<d, 2>>] = msg[<<d, 1>>]]
    /\ UNCHANGED <<row, dispatcher, minted, clock, dropped>>

DispatcherStep(x) ==
    ClaimForDelivery(x) \/ SendDelivery(x) \/ RevertClaim(x)

ConsumerStep(m) ==
    \/ ReceiveMessage(m) \/ ReadJob(m) \/ ClaimJob(m) \/ HandlerReturns(m)
    \/ FinishJob(m) \/ ReleaseJob(m) \/ ReadDead(m) \/ CommitDead(m)

FaultStep ==
    \/ \E x \in Dispatchers : SendThrows(x) \/ DispatcherStops(x)
    \/ \E m \in Msgs : \/ HandlerFails(m) \/ FinishThrows(m) \/ ConsumerStops(m)
                       \/ DlqStops(m)
    \/ \E d \in Deliveries : Duplicate(d)
    \/ Delay

Next ==
    \/ CommitOutboxRow \/ SendFollowUp
    \/ \E x \in Dispatchers : SelectJob(x) \/ DispatcherStep(x)
    \/ \E m \in Msgs : ConsumerStep(m)
    \/ FaultStep
    \/ Elapse

Spec == Init /\ [][Next]_vars

\* The cron runs every quarter of an hour, a dispatcher that has begun goes on
\* unless it stops, the queue delivers, time passes.
Fairness ==
    /\ \A x \in Sweepers : WF_vars(SelectJob(x))
    /\ \A x \in Dispatchers : WF_vars(DispatcherStep(x))
    /\ \A m \in Msgs : WF_vars(ConsumerStep(m))
    /\ WF_vars(Elapse)

FairSpec == Spec /\ Fairness

(***************************************************************************)
(* Properties.                                                             *)
(***************************************************************************)

Terminal == {"completed", "failed"}

\* A consumer that is at work on the job holds its row, and no other consumer
\* is at work: neither the sweep, nor a dead letter, nor a copy of the same
\* delivery takes the claim from it, and its outcome is never refused.
HandlerOwnsJob ==
    \A m \in Msgs : msg[m].pc \in Working \ {"release"} =>
        /\ HoldsClaim(m)
        /\ \A n \in Msgs \ {m} : msg[n].pc \notin Working

\* An outcome stays: no late copy, dead letter or sweep reopens a finished job.
OutcomeIsFinal == [][row.status \in Terminal => row' = row]_row

\* Every job in the table is finished in the end; the one exception is a job
\* left running by a consumer that died, whose dead letter used up its retries,
\* since the sweep looks for rows that wait.
EveryJobEnds ==
    row.status # "none" ~> row.status \in Terminal \/ (dropped /\ row.status = "running")
=============================================================================

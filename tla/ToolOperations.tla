--------------------------- MODULE ToolOperations ---------------------------
(***************************************************************************)
(* The side-effect ledger of one run: the tool_operations table            *)
(* (application/tools/idempotency.ts), the tool-execute requests that use   *)
(* it (application/tools/executor.ts, handleToolExecute) and the fence a    *)
(* newly claimed lease puts between the old executor and itself.           *)
(*                                                                         *)
(* A request is one tool-execute RPC of one container; a container of a     *)
(* lost lease may still send requests.  Every SQL statement is one step.    *)
(* The operation id that a request generates is the request itself.        *)
(*                                                                         *)
(* A tool handler (an MCP server, a deploy, a file write) is external.  It  *)
(* returns after its effect, throws an ordinary error without effect, or    *)
(* ends unknown (timeout, lost connection) with or without it.             *)
(***************************************************************************)
EXTENDS Naturals

CONSTANTS
    Keys,         \* operation keys: (run, idempotency key or hash of the call)
    Tools,        \* tool names
    Requests,     \* tool-execute requests
    None,         \* no operation
    MaxLease,     \* bound on the leases of the run
    MaxFaults,    \* bound on crashes and failed database writes
    LostSuccess   \* TRUE: the write that records a success may throw without
                  \* having been applied while the next write goes through

ASSUME BoundsAssumption == MaxLease \in Nat /\ MaxFaults \in Nat
ASSUME NoneAssumption == None \notin Requests /\ None \notin Tools
ASSUME LostSuccessAssumption == LostSuccess \in BOOLEAN

VARIABLES
    lease,      \* leaseVersion of the run
    dispatched, \* newest lease whose container was started
    ended,      \* is the run terminal?
    op,         \* the tool_operations row of each key
    request,    \* progress of each request
    effects,    \* history: how often the effect of each key happened
    faults      \* faults so far

vars == <<lease, dispatched, ended, op, request, effects, faults>>

Status == {"absent", "pending", "completed", "failed", "uncertain"}
Op == [status : Status, id : Requests \cup {None}, tool : Tools \cup {None},
       old : BOOLEAN]
NoOp == [status |-> "absent", id |-> None, tool |-> None, old |-> FALSE]

Pc == {"new", "lease", "check", "delete", "expire", "insert", "recheck", "run",
       "record", "recordError", "recordUncertain", "done", "gone"}
Answer == {"none", "refused", "ok", "cached", "error", "uncertain"}
Request == [pc : Pc, key : Keys \cup {None}, tool : Tools \cup {None},
            lease : 0..MaxLease, seen : Requests \cup {None}, answer : Answer]

TypeOK ==
    /\ lease \in 0..MaxLease
    /\ dispatched \in 0..MaxLease
    /\ ended \in BOOLEAN
    /\ op \in [Keys -> Op]
    /\ request \in [Requests -> Request]
    /\ effects \in [Keys -> Nat]
    /\ faults \in 0..MaxFaults

Init ==
    /\ lease = 0
    /\ dispatched = 0
    /\ ended = FALSE
    /\ op = [k \in Keys |-> NoOp]
    /\ request = [q \in Requests |->
                    [pc |-> "new", key |-> None, tool |-> None, lease |-> 0,
                     seen |-> None, answer |-> "none"]]
    /\ effects = [k \in Keys |-> 0]
    /\ faults = 0

Fault == faults < MaxFaults /\ faults' = faults + 1

(***************************************************************************)
(* The run: claims, the fence, and the end.                                *)
(***************************************************************************)

RunFrame == UNCHANGED <<request, effects, faults>>

\* The queue handler's claim; the row is running again under a new lease.
Claim ==
    /\ ~ended
    /\ lease < MaxLease
    /\ lease' = lease + 1
    /\ UNCHANGED <<dispatched, ended, op>>
    /\ RunFrame

\* fencePendingOperationsForClaimedRun, after which the new lease's container
\* is dispatched.
FenceAndDispatch ==
    /\ ~ended
    /\ dispatched < lease
    /\ dispatched' = lease
    /\ op' = [k \in Keys |-> IF op[k].status = "pending"
                             THEN [op[k] EXCEPT !.status = "uncertain"]
                             ELSE op[k]]
    /\ UNCHANGED <<lease, ended>>
    /\ RunFrame

\* The run reaches a terminal status.
EndRun ==
    /\ ~ended
    /\ ended' = TRUE
    /\ UNCHANGED <<lease, dispatched, op>>
    /\ RunFrame

Active(q) == request[q].pc \notin {"new", "lease", "done", "gone"}

\* cleanupStaleOperations: a row of a terminal run is deleted a day after it
\* was created, long after every request of the run has timed out.
CleanupOperation(k) ==
    /\ ended
    /\ op[k].status # "absent"
    /\ \A q \in Requests : ~Active(q)
    /\ op' = [op EXCEPT ![k] = NoOp]
    /\ UNCHANGED <<lease, dispatched, ended>>
    /\ RunFrame

\* The row passes the thirty minute threshold, which is longer than any tool
\* call (five minutes): whoever inserted it has died.
PendingAges(k) ==
    /\ op[k].status = "pending"
    /\ ~op[k].old
    /\ ~Active(op[k].id)
    /\ op' = [op EXCEPT ![k].old = TRUE]
    /\ UNCHANGED <<lease, dispatched, ended>>
    /\ RunFrame

RunNext ==
    \/ Claim \/ FenceAndDispatch \/ EndRun
    \/ \E k \in Keys : CleanupOperation(k) \/ PendingAges(k)

(***************************************************************************)
(* A tool-execute request.                                                 *)
(***************************************************************************)

Goto(q, pc) == request' = [request EXCEPT ![q].pc = pc]

\* Mutant: the lease is compared, the run's status is not.
IsLeaseVersion(v) == v = lease

\* ensureRunLease: the run is running under this lease.
IsRunLease(v) == v = lease /\ ~ended

\* What the container gets instead of an answer: "Lease lost" if the monitor
\* has polled the lost lease by the time execute returns.
LeaseLost(q) == IF IsRunLease(request[q].lease) THEN {} ELSE {"refused"}

Return(q, answer) ==
    \E a \in {answer} \cup LeaseLost(q) :
        request' = [request EXCEPT ![q] = [@ EXCEPT !.pc = "done", !.answer = a]]

RequestFrame == UNCHANGED <<lease, dispatched, ended>>

\* Some container started so far, current or superseded, calls a tool.
CallTool(q, k, t, v) ==
    /\ request[q].pc = "new"
    /\ v <= dispatched
    /\ request' = [request EXCEPT ![q] = [@ EXCEPT !.pc = "lease", !.key = k,
                                                   !.tool = t, !.lease = v]]
    /\ UNCHANGED <<op, effects, faults>>
    /\ RequestFrame

\* The lease check at the head of handleToolExecute.
EnsureRunLease(q) ==
    /\ request[q].pc = "lease"
    /\ IF IsRunLease(request[q].lease) THEN Goto(q, "check") ELSE Return(q, "refused")
    /\ UNCHANGED <<op, effects, faults>>
    /\ RequestFrame

\* Mutant: a row that leaves the question open answers with its status.
CachedStatus(q, row) ==
    IF row.status = "completed" THEN "cached" ELSE row.status

\* The answer an existing row gives, or "none" if the row leaves it open.
CachedAnswer(q, row) ==
    CASE row.tool # request[q].tool -> "uncertain"
      [] row.status = "completed" -> "cached"
      [] row.status = "uncertain" -> "uncertain"
      [] OTHER -> "none"

\* checkIdempotencyForOperationKey reads the row of the key.
CheckOperation(q) ==
    LET row == op[request[q].key] IN
    /\ request[q].pc = "check"
    /\ \/ /\ row.status = "absent"
          /\ Goto(q, "insert")
       \/ /\ row.status # "absent" /\ CachedAnswer(q, row) # "none"
          /\ Return(q, CachedAnswer(q, row))
       \/ /\ row.status # "absent" /\ CachedAnswer(q, row) = "none"
          /\ \/ /\ row.status = "pending" /\ ~row.old
                /\ Return(q, "uncertain")
             \/ /\ row.status = "failed" \/ row.old
                /\ request' = [request EXCEPT ![q] =
                     [@ EXCEPT !.pc = IF row.status = "failed" THEN "delete"
                                                               ELSE "expire",
                               !.seen = row.id]]
    /\ UNCHANGED <<op, effects, faults>>
    /\ RequestFrame

\* Mutant: the row of the key is deleted, whichever it is by now.
IsRowOfKey(q) == op[request[q].key].status # "absent"

\* The row this request read is still there.
IsSeenRow(q) == op[request[q].key].id = request[q].seen

\* The failed row is deleted by its id, to make room for a new attempt.
DeleteFailed(q) ==
    /\ request[q].pc = "delete"
    /\ op' = IF IsSeenRow(q) THEN [op EXCEPT ![request[q].key] = NoOp] ELSE op
    /\ Goto(q, "insert")
    /\ UNCHANGED <<effects, faults>>
    /\ RequestFrame

\* An abandoned pending row becomes uncertain.
ExpirePending(q) ==
    /\ request[q].pc = "expire"
    /\ op' = IF IsSeenRow(q)
             THEN [op EXCEPT ![request[q].key].status = "uncertain"] ELSE op
    /\ Return(q, "uncertain")
    /\ UNCHANGED <<effects, faults>>
    /\ RequestFrame

\* INSERT OR IGNORE of the pending row; the winner runs the handler.
InsertPending(q) ==
    LET k == request[q].key IN
    /\ request[q].pc = "insert"
    /\ \/ /\ op[k].status = "absent"
          /\ op' = [op EXCEPT ![k] = [status |-> "pending", id |-> q,
                                      tool |-> request[q].tool, old |-> FALSE]]
          /\ Goto(q, "run")
       \/ /\ op[k].status # "absent"
          /\ Goto(q, "recheck")
          /\ UNCHANGED op
    /\ UNCHANGED <<effects, faults>>
    /\ RequestFrame

\* The loser of the insert reads the winner's row.
RaceCheck(q) ==
    LET row == op[request[q].key] IN
    /\ request[q].pc = "recheck"
    /\ Return(q, IF row.status # "absent" /\ CachedAnswer(q, row) # "none"
                 THEN CachedAnswer(q, row) ELSE "uncertain")
    /\ UNCHANGED <<op, effects, faults>>
    /\ RequestFrame

\* The handler runs: success, a plain error, or an unknown outcome.
RunHandler(q) ==
    /\ request[q].pc = "run"
    /\ \E next \in {"record", "recordError", "recordUncertain"},
          happened \in {0, 1} :
         /\ next = "record" => happened = 1
         /\ next = "recordError" => happened = 0
         /\ Goto(q, next)
         /\ effects' = [effects EXCEPT ![request[q].key] = @ + happened]
    /\ UNCHANGED <<op, faults>>
    /\ RequestFrame

\* completeOperation and markOperationUncertain: UPDATE this request's own row
\* if it is still pending.
Settle(q, status) ==
    op' = IF op[request[q].key].id = q /\ op[request[q].key].status = "pending"
          THEN [op EXCEPT ![request[q].key].status = status] ELSE op

\* The handler's success is recorded.
RecordSuccess(q) ==
    /\ request[q].pc = "record"
    /\ Settle(q, "completed")
    /\ Return(q, "ok")
    /\ UNCHANGED <<effects, faults>>
    /\ RequestFrame

\* completeOperation throws inside the try block, applied or not: the catch
\* block takes it for an error of the tool.
RecordSuccessThrows(q) ==
    /\ request[q].pc = "record"
    /\ Fault
    /\ Settle(q, "completed") \/ (LostSuccess /\ UNCHANGED op)
    /\ Goto(q, "recordError")
    /\ UNCHANGED effects
    /\ RequestFrame

\* Mutant: an unknown outcome is recorded like an error.
RecordUncertainAsFailed(q) ==
    /\ request[q].pc = "recordUncertain"
    /\ Settle(q, "failed")
    /\ Return(q, "uncertain")
    /\ UNCHANGED <<effects, faults>>
    /\ RequestFrame

\* An unknown outcome is fenced.
RecordUncertain(q) ==
    /\ request[q].pc = "recordUncertain"
    /\ Settle(q, "uncertain")
    /\ Return(q, "uncertain")
    /\ UNCHANGED <<effects, faults>>
    /\ RequestFrame

\* A plain error is recorded.
RecordError(q) ==
    /\ request[q].pc = "recordError"
    /\ Settle(q, "failed")
    /\ Return(q, "error")
    /\ UNCHANGED <<effects, faults>>
    /\ RequestFrame

\* The write of the catch block fails and is only logged.
RecordThrows(q) ==
    /\ request[q].pc \in {"recordError", "recordUncertain"}
    /\ Fault
    /\ Return(q, IF request[q].pc = "recordError" THEN "error" ELSE "uncertain")
    /\ UNCHANGED <<op, effects>>
    /\ RequestFrame

\* The isolate dies in the middle of the request.
RequestDies(q) ==
    /\ Active(q)
    /\ Fault
    /\ Goto(q, "gone")
    /\ UNCHANGED <<op, effects>>
    /\ RequestFrame

RequestStep(q) ==
    \/ EnsureRunLease(q) \/ CheckOperation(q) \/ DeleteFailed(q)
    \/ ExpirePending(q) \/ InsertPending(q) \/ RaceCheck(q) \/ RunHandler(q)
    \/ RecordSuccess(q) \/ RecordUncertain(q) \/ RecordError(q)

RequestNext ==
    \E q \in Requests :
        \/ \E k \in Keys, t \in Tools, v \in 1..MaxLease : CallTool(q, k, t, v)
        \/ RequestStep(q) \/ RecordSuccessThrows(q) \/ RecordThrows(q)
        \/ RequestDies(q)

Next == RunNext \/ RequestNext

Spec == Init /\ [][Next]_vars

(***************************************************************************)
(* Properties.                                                             *)
(***************************************************************************)

\* The effect of an operation key happens at most once, through duplicate and
\* concurrent requests, retries after errors, takeovers, crashes at any point
\* and the cleanup of old rows.
AtMostOnceEffect == \A k \in Keys : effects[k] <= 1

\* A request told that its operation succeeded, now or earlier, is told the
\* truth; and a row that says failed belongs to a key whose effect is still
\* to come.
OutcomesAreTrue ==
    /\ \A q \in Requests : request[q].answer \in {"ok", "cached"} =>
         effects[request[q].key] > 0
    /\ \A k \in Keys : op[k].status = "failed" => effects[k] = 0

\* An outcome declared unknown is never declared known again, by no late writer
\* of the executor that lost the lease: the row stays uncertain until the
\* finished run is cleaned up.
UncertainIsKept ==
    [][\A k \in Keys : op[k].status = "uncertain" =>
         \/ op'[k].status = "uncertain"
         \/ ended /\ op'[k].status = "absent"]_vars
=============================================================================

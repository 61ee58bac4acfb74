# Takos: verification of the run path and of what follows it

Takos is a workspace in which users talk to AI agents. Its control plane is a set of
Cloudflare Workers; an agent's work is a *run*, executed by a Rust process in a
container. This directory holds TLA+ models of the path a run takes through that
system, of what its end sets off (events, index jobs, notifications), of the gate in front
of external tools and of the preinstallation of apps, the TLC configurations that check
them and TLAPS proofs about them. All paths
below are relative to the directory that contains the repository as `src/`.

`PROJECT.json` lists the components, the runs, the source lines of every definition,
the mutants that show each property can fail, the hazards, the findings and the theorems.

Contents: 1 the system, 2 inventory, 3 modules and code, 4 runs, 5 bounds, 6 fairness,
7 proofs, 8 findings, 9 not modelled, 10 plan.

## 1. The system

```
 POST /threads/:id/runs          POST /runs/:id/cancel
        |                               |
    createThreadRun                 cancel route            cron (every 15 min)
        |  INSERT, UPDATE               | compare-and-set       | sweeps
        v                               v                       v
   +--------------------- D1: runs, run_events, tool_operations, outboxes ------+
        | send                    ^ claim, reset       ^ complete-run, heartbeat
        v                         |                    |
   queue takos-runs ------> handleQueue           control RPC (Worker)
   (max_batch_size 1,             | /dispatch          ^ proxy token
    5 retries, then DLQ)          v                    |
                          executor-host (durable objects) --/start--> agent container
                                                                  (engine, checkpoints,
                                                                   tools, heartbeat)
```

The row of a run in `runs` is the authority. Everything else may be late, repeated or
lost: the queue delivers at least once, isolates may die between two SQL statements,
containers may stall and come back after a successor has been started, answers of RPCs
may be lost. The code copes by compare-and-set statements on the row. The row's lease,
the pair (`service_id`, `lease_version`), names the one executor whose writes count.

```
 terminal batch --> index_jobs ------> index queue ------> indexer       (DLQ)
    (one D1       --> run_notification_outbox --> notification --> push outbox
     transaction)                                                     |
                                        gateway <-- push queue <------+  (DLQ)
 container events, complete-run --> RunNotifier (durable object) --> segments in the bucket
                                        | ring                            |
                                        +------> reader with a cursor <---+

 agent --> MCP tool handler --> exposure policy --> one-time confirmation --> MCP server
 cron, visits --> processFeaturedAppPreinstallJobs --> installer
```

What the end of a run owes is written in the terminal batch and delivered by outboxes: a
flush right after the commit, and a cron that finds what the flush left. Both share a row
by a claim token, so both may also lose it. The lower two lines are independent of the run's
end; they are here because they have the same shape: a decision read in one statement and
used in another.

## 2. Inventory

What each part keeps, does and must guarantee. All rows of the table are modelled, some in part.

| Part | State | Operations | Must hold |
| --- | --- | --- | --- |
| Run creation (`run-creation.ts`, `create-thread-run-store.ts`) | the row | INSERT pending, UPDATE queued, send, fail when the send throws | a new run is executed or fails; a finished one is left alone |
| Run queue consumer (`queue-handler.ts`, `run-queue-policy.ts`) | row, message | stale recovery, claim, read-back, access check, model freeze, dispatch, resets, capacity requeue, dead letters | one owner; duplicates harmless; a live owner is kept |
| Runner cron (`cron-handler.ts`) | row | re-enqueue stale running runs and unclaimed ones, clean the operation ledger | no run is forgotten |
| Terminal transition, complete-run (`terminal-transition.ts`, `complete-run.ts`) | row, terminal event, outboxes | one batch under a compare-and-set; replay by completion key | one outcome, told truthfully |
| Cancel route (`routes.ts`) | row | three compare-and-set attempts | a cancel that says success is final |
| Lease and control RPC (`executor-control-rpc.ts`) | row | lease check, heartbeat, checkpoint, tool-execute, complete-run | a superseded container has no effect |
| Engine checkpoint store (same file, `control_rpc.rs`) | pointer in the row, objects in the bucket | stage, swap, discard, delete; load; clear at the end | the pointer is readable and does not go back |
| Tool-operation ledger (`idempotency.ts`, `executor.ts`) | `tool_operations` | check, insert, race check, settle, fence, clean up | each side effect at most once |
| Executor pool (`executor-host.ts`, `executor-dispatch.ts`, `executor-capacity.ts`) | proxy tokens per slot | choose slot, reserve, start, verify, touch, revoke, expire, warm | capacity; the owner's credential is kept; places come back |
| Agent container (`main.rs`, `control_rpc.rs`) | registry of active runs | register, heartbeat, finish with retries, stop | at most `MAX_CONCURRENT_RUNS` |
| Index outbox, indexer (`index-outbox.ts`, `runtime/indexer/`) | row of `index_jobs` | claim, send, revert; consumer claim, takeover, complete, fail, release; dead letters; sweep | one handler at a time; one outcome; no job is forgotten |
| Run notification outbox (`run-outbox.ts`, `service.ts`, `run-terminal.ts`) | row, notification | claim, create, hand over, finish, revert | the user is told once |
| Push outbox and delivery (`push-outbox.ts`, `notification-push.ts`) | row, messages | claim, send, finalize, revert; consumer, dead letters, reopening | at least one delivery or a refusal; an answer stays |
| Run events and notifier (`run-notifier.ts`, `notifier-base.ts`, `observation.ts`, `offload/run-events.ts`) | counter, ring, dedup keys, segment buffer, segments | emit, flush, save, load, read after a cursor | ids grow; nothing is lost between ring, buffer and archive |
| MCP tool gate (`mcp-tools.ts`, `tool-policy.ts`, `tool-confirmation.ts`) | policy, confirmations | list, review, import, load, check, ask, decide, consume, call | only reviewed snapshots are exposed; an approval is one call |
| Preinstall jobs (`featured-app-preinstall-jobs.ts`) | row, catalog | enqueue, claim, plan, install, complete, retry, block, pause | a completed job is installed; every job ends |

Not modelled: message sequence; rate limiter; circuit breaker; MCP registration and OAuth;
Git refs, pull requests, workflow runs and workspace sync (retired); object garbage collection;
identity and spaces; routing; memory and prompts; platform adapters; user interface, scripts and
deployment. Section 9 gives the reasons and section 10 the order.

How the parts interact. The handler claims the row, fences the operation ledger of the
previous lease, and calls `/dispatch`; executor-host mints a proxy token in the durable
object of a slot and starts the container; the container calls the control RPC with
that token, and every handler checks the lease again in the row. Terminal transitions
write the row, the terminal event and the outbox rows in one batch and delete the
checkpoint object afterwards. The cron repairs what none of these will finish. A tool call
of an external MCP server passes the gate first and the operation ledger around it.

What is hard here: each of these actors works in several statements, reads the row in
one and writes in another; any may die in between; messages and RPCs are repeated while
the first copy is still under way; a "stale" verdict is about silence and not about
death. The hazards in `PROJECT.json` list the places, each with its line and the
properties that watch it.

## 3. Modules and code

| Module | Models | Extends / used by |
| --- | --- | --- |
| `RunLifecycle` | the row and all its writers | `MCRunLifecycle`, proofs |
| `RunLedger` | abstract specification of the row | instantiated by `RunLifecycle` (`Ledger`) |
| `ToolOperations` | the tool-operation ledger of one run | `MCToolOperations`, proofs |
| `EngineCheckpoint` | pointer, bucket and agent of one run | `MCEngineCheckpoint`, proofs |
| `ExecutorPool` | slots, tokens, dispatches, containers, several runs | `MCExecutorPool`, proofs |
| `IndexOutbox` | one index job, its dispatchers, deliveries and dead letters | `MCIndexOutbox`, proofs |
| `Announcement` | abstract specification of telling a user an outcome | instantiated by `NotificationDelivery` (`Promise`) |
| `NotificationDelivery` | both notification outboxes of one outcome, the push queue, the gateway | `MCNotificationDelivery`, proofs |
| `RunEvents` | event stream of one run: writers, notifier object, archive | extended by `RunEventReader` |
| `RunEventReader` | `RunEvents` composed with a reader that polls with a cursor | `MCRunEvents`, proofs in `NotificationProofs` |
| `PreinstallJobs` | the preinstall job of one space, its workers and the operator | `MCPreinstallJobs`, proofs |
| `McpToolGate` | one tool of one external MCP server: policy, confirmations, runs | `MCMcpToolGate`, proofs |
| `RunLifecycleProofs`, `ToolOperationProofs`, `EngineCheckpointProofs`, `ExecutorPoolProofs`, `IndexOutboxProofs`, `NotificationProofs`, `PreinstallJobsProofs`, `McpToolGateProofs` | theorems | |

Rules common to all: one SQL statement, one transaction or one durable-object method is
one step; an actor's local variables are kept in a record with a program counter `pc`,
so all other actors run between its statements. Crashes, lost answers, throwing calls
and stalls are actions of their own that draw on a budget `MaxFaults` (`MaxEventFaults` in `RunEvents`). Definitions
whose comment begins with "Mutant" are wrong variants; no specification uses them.

### RunLifecycle

`row[r]` has the columns that decide anything: `status`, `serviceId`, `leaseVersion`,
`heartbeat`, `completionKey` (abstracted to the lease and status it encodes). `queue[r][n]`
counts visible copies of the message at delivery attempt `n`, `dlq` the dead letters.
`creator`, `handler[i]`, `cron[c]`, `canceller[r]` and `container[r][v]` are the actors;
`claimant` and `terminals` are history: who claimed each lease version, and the terminal
events in commit order.

* Time is abstract. A heartbeat is `fresh` or `stale` (older than
  `STALE_WORKER_THRESHOLD_MS`, five minutes), `aged` says the same of `created_at`.
  A heartbeat goes stale when nobody attends the run, or, as a fault, while somebody
  does: a container that stalls and later continues is therefore in the model.
* The handler's resets compare `service_id` alone. `FreshServiceId` says what makes that
  sound: each batch draws a new UUID and `max_batch_size = 1`
  (`src/deploy/cloudflare/wrangler.toml:276`). With a larger batch one id would own several
  messages, which the model does not cover.
* `CancelAttempt` may also fail because the agent saved a checkpoint between the
  transition's read and its UPDATE; the pointer itself is in `EngineCheckpoint`.
* `PromptCreation = TRUE` excludes a cancel or a five-minute stall between the INSERT of
  a run and the UPDATE that marks it queued. The code does not exclude it; finding 1
  is what happens without the assumption.
* The split v1 protocol RPCs (`add-message`, `update-run-status`, `run-fail`, `run-reset`)
  are not modelled; current containers use `complete-run`.

`RunLedger` is the promise to readers of the row: phases `absent`, `waiting`, `owned` and
three outcomes, and an ownership epoch. `PhaseOf` maps a row to a phase; a row which the
cron put back to `running` without an owner maps to `waiting`.

### ToolOperations

`op[k]` is the row of an operation key, `request[q]` a tool-execute RPC (the operation id
it generates is `q` itself), `effects[k]` the history of side effects. `Claim` and
`FenceAndDispatch` are the queue handler's takeover, `PendingAges` the 30-minute limit,
`CleanupOperation` the cron's deletion. Assumptions about the external tool: it returns
after its effect, throws an ordinary error without it, or ends unknown with or without
it (timeout, lost connection). The five-minute tool timeout is shorter than the 30-minute
limit, so a pending row grows old only when its request is over; the deletion takes rows more than 24
hours old of finished runs, long after their requests have timed out. `LostSuccess = FALSE` says that a success write which throws
was applied; finding 2 is the other case. Permission, schema and circuit-breaker checks
come before the ledger and are left out.

### EngineCheckpoint

`pointer` is `runs.engine_checkpoint`, inline or naming an object; `objects` is the bucket.
A container saves the step it is about to execute, retries up to `MaxTries` times, loads
after a takeover, and finishes; `request[q]` is the Worker side of one such RPC or of a
cancel, and the random object key of a save is `q`. `acked` is the last step that a
container was told is saved. `late` is history: a save whose client had given up has read
the row. `AckedStepSurvives` concedes what follows from that (section 8) and nothing else.

### ExecutorPool

A token is a pair (run, lease): a lease is dispatched once. `tokens[s]` is the
`proxyTokens` map of the durable object of slot `s`, `stale` the tokens past their
15-minute TTL, `registry[s]` the container's `active_runs`. `dispatch[t]` goes through
lease check, sweep of superseded tokens, second check, reading of loads, choice,
reservation, `/start`, and return of the reservation on failure. `call[t]` is a control
RPC split at token verification, lease check, touch and revocation. There are three kinds of call:
the heartbeat (`beat`), complete-run (`finish`) and the others (`rpc`: checkpoint saves, tool calls), which do their work
under the same lease check. A call whose lease is gone is answered "Lease lost" (`lost`). The same 409 is given
to an owner that holds its lease (`AnswerConflict`, a fault; `conflict`): a save or a completion that finds
the checkpoint pointer moved by an overlapping save of the same lease, and a tool call whose monitor could not
confirm the run's access. The host cannot tell the two apart (`AnsweredLost`) and revokes the token after either.
`LiveTokenIsKept` therefore speaks of everybody else; section 8 comes back to the owner. Ties between
equally loaded slots are resolved either way. Dispatches to an explicit tier, the
tier-2 pool, protocol negotiation, the workspace access check (403) and lost
complete-run answers are left out.

A token of a finished run may stay until its TTL when a delayed dispatch reserves late,
hence `PlacesReturn` and no stronger statement. Expired tokens of a tier-3 slot are
pruned only when the slot is read, so `PlacesReturn` is about warm slots.

### IndexOutbox

`row` is the row of one job (no statement touches two). A dispatcher selects the row, claims
it with a new delivery id, sends, and reverts the claim when the send throws; the one with
`staleBefore` is the cron's. A message is a copy of a delivery and at the same time the
consumer invocation that handles it: read, claim by compare-and-set on what was read, handle,
complete, fail or release. `dead` messages go to the dead-letter consumer, which fails the job
or, after its own retries, drops it. `started_at` values are successive numbers, so that "the
same claim as I read" is decided as in the code. Assumptions: a consumer's invocation ends
within the fifteen minutes after which its claim may be taken over (Workers end a queue
invocation after fifteen minutes), and a row waits longer than five minutes only as a fault or
when nobody has it in hand. What a job indexes is one step that succeeds or throws.

### Announcement and NotificationDelivery

`Announcement` is the promise: an outcome is owed from the terminal commit on, settled only
after an answer of the gateway or a refusal of the user, and once answered settled for good.
`Resume` is in it because an invocation that read the preference before the user changed it
may take up again what another one settled as declined.

`NotificationDelivery` has the rows `out` and `push`, the dispatchers and sweepers with the
statements between claim and finish, the messages with their consumers, and the user's
preference `wants`, read in several places. A claim token is minted and remembered by one
process, so the process is its own token. `Debt` maps the two rows to the abstract debt.
Assumptions: the preference only changes from wanted to declined; the in-app notification is wanted and its row is
not deleted; the push queue is configured; the user has a device, and the gateway answers or fails a request as a
whole (several devices of a user are left out). A user without a usable device is outside the promise: the
delivery then has no gateway request to make and the event is settled as delivered
(`mobile-push-delivery.ts:248-279`), so `KeepsPromise`, which asks for an answer of the gateway, is about users with one.

### RunEvents

`Emit` is one step because the notifier handles requests inside `blockConcurrencyWhile`; a
crash, or a save that throws, leaves written segments and restarts from the saved state.
`ender` is the writer of the terminal row with the id that SQL gave it, which the notifier is
asked to use; `flight` holds events that passed their lease check and have not arrived, so the
end may overtake them. `archive` is the set of events with
the segment each is in; a write replaces its segment. The constants are assumed to be ordered as in the code: the
ring (and the cap of the buffer, 10,000) holds at least a segment (100). History: `accepted` (shown
to readers), `trimmed` (thrown away by the buffer's cap), `failed` (a segment could not be
written), `forgot` (the state could not be read and the object started afresh; the properties
concede it). Offloading is on; usage segments, WebSocket sessions, the `lastEventId` column
and the expiry of dedup keys by age are left out.

### RunEventReader

`reader` is one SSE stream and its passes of `fetchRunEventsAfter`. A pass is as many steps as it has awaits: the
SELECT of the terminal row, the listing of the segments from the cursor's on, the read of each
segment, and the ring; events are emitted, segments written and the notifier crashes between any two of them. Id by id the
archive overrides SQL and the ring the archive. The ring may be unavailable (`RingUnavailable`), and the pass goes on without it.
Then the cursor moves to the last event given, and the stream is closed when the run had ended before or a terminal event
was given. A stream may start behind any id the client can have seen, and end at any time (`StreamEnds`: an error,
a client that leaves, a `run_status` event with a terminal payload).

`ReplayIsComplete` is about the passes that reach the ring and has two exceptions besides failed segment writes. `Outrun`:
so many events came between the listing and the ring that the ring may have dropped one which was in no segment then. The
code's ring and segment both hold 100 events, so two events suffice when the buffer is one event short of a segment;
the bound is tight (with one event more TLC finds a loss), and section 8 lists it. `cut`: the archive alone filled
the response (`MAX_EVENTS_PER_RESPONSE`); the ring, which is read all the same, then takes the
cursor past segments that were not opened.

### PreinstallJobs

`row` is the job of a space; a worker reads it, claims it by compare-and-set on status and
`locked_at`, resolves the plan, installs entry by entry and ends the claim by id alone. `slow`
is history: some worker outlived its lease. The operator replaces the catalog (delete and
insert are two statements), breaks or repairs the configuration and switches the feature.
`locked_at` is compared for equality only, so a number nobody remembers stands for a new
timestamp; that one is always left is lemma `NewLockIsNew`. The installer is external and
idempotent per entry, as the code relies on. New invocations keep coming: the quarter-hour cron
(`src/src/worker/application/services/maintenance/scheduled-cron.ts:77-96`) and visits to the list of spaces.
`FeaturedAppPreinstallConflictError` is never thrown and therefore has no action. An UPDATE that pauses or completes
the job may throw, a completion with or without having been applied (`UpdateThrows`); the catch block then takes back even a
completed job. A pause that was applied and threw is not told apart from one that was not: nobody
may claim the row before its retry delay (a minute or more), and the catch block rewrites it at once.

### McpToolGate

`live` is the fingerprint that `tools/list` returns now (name, description, schemas,
annotations); `policy` the reviewed row, `conf` the confirmations. A listing reads, compares and
writes the policy's hash; a review selects and updates under a compare on the hash; a run loads its
catalog (tools, then policies) and keeps it, and a call reads the live schema, the policy, expires
old confirmations, looks for an approved one, consumes it by compare-and-set or inserts a pending one, and
calls. A decision reads a pending row and writes under a compare; two requests may decide on the same row. `choice` is
history: the last review of each fingerprint. Assumptions: one tool of
one external server and one user; which of several approved rows is taken is a free choice
(the code orders by creation time); a call cut off after the consumption counts as a spent approval; the policy
row goes with its server (foreign key), and a deleted server does not come back under its id. Left out:
managed and runtime-interface servers, roles and capabilities, catalog limits, task tools, OAuth.

No index forbids two pending rows for the same call: two calls at once may insert two. The
module and the proofs have them; the run, with one confirmation, does not.

## 4. Runs

| Run | Shows |
| --- | --- |
| `run_lifecycle` | All actors of a run: a creator, two concurrent handler invocations, an owner and its successor, a sweep, a cancel with its three attempts, one fault. `OneTerminalRecord`: one outcome, one terminal event. `CompletionByNewestLease`: no result of a replaced process. `AnswersAreTrue`: success told to an agent or canceller is true for good. `WaitingRunsAreUnowned`: a waiting run can be claimed. `TerminalIsFinal`. `LiveLeaseIsKept`: duplicates never take a live lease. `ImplementsLedger`: refinement of `RunLedger`. `EveryRunEnds` under fairness. |
| `run_creation_race` | Violation: finding 1. |
| `tool_operations` | Four requests of two leases on one key, two tool names, one fault: `AtMostOnceEffect`, `OutcomesAreTrue` (what is answered is what happened), `UncertainIsKept` (an unknown outcome is never replayed). |
| `tool_replay` | Violation: finding 2. |
| `checkpoint_store` | Four requests of two leases, two faults, late saves included: `PointerIsReadable`, `EndedRunHasNoCheckpoint`, `AckedStepSurvives`, `GarbageIsBounded` (no more orphan objects than faults). |
| `executor_pool` | Two leases of a run, a warm slot and a tier-3 slot of one place each, two faults: `CapacityIsRespected`, `LiveTokenIsKept` (no other lease, sweep or start takes the owner's token), and `PlacesReturn` under fairness. |
| `index_outbox` | A flush, the cron and four deliveries of one job, each possibly twice, two faults: `HandlerOwnsJob` (who works on the job holds it, alone), `OutcomeIsFinal`, `EveryJobEnds`. |
| `notification_delivery` | A flush, the cron, the push sweep, two messages, two faults, an opt-out at any moment: `KeepsPromise` (refinement of `Announcement`), `OneEmission`, `OnePostWithoutFaults`, `EveryOutcomeSettles`. |
| `run_events` | Three events of the container, one of them an error, and the end's events, in any order with retries, crashes and failed writes, one fault, and a reader that polls from any cursor: `ArchiveKeepsEvents`, `OneEventPerRequest`, `IdsIncrease`, `ReplayIsComplete`. |
| `preinstall_jobs` | Two workers, leases that expire, installations that fail or lose their answer, a closing UPDATE that throws, an operator: `CompletedMeansInstalled`, `OneWorkerPerJob`, `EveryJobEnds`. |
| `mcp_tool_gate` | Two runs in two conversations, listings (any number, one at a time) and a review, a server that changes its tool, two decisions on one confirmation and its expiry: `OneCallPerApproval` (with it, no call of a destructive tool without one), `ApprovalIsSpentOnACall`, `EnabledIsReviewed`, `DecisionIsFinal`. |
| `mcp_stale_policy` | Violation: finding 3. |

To repeat one: `tlc -config RunLifecycle.cfg MCRunLifecycle`. Deadlock is not reported: a
system with all runs finished, or with its bounds used up, stops. `TypeOK` (`EventTypeOK`) is an invariant of the
runs of `RunLifecycle`, `ToolOperations` and `RunEvents`; of the other modules it is proved and
not repeated.

## 5. Bounds and why they are enough

* `Runs = {r1}` in `RunLifecycle` and `ExecutorPool`. Statements address one row by id and no guard reads
  another run's row, except `FreshServiceId`, which only restricts. The theorems hold for any set,
  several runs in one slot included.
* `Invocations`: two handlers let a duplicate race with an owner's delivery. Owners are the
  containers, of which there may be two.
* `MaxLease = 3` in `run_lifecycle`: with one fault an owner and its successor happen and a third lease does not (TLC
  checked that version 3 is never reached), so the bound cuts nothing off. Two leases elsewhere: the predecessor and the owner are what is told apart.
* `MaxRetries = 1` stands for 5 (runs), 2 (index) and the push queue's: one redelivery and the
  dead letter both happen. No consumer reads the attempt number otherwise.
* `MaxFaults` is 1 or 2. One fault suffices for each single crash, loss or stall; two
  allow a stall and a lost answer, or a crash during a recovery.
* `CancelTries = 3` is the code's.
* `Requests`: a save, its retry, a successor's load or save, and a cancel or completion.
* `MaxDeliveries = 4`, which is `MaxFaults + 2`: a delivery is lost only to a fault, so the bound never
  keeps the sweep from sending again.
* `SegmentSize`, `RingSize`, `MaxBuffer` and `MaxKeys` are 2: with three steps and the end's events each limit is
  passed. `TerminalIds` 1 and 7 are an id that is taken and one beyond all others.
  `Limit = 3` is passed by the archive alone.
  Ring and segment have the same size, as in the code.
* `Catalogs` `{a}` and `{a, b}`: the plan in the row and the catalog may differ either way.
* `McpToolGate`: two schemas, one of them destructive, two conversations, one argument value (arguments
  are only compared, and a conversation already makes two calls differ), two decisions, `MaxMoves = 2` for
  changes of tool and connection, reviews and imports, while listings are free: a review that began before the
  tool changed meets a listing of the changed tool, in either order of their writes. Two listings at once do not
  fit the run; the proof of `EnabledIsReviewed` allows any number. `mcp_stale_policy` has `MaxMoves = 3`: an
  imported row and two reviews of it.
* Symmetry over requests, conversations, runs, listings, decisions and steps is used in runs without liveness only.

`MaxLease` also blocks further claims. In `run_lifecycle` a lease is lost only to
a fault, so one fault never needs a third claim and the block does not cause an infinite
wait; `PlacesReturn` asks what becomes of places already taken and needs no further claim.

## 6. Fairness

Weak fairness unless said otherwise; crashes, failures, stalls, heartbeats and what users or
operators do are never fair.

* `RunLifecycle`: the creator and the canceller run to their end unless they crash; the queue keeps
  delivering visible messages and dead letters; a running invocation, sweep or agent takes its next step
  (Workers end requests by time limits and the engine's loop is bounded); the cron fires every 15 minutes
  and its queries reach every matching row; time passes.
* `ExecutorPool`: dispatch steps, task steps, expiry, the cron's read of warm
  slots and the sweep of finished runs; strong fairness of an engine's final call, which
  competes with heartbeats for the same RPC slot and whose engine is bounded.
* `IndexOutbox`: the cron's selection, the next statement of a dispatcher or consumer, the passing of time.
  The flush is not fair: it may never run. The queue delivers what it holds.
* `NotificationDelivery`: the cron's selection and the push sweep's, the next statement of each
  process and message, the passing of both ages.
* `PreinstallJobs`: a due time comes, a lease runs out, and workers are started and take their next step
  (`Process`), since the cron starts one every 15 minutes.

`EngineCheckpoint`, `ToolOperations`, `RunEvents`, `RunEventReader` and `McpToolGate` have no liveness property.

Three liveness properties name what the code does not promise. An index job left running by a consumer that
died, whose dead letter used up its retries, stays running: the sweep looks for rows that
wait. A preinstall job ends once the operator leaves the feature on and its configuration
valid. `PlacesReturn` is about warm slots.

## 7. Proofs

Proved for every value of the constants that satisfies the ASSUMEs of the modules:

| Module | Theorems |
| --- | --- |
| `RunLifecycleProofs` | `TypeCorrect`, `OneOutcome`, `NewestLeaseCompletes`, `WaitingUnowned`, `TerminalFinality`, `RefinesLedger`, `AnswersStayTrue`, `LiveLeaseKept` |
| `ToolOperationProofs` | `ToolTypeCorrect`, `AtMostOnce`, `AnswersTellOutcomes`, `UncertainStays` |
| `EngineCheckpointProofs` | `StoreTypeCorrect`, `PointerReadable`, `EndedRunIsClear`, `GarbageBounded`, `AckedStepKept` |
| `ExecutorPoolProofs` | `PoolTypeCorrect`, `CapacityRespected`, `LiveTokens` |
| `IndexOutboxProofs` | `IndexTypeCorrect`, `WorkIsExclusive`, `JobOutcomeIsFinal` |
| `NotificationProofs` | `DeliveryTypeCorrect`, `EmissionIsUnique`, `PostIsUnique`, `DeliveryKeepsPromise`; of `RunEvents`: `EventTypesHold`, `EventsStayArchived`, `RequestsAreOnce`, `IdsGrow`; of `RunEventReader`: `ReplayHolds` |
| `PreinstallJobsProofs` | `PreinstallTypeCorrect`, `CompletedIsInstalled`, `WorkersExclude` |
| `McpToolGateProofs` | `GateTypeCorrect`, `ApprovalsCountOnce`, `ApprovalsAreNotWasted`, `ExposureIsReviewed`, `DecisionsAreFinal` |

**Runs.** All but `TypeCorrect` assume `PromptCreation`, without which finding 1 refutes
them. `TypeOK` needs three facts about program counters (`WellFormed`). `CreationWindow`
says that nobody else touches a run before it is marked queued. `RowInv` relates the
columns of a row to each other, to the claims made and to the terminal events: an owner is the
claimant of the current version, exactly the versions up to the current one were claimed, a completion key
belongs to the current version. Under the first two every step of every actor is a
`RowStep`: it inserts, re-queues, releases, claims or ends one row, or changes only
heartbeats. Everything else, the refinement included, follows from `RowStep`, so an action added later
needs only one new lemma. `AnswersStayTrue` follows from it with the finality of the outcome. `LiveLeaseKept` needs
`AgentInv`: an agent at work belongs to a lease that somebody claimed, an invocation's lease is the one it claimed, and
an invocation that is not idle has no agent of its own at work, except the agent of the very lease it is about to reset.

**Tool operations** (assuming `~LostSuccess`). At-most-once is not inductive: it depends
on who may still act on a row. `OwnsRow`: a request that runs or records its handler owns the row of
its key, and that row is not failed. `SawSettledRow`: a request that saw a failed or abandoned row can only act
on that very row. `RowTellsEffect`: a missing or failed row means no effect yet, unless the run is over.
`ToolTypeCorrect` rests on the same invariant: that an answer is a settled outcome is not a matter of types alone.
`AnswersTellOutcomes` adds `TruthInv`: a completed row, a request about to record success and a success that was answered
all follow the effect. It is preserved because only the request that ran the handler completes a row (`RowMoves`), which
also gives `UncertainStays`.

**Checkpoints** (late saves included). A key enters the row only in the swap of the
request that staged it, so a key in the row, or ever seen there, belongs to a request past its
swap (`KeysArePast`); a cleanup deletes such a key and not the current one (`CleanupIsOld`), a
discard deletes one that never was in the row.
`GarbageBounded` is a count: `GarbageInv` says that an object is pointed at, owned by a request that will still
install or delete it (`Owns`), or garbage, and that there is at most one garbage object per fault; each step of a request
is compared with the account once (`Accounts`). `AckedStepKept`, up to the first late save, needs that the order of steps is
kept through a request: a save follows a load of the same lease that is still current (`CallInv`), a container waits for its own request
(`WaitsForOwn`), and no request about to swap would bring back an older step than the acknowledged one (`SwapsForward`,
`SavedIsCovered`).

**Pool.** Each step takes tokens of a slot away or adds one to the unexpired ones where
there is room (`TokensStep`), and likewise for the registry (`RegistryStep`); cardinality does the rest.
`LiveTokens` needs `Authority`: requests and calls belong to leases already granted, sweeps to
finished runs, and a call which found its lease lost stays right. Only a call that was refused while its lease was held
(`conflict`) may take the live token, and only its own.

**Index jobs.** Exclusion depends on time: `Times` (no `started_at`, in the row or remembered, is later than the
clock, so a new one differs from all), `RunningIsTimed`, `SeesClaimable` (what a consumer is about to claim was
claimable when read), `TakesOverStale` (who takes over a running job does so from a claim that is too old). With
them a claim that succeeds finds nobody at work (`OneAtWork`), and who is at work holds the row (`AtWorkHolds`).

**Notifications.** The invariant relates the rows to the processes and messages (`RowsOK`,
`EmittedOnce`, `ProcOK`, `MsgOK`): a process about to mark the push row done from what it read has an
answer behind it, one about to finish the run's row has made the push row or met a refusal, and a finished
row without a push row was refused. `Grows` and `Moves` say what a step may do to the facts
these use, so that each action is compared with them once. `PostIsUnique` holds until the first fault, because the
post has one bearer at a time (`OneBearer`): the row, the process that claimed it, or a single message.

**Events** (from `EventAssumption`; `NotificationProofs` extends `RunEventReader` too, which is why its specification
is called `EventSpec` and its type invariant `EventTypeOK`). `EmitEffect` first
computes what the two writes, the cap and the save of an emit do to the saved state; `StreamSteps` says that a step accepts one new
event, forgets the state or leaves the notifier alone. Without `forgot` the invariant `StreamInv` holds. `SegmentsClosed`: what is written is not ahead
of the counter, and if the next id falls into the segment written last, an event that ends a stream closed it.
`BufferWaits`: the buffer is for the segment of the last event, and behind what is written except for overtaken events; so
a write goes to a segment behind everything that is kept (`AllKept`), and a crash between write and save loses nothing.
`RingCovers`: while no write fails the buffer is the end of the ring, since the i-th waiting event of a segment has at least the
i-th id of the segment; this is where `RingSize >= SegmentSize` is used. `KeysRemembered`: a key is at most as far from the end of the
keys as there are later events, or `MaxKeys` events are later.

**Reader.** `PassFinds`: after the listing every event a pass owes has been read, lies in a segment it will still open, or is in the
ring at a place that the events since the listing have moved by one each. That an event in no listed segment is among the last
`SegmentSize - 1` is `BoundaryEmpty`: a full segment leaves nothing in the buffer while no write fails. A crash between the
write of a segment and the save leaves events in the archive that were never shown, under ids which are given again; `Phantoms` says they
lie in the segment of their id, so what replaces them is read in their place or from the ring. `Limit` only has to be
positive.

**Preinstallation.** `CompletedMeansInstalled` needs `PlanProgress`: what is not left to do of a
worker's plan is installed, also for a worker that lost its claim. Exclusion needs
`TakesOverExpired` and `HolderIsAlone`, up to the first worker that outlives its lease. A worker whose completion was applied
and threw still counts as at work although the row is completed; nobody claims a completed row (`ReadsOpenJob`). And it needs `NewLockIsNew`, a counting
argument on timestamps.

**MCP tools.** `PolicyInv`: an enabled row is the last review of its hash, and a review under way has read one. `ConfInv`: a confirmation is consumed exactly when one call was made with it or is about to be.
`RunInv`: a run about to call without a confirmation has loaded a tool that is not destructive, and one it holds is for
its own call. `DecidersHaveRows`. `Keeps` and `Steady` state which of
them an action leaves alone. The number of runs, conversations, requests and confirmations is arbitrary.

**Only model-checked.** Liveness (`EveryRunEnds`, `PlacesReturn`, `EveryJobEnds` of both modules,
`EveryOutcomeSettles`), which is outside the prover, as are ENABLED, induction over data, and RECURSIVE
operators, which no module here uses. Every invariant and every action property of a passing run is a theorem, and so are both
refinements.

## 8. Findings

1. `run_creation_race`: a cancel between the INSERT of a run and the creator's
   UPDATE by id is overwritten, and the cancelled run is executed.
2. `tool_replay`: a database error while recording a success is recorded as a failed
   tool call; the next call repeats the side effect.
3. `mcp_stale_policy`: whether a call asks the user is fixed when the run loads its tools (`mcp-tools.ts:531`). A run that loaded
   a tool as automatic goes on without asking after the policy has become `confirm_each_time`, because the
   check before the call reads the hash and `enabled` only; `src/docs/architecture/runtime-service.md:89` and 120-121 say that the
   current policy is validated again right before execution.

Seen while modelling, allowed by the models and without a run of their own:

* `executor-control-rpc.ts:396-401`: "Lease lost" is also answered to the owner of a lease that is held, when an access check
  throws during a tool call, or (1679-1691, 1321-1322) an overlapping save has moved the checkpoint pointer; `executor-host.ts:1126-1134`
  then revokes the owner's credential. The comment at 391-392 says that a transient database failure is no evidence of
  lost authority. The model has it as `AnswerConflict`, and `LiveTokenIsKept` concedes it.
* `run-notifier.ts:351, 461`: an event that follows a terminal event in the middle of a segment sets the segment index back to the
  flushed one and is dropped from the archive when its segment is closed; the comment at 360-368 says that this is what
  the code prevents. `ArchiveKeepsEvents` and `ReplayIsComplete` concede such events (`Overtaken`).
* `observation.ts:153-155`: when the notifier does not answer, the pass goes on without the ring, and the comment says that SQL and the
  object store suffice. The terminal row of SQL then takes the cursor past events that are in the notifier's buffer only, and the
  stream is closed. The model has the pass (`RingUnavailable`); `ReplayIsComplete` speaks of passes that reach the ring.
* `executor-control-rpc.ts:1850-1853`: a tool call that passed its lease check runs although a newer
  lease has taken over; the comment says it is refused. The ledger still keeps each key's effect single.
* `executor-control-rpc.ts:1648`: a save given up and repeated by its client may be processed late and
  replace a newer acknowledged checkpoint of the same lease.
* `containers/agent/src/main.rs:184-188`: a delayed `/start` of an old lease cancels the task of the
  lease that owns the run, and the cancelled task may then report the run as failed.
* `runtime/indexer/index.ts:232-248`: when the row it read has no token, the consumer's compare-and-set is on
  the status alone (`IsPriorState`), so a delivery that the outbox has taken back may still claim the job. The
  work is exclusive all the same (`WorkIsExclusive`).
* `observation.ts:108-158`: the archive is listed before the ring is read, and both hold 100 events. With 99 events in the
  buffer two more between the two reads close the segment and push its first event out of the ring; the reader gets neither
  copy, and the cursor passes it (`Outrun`).
* `observation.ts:135-152`: a response that the archive alone has filled is still merged with the ring, so the cursor jumps over
  the segments in between (`cut`).

## 9. Not modelled, and why

* Contents: prompts, messages, tool arguments, models, memory, what is indexed. They do not steer the control state.
* Legacy v1 run RPCs, explicit-tier and tier-2 dispatch, protocol negotiation: see section 3.
* Git hosting (refs, objects, pull requests, workflow runs, git-sync, sessions) is retired
  (`src/docs/reference/api.md:72-76`): its writers are unreachable from the worker's entry points.
  `createSnapshot` has no caller outside tests.
* The rate limit of run creation counts and inserts in two statements
  (`create-thread-run-store.ts:466`): a soft quota, which concurrent requests may exceed.
* Expired tokens of tier-3 slots are pruned only when the slot is read.
* An abort of a handler that is not an MCP call may surface as a plain error (`executor.ts:333`) and is then
  recorded as failed; `ToolOperations` assumes of a plain error that the tool had no effect.
* MCP registration, OAuth, token refresh and registries; message sequence; rate limiter: stateful, planned below.
* Circuit breaker, routing cache: one isolate's memory.
* Identity, spaces, object garbage collection: request-scoped statements or deletions by age.
* Local emulation of queue, database and durable objects: the models assume the production
  contract that it imitates.
* User interface, scripts, build and deployment, which are most of the repository's lines: no protocol
  state; `wrangler.toml` supplies constants. The share of the repository that the map covers is therefore small.

## 10. Plan

Done: the run path, what follows its end, the MCP tool gate, preinstallation. Next:

1. MCP OAuth: `refreshMcpToken` updates a connection by id alone; two refreshes of a rotating token, and
   a disconnect during a refresh.
2. The tree of a space's storage: rename, move and delete at the same time.
3. Message sequence and the idempotent insert of messages.
4. Composition of `ToolOperations` with `EngineCheckpoint`: what a resumed container repeats.
5. Object garbage collection against references added meanwhile.
6. Rate limiter as operators against a reference definition; rate limit and creation in two statements.

Proofs: the safety properties of the runs are proved. Worth stating next: that an index job which ended had been
handled or had used up its deliveries, and the part of `KeepsPromise` that a late opt-out cannot disturb.

The set of runs is kept to one per question: a new module brings one run, with its liveness where
it has any.

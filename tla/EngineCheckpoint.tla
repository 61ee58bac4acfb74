-------------------------- MODULE EngineCheckpoint --------------------------
(***************************************************************************)
(* The engine checkpoint of one run: a pointer in the run's row             *)
(* (runs.engine_checkpoint) to a checkpoint that is stored inline or, when  *)
(* large, as an object of the offload bucket.  The agent container saves    *)
(* it before each node, retries a save that it got no answer to, and loads  *)
(* it when a new lease takes over; complete-run and every other terminal    *)
(* transition clear it.  Row and bucket share no transaction, so each       *)
(* handler stages, compares and swaps, and cleans up in separate steps.     *)
(*                                                                         *)
(* A request is one RPC (or one cancel) on the Worker side; the object that *)
(* a save stages has a random key, here the request itself.  A checkpoint   *)
(* is the number of the engine step that it lets a container resume at.     *)
(***************************************************************************)
EXTENDS Naturals, FiniteSets

CONSTANTS
    Requests,   \* requests to the Worker
    None,       \* no request, and the key of an inline checkpoint
    MaxLease,   \* bound on the leases of the run
    MaxStep,    \* bound on the steps of the engine
    MaxTries,   \* FINALIZATION_MAX_ATTEMPTS
    MaxFaults   \* bound on crashes, lost answers and failed writes

ASSUME BoundsAssumption ==
    /\ MaxLease \in Nat /\ MaxStep \in Nat
    /\ MaxTries \in Nat \ {0} /\ MaxFaults \in Nat
ASSUME NoneAssumption == None \notin Requests

VARIABLES
    status,   \* "queued", "running" or "ended"
    lease,    \* leaseVersion of the run
    pointer,  \* runs.engine_checkpoint
    objects,  \* checkpoint objects in the bucket
    winner,   \* the lease whose complete-run ended the run, 0 if none
    agent,    \* the container of each lease
    request,  \* progress of each request
    acked,    \* history: the last step a container was told is saved
    late,     \* history: a save that its container had given up on reached
              \* the Worker's first read
    faults    \* faults so far

vars == <<status, lease, pointer, objects, winner, agent, request, acked, late,
          faults>>

Steps == 0..MaxStep
Leases == 1..MaxLease
Pointer == [set : BOOLEAN, step : Steps, key : Requests \cup {None}]
Null == [set |-> FALSE, step |-> 0, key |-> None]

Agent == [phase : {"off", "load", "work", "save", "finish", "stopped"},
          step : Steps, tries : 0..MaxTries, waits : Requests \cup {None}]

Request == [kind : {"none", "save", "load", "finish", "cancel"},
            pc : {"new", "sent", "read", "put", "update", "get", "commit",
                  "cleanup", "discard", "done"},
            lease : 0..MaxLease, step : Steps, large : BOOLEAN,
            seen : Pointer, answer : {"none", "ok", "fatal", "lost", "error"}]

TypeOK ==
    /\ status \in {"queued", "running", "ended"}
    /\ lease \in 0..MaxLease
    /\ pointer \in Pointer
    /\ objects \subseteq Requests
    /\ winner \in 0..MaxLease
    /\ agent \in [Leases -> Agent]
    /\ request \in [Requests -> Request]
    /\ acked \in Steps
    /\ late \in BOOLEAN
    /\ faults \in 0..MaxFaults

Init ==
    /\ status = "queued"
    /\ lease = 0
    /\ pointer = Null
    /\ objects = {}
    /\ winner = 0
    /\ agent = [v \in Leases |->
                  [phase |-> "off", step |-> 0, tries |-> 0, waits |-> None]]
    /\ request = [q \in Requests |->
                    [kind |-> "none", pc |-> "new", lease |-> 0, step |-> 0,
                     large |-> FALSE, seen |-> Null, answer |-> "none"]]
    /\ acked = 0
    /\ late = FALSE
    /\ faults = 0

Fault == faults < MaxFaults /\ faults' = faults + 1

(***************************************************************************)
(* The run and its containers.                                             *)
(***************************************************************************)

\* The queue handler claims the run and starts the container of the new lease.
Claim ==
    /\ status = "queued"
    /\ lease < MaxLease
    /\ status' = "running"
    /\ lease' = lease + 1
    /\ agent' = [agent EXCEPT ![lease'].phase = "load"]
    /\ UNCHANGED <<pointer, objects, winner, request, acked, late, faults>>

\* Stale recovery: the row goes back to queued and keeps its checkpoint.
Release ==
    /\ status = "running"
    /\ status' = "queued"
    /\ UNCHANGED <<lease, pointer, objects, winner, agent, request, acked, late,
                   faults>>

AgentFrame == UNCHANGED <<status, lease, pointer, objects, winner, late>>

Calls == {"load", "save", "finish"}

\* The container posts the RPC of its phase, for the first time or again.
Send(v, q) ==
    /\ agent[v].phase \in Calls
    /\ agent[v].waits = None
    /\ request[q].pc = "new"
    /\ \E large \in BOOLEAN :
         request' = [request EXCEPT ![q] = [@ EXCEPT
                       !.kind = agent[v].phase, !.pc = "sent", !.lease = v,
                       !.step = agent[v].step,
                       !.large = large /\ agent[v].phase = "save"]]
    /\ agent' = [agent EXCEPT ![v] = [@ EXCEPT !.waits = q,
                                              !.tries = agent[v].tries + 1]]
    /\ UNCHANGED <<acked, faults>>
    /\ AgentFrame

\* The engine reaches its next node and saves before it enters it.
EnterNode(v) ==
    /\ agent[v].phase = "work"
    /\ agent[v].step < MaxStep
    /\ agent' = [agent EXCEPT ![v] = [@ EXCEPT !.phase = "save", !.tries = 0,
                                              !.step = agent[v].step + 1]]
    /\ UNCHANGED <<request, acked, faults>>
    /\ AgentFrame

\* The engine is done, or failed.
FinishWork(v) ==
    /\ agent[v].phase = "work"
    /\ agent' = [agent EXCEPT ![v] = [@ EXCEPT !.phase = "finish", !.tries = 0]]
    /\ UNCHANGED <<request, acked, faults>>
    /\ AgentFrame

\* Without its checkpoint the run is finished as failed; a finish that does not
\* go through is left to stale recovery.
AfterFailure(v) == IF agent[v].phase = "finish" THEN "stopped" ELSE "finish"

\* A retryable error: again, until the attempts are used up.
Retry(v) ==
    agent' = [agent EXCEPT ![v] =
        IF agent[v].tries < MaxTries THEN [@ EXCEPT !.waits = None]
        ELSE [@ EXCEPT !.waits = None, !.tries = 0, !.phase = AfterFailure(v)]]

\* The answer to the awaited request arrives.
Receive(v) ==
    LET q == agent[v].waits IN
    /\ q # None
    /\ request[q].pc = "done"
    /\ \/ /\ request[q].answer = "ok"
          /\ agent' = [agent EXCEPT ![v] = [@ EXCEPT
                         !.waits = None,
                         !.phase = IF agent[v].phase = "finish" THEN "stopped"
                                                                ELSE "work",
                         !.step = request[q].step]]
          /\ acked' = IF agent[v].phase = "save" /\ request[q].step > acked
                     THEN request[q].step ELSE acked
       \/ /\ request[q].answer = "fatal"
          /\ agent' = [agent EXCEPT ![v] = [@ EXCEPT
                         !.waits = None, !.phase = "finish", !.tries = 0]]
          /\ UNCHANGED acked
       \/ /\ request[q].answer = "lost"
          /\ agent' = [agent EXCEPT ![v] = [@ EXCEPT
                         !.waits = None, !.phase = "stopped"]]
          /\ UNCHANGED acked
       \/ /\ request[q].answer = "error"
          /\ Retry(v)
          /\ UNCHANGED acked
    /\ UNCHANGED <<request, faults>>
    /\ AgentFrame

\* No answer within the client's timeout; the Worker may still be at it.
GiveUp(v) ==
    /\ agent[v].waits # None
    /\ Fault
    /\ Retry(v)
    /\ UNCHANGED <<request, acked>>
    /\ AgentFrame

ContainerDies(v) ==
    /\ agent[v].phase \notin {"off", "stopped"}
    /\ Fault
    /\ agent' = [agent EXCEPT ![v] = [@ EXCEPT !.phase = "stopped", !.waits = None]]
    /\ UNCHANGED <<request, acked>>
    /\ AgentFrame

(***************************************************************************)
(* The Worker's side of a request.                                         *)
(***************************************************************************)

WorkerFrame == UNCHANGED <<lease, agent, acked, late>>

Goto(q, pc) == request' = [request EXCEPT ![q].pc = pc]

Answer(q, answer) ==
    request' = [request EXCEPT ![q] = [@ EXCEPT !.pc = "done", !.answer = answer]]

\* The request reads the pointer and goes on at pc.
See(q, pc) ==
    request' = [request EXCEPT ![q] = [@ EXCEPT !.pc = pc, !.seen = pointer]]

IsAwaited(q) == \E v \in Leases : agent[v].waits = q

\* Mutant: the lease is compared, the status is not.
IsNewestLease(v) == v = lease

\* The conditions of the UPDATE: running, under this service and lease.
HoldsLease(v) == status = "running" /\ v = lease

\* Mutant: the row is updated if the lease holds, whatever the pointer is.
SwapIfHeld(q) == HoldsLease(request[q].lease)

\* The row still satisfies the conditions, the seen pointer included.
CanSwap(q) == HoldsLease(request[q].lease) /\ pointer = request[q].seen

HasObject(p) == p.key # None

\* handleEngineCheckpointSave checks the lease and reads the current pointer.
SaveReads(q) ==
    /\ request[q].kind = "save" /\ request[q].pc = "sent"
    /\ IF HoldsLease(request[q].lease)
       THEN See(q, IF request[q].large THEN "put" ELSE "update")
       ELSE Answer(q, "lost")
    /\ late' = (late \/ ~IsAwaited(q))
    /\ UNCHANGED <<status, lease, pointer, objects, winner, agent, acked, faults>>

\* A large checkpoint is staged under a fresh key.
SavePuts(q) ==
    /\ request[q].pc = "put"
    /\ objects' = objects \cup {q}
    /\ Goto(q, "update")
    /\ UNCHANGED <<status, pointer, winner, faults>>
    /\ WorkerFrame

\* The put throws, stored or not.
SavePutThrows(q) ==
    /\ request[q].pc = "put"
    /\ Fault
    /\ objects' \in {objects, objects \cup {q}}
    /\ Answer(q, "error")
    /\ UNCHANGED <<status, pointer, winner>>
    /\ WorkerFrame

\* What a save of this request writes into the row.
Stored(q) == [set |-> TRUE, step |-> request[q].step,
              key |-> IF request[q].large THEN q ELSE None]

\* The compare and swap of the pointer.
SaveUpdates(q) ==
    /\ request[q].pc = "update"
    /\ IF CanSwap(q)
       THEN /\ pointer' = Stored(q)
            /\ IF HasObject(request[q].seen) THEN Goto(q, "cleanup") ELSE Answer(q, "ok")
       ELSE /\ UNCHANGED pointer
            /\ IF request[q].large THEN Goto(q, "discard") ELSE Answer(q, "lost")
    /\ UNCHANGED <<status, objects, winner, faults>>
    /\ WorkerFrame

\* Mutant: the staged object is deleted although the update may have happened.
SaveUpdateThrowsAndDiscards(q) ==
    /\ request[q].pc = "update"
    /\ Fault
    /\ pointer' \in {pointer} \cup (IF CanSwap(q) THEN {Stored(q)} ELSE {})
    /\ IF request[q].large THEN Goto(q, "discard") ELSE Answer(q, "error")
    /\ UNCHANGED <<status, objects, winner>>
    /\ WorkerFrame

\* The update throws, applied or not: nothing is deleted.
SaveUpdateThrows(q) ==
    /\ request[q].pc = "update"
    /\ Fault
    /\ pointer' \in {pointer} \cup (IF CanSwap(q) THEN {Stored(q)} ELSE {})
    /\ Answer(q, "error")
    /\ UNCHANGED <<status, objects, winner>>
    /\ WorkerFrame

\* Mutant: a failed swap leaves the staged object behind.
AnswersLost(q) ==
    /\ request[q].pc = "discard"
    /\ Answer(q, "lost")
    /\ UNCHANGED <<status, pointer, objects, winner, faults>>
    /\ WorkerFrame

\* The swap failed: the staged object goes.
SaveDiscards(q) ==
    /\ request[q].pc = "discard"
    /\ objects' = objects \ {q}
    /\ Answer(q, "lost")
    /\ UNCHANGED <<status, pointer, winner, faults>>
    /\ WorkerFrame

\* The object of the replaced or cleared pointer goes.
DeleteReplaced(q) ==
    /\ request[q].pc = "cleanup"
    /\ objects' = objects \ {request[q].seen.key}
    /\ Answer(q, "ok")
    /\ UNCHANGED <<status, pointer, winner, faults>>
    /\ WorkerFrame

\* A delete fails, which is logged and ignored.
DeleteFails(q) ==
    /\ request[q].pc \in {"cleanup", "discard"}
    /\ Fault
    /\ Answer(q, IF request[q].pc = "cleanup" THEN "ok" ELSE "lost")
    /\ UNCHANGED <<status, pointer, objects, winner>>
    /\ WorkerFrame

\* handleEngineCheckpointLoad checks the lease.
LoadChecksLease(q) ==
    /\ request[q].kind = "load" /\ request[q].pc = "sent"
    /\ IF HoldsLease(request[q].lease) THEN Goto(q, "read") ELSE Answer(q, "lost")
    /\ UNCHANGED <<status, pointer, objects, winner, faults>>
    /\ WorkerFrame

Loaded(q, step) ==
    request' = [request EXCEPT ![q] = [@ EXCEPT !.pc = "done", !.answer = "ok",
                                                !.step = step]]

\* It reads the pointer by run id, and the operation ledger, which answers
\* "fatal" if a side effect of the run is uncertain (module ToolOperations).
LoadReads(q) ==
    /\ request[q].kind = "load" /\ request[q].pc = "read"
    /\ \/ Answer(q, "fatal")
       \/ IF HasObject(pointer) THEN See(q, "get") ELSE Loaded(q, pointer.step)
    /\ UNCHANGED <<status, pointer, objects, winner, faults>>
    /\ WorkerFrame

\* It fetches the object; one that is gone is an invalid checkpoint.
LoadGets(q) ==
    /\ request[q].pc = "get"
    /\ IF request[q].seen.key \in objects THEN Loaded(q, request[q].seen.step)
                                          ELSE Answer(q, "error")
    /\ UNCHANGED <<status, pointer, objects, winner, faults>>
    /\ WorkerFrame

\* handleCompleteRun checks service and lease, whatever the status: the row of
\* a finished run keeps its service id, a queued one has none.
CompleteChecksLease(q) ==
    /\ request[q].kind = "finish" /\ request[q].pc = "sent"
    /\ IF request[q].lease = lease /\ status # "queued"
       THEN Goto(q, "read") ELSE Answer(q, "lost")
    /\ UNCHANGED <<status, pointer, objects, winner, faults>>
    /\ WorkerFrame

\* It reads the pointer by run id.
CompleteReads(q) ==
    /\ request[q].kind = "finish" /\ request[q].pc = "read"
    /\ See(q, "commit")
    /\ UNCHANGED <<status, pointer, objects, winner, faults>>
    /\ WorkerFrame

CleanUpOrAnswer(q) ==
    IF HasObject(request[q].seen) THEN Goto(q, "cleanup") ELSE Answer(q, "ok")

\* The terminal transaction, which clears the pointer; a replay of the outcome
\* that this lease has committed counts as committed.
CompleteCommits(q) ==
    /\ request[q].kind = "finish" /\ request[q].pc = "commit"
    /\ \/ /\ CanSwap(q)
          /\ status' = "ended"
          /\ winner' = request[q].lease
          /\ pointer' = Null
          /\ CleanUpOrAnswer(q)
       \/ /\ ~CanSwap(q)
          /\ IF status = "ended" /\ winner = request[q].lease
             THEN CleanUpOrAnswer(q) ELSE Answer(q, "lost")
          /\ UNCHANGED <<status, winner, pointer>>
    /\ UNCHANGED <<objects, faults>>
    /\ WorkerFrame

\* The transaction's answer is lost, committed or not.
CompleteThrows(q) ==
    /\ request[q].kind = "finish" /\ request[q].pc = "commit"
    /\ Fault
    /\ \/ /\ CanSwap(q)
          /\ status' = "ended"
          /\ winner' = request[q].lease
          /\ pointer' = Null
       \/ UNCHANGED <<status, winner, pointer>>
    /\ Answer(q, "error")
    /\ UNCHANGED objects
    /\ WorkerFrame

\* A control-plane transition (cancel, dead letter, lost access) reads the
\* pointer of the active run.
TransitionReads(q) ==
    /\ request[q].pc = "new"
    /\ status # "ended"
    /\ request' = [request EXCEPT ![q] = [@ EXCEPT !.kind = "cancel",
                                                   !.pc = "commit",
                                                   !.seen = pointer]]
    /\ UNCHANGED <<status, pointer, objects, winner, faults>>
    /\ WorkerFrame

\* Its transaction: the run is still active and the pointer still the same.
TransitionCommits(q) ==
    /\ request[q].kind = "cancel" /\ request[q].pc = "commit"
    /\ IF status # "ended" /\ pointer = request[q].seen
       THEN /\ status' = "ended"
            /\ pointer' = Null
            /\ CleanUpOrAnswer(q)
       ELSE /\ Answer(q, "lost")
            /\ UNCHANGED <<status, pointer>>
    /\ UNCHANGED <<objects, winner, faults>>
    /\ WorkerFrame

\* The isolate dies in the middle of a request.
RequestDies(q) ==
    /\ request[q].pc \notin {"new", "done"}
    /\ Fault
    /\ Answer(q, "error")
    /\ UNCHANGED <<status, pointer, objects, winner>>
    /\ WorkerFrame

RunNext == Claim \/ Release

AgentNext ==
    \E v \in Leases :
        \/ \E q \in Requests : Send(v, q)
        \/ EnterNode(v) \/ FinishWork(v) \/ Receive(v) \/ GiveUp(v)
        \/ ContainerDies(v)

SaveStep(q) ==
    \/ SaveReads(q) \/ SavePuts(q) \/ SavePutThrows(q) \/ SaveUpdates(q)
    \/ SaveUpdateThrows(q) \/ SaveDiscards(q)

LoadStep(q) == LoadChecksLease(q) \/ LoadReads(q) \/ LoadGets(q)

TerminalStep(q) ==
    \/ CompleteChecksLease(q) \/ CompleteReads(q) \/ CompleteCommits(q)
    \/ CompleteThrows(q) \/ TransitionReads(q) \/ TransitionCommits(q)

RequestNext ==
    \E q \in Requests :
        \/ SaveStep(q) \/ LoadStep(q) \/ TerminalStep(q)
        \/ DeleteReplaced(q) \/ DeleteFails(q) \/ RequestDies(q)

Next == RunNext \/ AgentNext \/ RequestNext

Spec == Init /\ [][Next]_vars

(***************************************************************************)
(* Properties.                                                             *)
(***************************************************************************)

\* The pointer of the row never dangles: the object that it names has not been
\* deleted by any save, discard or terminal cleanup that raced the one that
\* wrote it (handleEngineCheckpointSave and the terminal transitions).
PointerIsReadable == HasObject(pointer) => pointer.key \in objects

\* No save that was under way revives the checkpoint of a finished run, whose
\* object nothing would ever delete.
EndedRunHasNoCheckpoint == status = "ended" => pointer = Null

\* No request is under way.
Idle == \A q \in Requests : request[q].pc \in {"new", "done"}

\* Once no request is under way, the saves and terminal transitions have deleted
\* every object but the one pointed at, except for at most one for each fault.
GarbageIsBounded ==
    Idle => Cardinality(objects \ {pointer.key}) <= faults

\* While the run is not finished, whoever loads its checkpoint resumes at the
\* last step that a container was told is saved, or at a later one.
AckedStepIsKept == status # "ended" => acked <= pointer.step

\* The same, as long as no save reaches the Worker after its container has
\* given up on it: retries, racing saves of two leases, lost answers and
\* crashes alone never take a checkpoint back.
AckedStepSurvives == late \/ AckedStepIsKept
=============================================================================

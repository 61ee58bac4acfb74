------------------------- MODULE RunLifecycleProofs -------------------------
(***************************************************************************)
(* Machine-checked facts about RunLifecycle, for every number of runs,      *)
(* invocations and sweeps and for every bound.                              *)
(*                                                                         *)
(* The argument has three layers.  WellFormed is the type invariant with    *)
(* the facts about program counters it needs.                               *)
(* CreationWindow says that nobody else touches a run before its creator    *)
(* has marked it queued.                                                   *)
(* RowInv ties the columns of a row to each other, to the history of claims *)
(* and to the terminal events.  Under the first two, every step of every    *)
(* actor does one of six things to one row (RowStep), and RowInv, the       *)
(* finality of terminal rows and the refinement of RunLedger follow from    *)
(* RowStep alone.                                                          *)
(*                                                                         *)
(* That answers stay true and that a live lease is kept also needs to know  *)
(* whose the agents are (AgentInv): an agent belongs to a claimed lease, and *)
(* an invocation about to reset a run holds the lease it claimed itself.    *)
(***************************************************************************)
EXTENDS RunLifecycle, TLAPS

(***************************************************************************)
(* WellFormed adds to TypeOK the three facts about program counters that    *)
(* make it inductive.                                                       *)
(***************************************************************************)

HandlersHaveRuns ==
    \A i \in Invocations : handler[i].pc # "idle" => handler[i].run \in Runs

FinishersHaveOutcomes ==
    \A r \in Runs, v \in Leases :
        container[r][v].pc = "finishing" => container[r][v].outcome # "none"

RereadersHaveTries ==
    \A r \in Runs :
        canceller[r].pc = "reread" => canceller[r].tries < CancelTries

WellFormed ==
    TypeOK /\ HandlersHaveRuns /\ FinishersHaveOutcomes /\ RereadersHaveTries

(***************************************************************************)
(* Type correctness: what each building block leaves behind.               *)
(***************************************************************************)

LEMMA ToQueuedType ==
  ASSUME TypeOK, NEW r \in Runs, ToQueued(r)
  PROVE  row' \in [Runs -> Row]
  <1>1. NoKey \in Key
    BY BoundsAssumption DEF Key, NoKey
  <1>2. "queued" \in RunStatus
    BY DEF RunStatus, ActiveStatus
  <1>3. row \in [Runs -> Row]
    BY DEF TypeOK
  <1>4. row' = [row EXCEPT ![r] = [@ EXCEPT !.status = "queued",
                                            !.serviceId = None,
                                            !.heartbeat = "null",
                                            !.completionKey = NoKey]]
    BY DEF ToQueued
  <1> QED BY <1>1, <1>2, <1>3, <1>4, ZenonT(60) DEF Row

LEMMA CommitTerminalType ==
  ASSUME TypeOK, NEW r \in Runs, NEW key \in Key,
         key.status \in TerminalStatus, CommitTerminal(r, key)
  PROVE  row' \in [Runs -> Row] /\ terminals' \in [Runs -> Seq(Key)]
  <1>1. row' \in [Runs -> Row]
    <2>1. row \in [Runs -> Row] /\ key.status \in RunStatus
      BY DEF TypeOK, RunStatus
    <2>2. row' = [row EXCEPT ![r] = [@ EXCEPT !.status = key.status,
                                              !.completionKey = key]]
      BY DEF CommitTerminal
    <2> QED BY <2>1, <2>2, ZenonT(60) DEF Row
  <1>2. terminals' \in [Runs -> Seq(Key)]
    BY DEF TypeOK, CommitTerminal
  <1> QED BY <1>1, <1>2

\* The UPDATE of the status alone.
LEMMA StatusType ==
  ASSUME TypeOK, NEW r \in Runs, NEW s \in RunStatus,
         row' = [row EXCEPT ![r].status = s]
  PROVE  row' \in [Runs -> Row]
  <1>1. row \in [Runs -> Row]
    BY DEF TypeOK
  <1>2. [row[r] EXCEPT !.status = s] \in Row
    BY <1>1, SMTT(60) DEF Row
  <1> QED BY <1>1, <1>2

LEMMA TransitionType ==
  ASSUME TypeOK, NEW r \in Runs, NEW b, NEW s \in TerminalStatus,
         TransitionRunTerminal(r, b, s)
  PROVE  row' \in [Runs -> Row] /\ terminals' \in [Runs -> Seq(Key)]
  <1> DEFINE key == [lease |-> 0, status |-> s]
  <1>1. key \in Key /\ key.status \in TerminalStatus
    BY BoundsAssumption DEF Key
  <1>2. CASE b
    <2>1. CommitTerminal(r, key)
      BY <1>2 DEF TransitionRunTerminal
    <2> HIDE DEF key
    <2> QED BY <2>1, <1>1, CommitTerminalType
  <1>3. CASE ~b
    BY <1>3 DEF TransitionRunTerminal, TypeOK
  <1> QED BY <1>2, <1>3

LEMMA EnqueueType ==
  ASSUME TypeOK, NEW r \in Runs, NEW n \in Attempts, Enqueue(r, n)
  PROVE  queue' \in [Runs -> [Attempts -> Nat]]
  BY DEF TypeOK, Enqueue

LEMMA RedeliverType ==
  ASSUME TypeOK, NEW r \in Runs, NEW n \in Attempts, Redeliver(r, n)
  PROVE  queue' \in [Runs -> [Attempts -> Nat]] /\ dlq' \in [Runs -> Nat]
  <1>1. CASE n < MaxRetries
    <2>1. n + 1 \in Attempts
      BY <1>1, BoundsAssumption DEF Attempts
    <2>2. queue' = [queue EXCEPT ![r][n + 1] = @ + 1] /\ dlq' = dlq
      BY <1>1, BoundsAssumption DEF Redeliver
    <2> QED BY <2>1, <2>2 DEF TypeOK
  <1>2. CASE n = MaxRetries
    <2>1. dlq' = [dlq EXCEPT ![r] = @ + 1] /\ queue' = queue
      BY <1>2, BoundsAssumption DEF Redeliver
    <2> QED BY <2>1 DEF TypeOK
  <1> QED BY <1>1, <1>2 DEF Redeliver

LEMMA FaultType ==
  ASSUME TypeOK, Fault
  PROVE  faults' \in 0..MaxFaults
  BY BoundsAssumption DEF TypeOK, Fault

LEMMA ZeroAttempt == 0 \in Attempts
  BY BoundsAssumption DEF Attempts

LEMMA SettleType ==
  ASSUME TypeOK, HandlersHaveRuns, NEW i \in Invocations, Settle(i)
  PROVE  handler' \in [Invocations -> Handler] /\ HandlersHaveRuns'
  <1>1. [pc |-> "idle", run |-> None, attempt |-> 0, lease |-> 0] \in Handler
    BY BoundsAssumption DEF Handler, HandlerPc, Attempts
  <1>2. handler' \in [Invocations -> Handler]
    BY <1>1 DEF TypeOK, Settle
  <1>3. HandlersHaveRuns'
    BY DEF TypeOK, Settle, HandlersHaveRuns
  <1> QED BY <1>2, <1>3

LEMMA GotoType ==
  ASSUME TypeOK, HandlersHaveRuns, NEW i \in Invocations, Working(i),
         NEW pc \in HandlerPc, Goto(i, pc)
  PROVE  handler' \in [Invocations -> Handler] /\ HandlersHaveRuns'
  <1>1. handler' \in [Invocations -> Handler]
    BY DEF TypeOK, Goto, Handler
  <1>2. HandlersHaveRuns'
    BY DEF TypeOK, Goto, HandlersHaveRuns, Working, Handler
  <1> QED BY <1>1, <1>2

LEMMA WorkingHandlerType ==
  ASSUME TypeOK, HandlersHaveRuns, NEW i \in Invocations, Working(i)
  PROVE  handler[i].run \in Runs /\ handler[i].attempt \in Attempts
  BY DEF TypeOK, Handler, Working, HandlersHaveRuns

LEMMA StopType ==
  ASSUME TypeOK, FinishersHaveOutcomes, NEW r \in Runs, NEW v \in Leases,
         NEW pc \in {"confirmed", "gone"}, Stop(r, v, pc)
  PROVE  container' \in [Runs -> [Leases -> Container]] /\ FinishersHaveOutcomes'
  <1> container \in [Runs -> [Leases -> Container]]
    BY DEF TypeOK
  <1>1. container' \in [Runs -> [Leases -> Container]]
    <2>1. [container[r][v] EXCEPT !.pc = pc] \in Container
      BY DEF Container, ContainerPc
    <2> QED BY <2>1 DEF Stop
  <1>2. FinishersHaveOutcomes'
    BY DEF TypeOK, Stop, FinishersHaveOutcomes, Container
  <1> QED BY <1>1, <1>2

LEMMA StartContainerType ==
  ASSUME TypeOK, FinishersHaveOutcomes, NEW r \in Runs, NEW v,
         StartContainer(r, v)
  PROVE  container' \in [Runs -> [Leases -> Container]] /\ FinishersHaveOutcomes'
  <1>1. [pc |-> "live", outcome |-> "none"] \in Container
    BY DEF Container, ContainerPc
  <1>2. container' \in [Runs -> [Leases -> Container]]
    BY <1>1 DEF TypeOK, StartContainer
  <1>3. FinishersHaveOutcomes'
    BY DEF TypeOK, StartContainer, FinishersHaveOutcomes
  <1> QED BY <1>2, <1>3

LEMMA CronToType ==
  ASSUME TypeOK, NEW c \in Crons, NEW r \in Runs \cup {None},
         NEW pc \in {"idle", "sendStale", "sendUnclaimed"}, CronTo(c, pc, r)
  PROVE  cron' \in [Crons -> Cron]
  BY DEF TypeOK, CronTo, Cron

(***************************************************************************)
(* Type correctness: every action.                                         *)
(***************************************************************************)

LEMMA WellFormedInit == Init => WellFormed
  <1> SUFFICES ASSUME Init PROVE WellFormed
    OBVIOUS
  <1> USE BoundsAssumption DEF Init
  <1>1. row \in [Runs -> Row]
    BY DEF Row, RunStatus, Key, NoKey
  <1>2. queue \in [Runs -> [Attempts -> Nat]] /\ dlq \in [Runs -> Nat]
    OBVIOUS
  <1>3. handler \in [Invocations -> Handler]
    BY DEF Handler, HandlerPc, Attempts
  <1>4. cron \in [Crons -> Cron] /\ creator \in [Runs -> CreatorPc]
    BY DEF Cron, CreatorPc
  <1>5. canceller \in [Runs -> Canceller]
    BY DEF Canceller, RunStatus
  <1>6. container \in [Runs -> [Leases -> Container]]
    BY DEF Container, ContainerPc
  <1>7. terminals \in [Runs -> Seq(Key)] /\ faults \in 0..MaxFaults
    OBVIOUS
  <1>8. TypeOK
    BY <1>1, <1>2, <1>3, <1>4, <1>5, <1>6, <1>7 DEF TypeOK
  <1> QED BY <1>8 DEF WellFormed, HandlersHaveRuns, FinishersHaveOutcomes,
                      RereadersHaveTries

LEMMA CreatorWellFormed ==
  ASSUME WellFormed, CreatorNext
  PROVE  WellFormed'
  <1>1. PICK r \in Runs :
          \/ CreatePendingRun(r) \/ MarkQueued(r) \/ SendRun(r)
          \/ SendRunThrows(r) \/ FailEnqueue(r) \/ CreatorCrash(r)
    BY DEF CreatorNext
  <1>2. TypeOK
    BY DEF WellFormed
  <1>3. CASE CreatePendingRun(r)
    <2>0. row' \in [Runs -> Row]
      BY <1>3, <1>2, StatusType DEF CreatePendingRun, RunStatus, ActiveStatus
    <2>1. TypeOK'
      BY <1>3, <1>2, <2>0 DEF TypeOK, CreatePendingRun, CreatorFrame, CreatorPc
    <2> QED BY <2>1, <1>3 DEF WellFormed, CreatePendingRun, CreatorFrame, HandlersHaveRuns,
                 FinishersHaveOutcomes, RereadersHaveTries
  <1>4. CASE MarkQueued(r)
    <2>0. row' \in [Runs -> Row]
      BY <1>4, <1>2, StatusType DEF MarkQueued, RunStatus, ActiveStatus
    <2>1. TypeOK'
      BY <1>4, <1>2, <2>0 DEF TypeOK, MarkQueued, CreatorFrame, CreatorPc
    <2> QED BY <2>1, <1>4 DEF WellFormed, MarkQueued, CreatorFrame, HandlersHaveRuns,
                 FinishersHaveOutcomes, RereadersHaveTries
  <1>5. CASE SendRun(r)
    <2>1. TypeOK'
      BY <1>5, <1>2, EnqueueType, ZeroAttempt DEF TypeOK, SendRun, CreatorFrame, CreatorPc
    <2> QED BY <2>1, <1>5 DEF WellFormed, SendRun, CreatorFrame, HandlersHaveRuns,
                 FinishersHaveOutcomes, RereadersHaveTries
  <1>6. CASE SendRunThrows(r)
    <2>1. TypeOK'
      BY <1>6, <1>2, EnqueueType, ZeroAttempt, FaultType DEF TypeOK, SendRunThrows, CreatorFrame, CreatorPc
    <2> QED BY <2>1, <1>6 DEF WellFormed, SendRunThrows, CreatorFrame, HandlersHaveRuns,
                 FinishersHaveOutcomes, RereadersHaveTries
  <1>7. CASE FailEnqueue(r)
    <2>1. TypeOK'
      BY <1>7, <1>2, TransitionType DEF TypeOK, FailEnqueue, CreatorFrame, CreatorPc, TerminalStatus
    <2> QED BY <2>1, <1>7 DEF WellFormed, FailEnqueue, CreatorFrame, HandlersHaveRuns,
                 FinishersHaveOutcomes, RereadersHaveTries
  <1>8. CASE CreatorCrash(r)
    <2>1. TypeOK'
      BY <1>8, <1>2, FaultType DEF TypeOK, CreatorCrash, CreatorFrame, CreatorPc
    <2> QED BY <2>1, <1>8 DEF WellFormed, CreatorCrash, CreatorFrame, HandlersHaveRuns,
                 FinishersHaveOutcomes, RereadersHaveTries
  <1> QED BY <1>1, <1>3, <1>4, <1>5, <1>6, <1>7, <1>8

LEMMA HandlerStepWellFormed ==
  ASSUME WellFormed, NEW i \in Invocations, Working(i),
         \/ HandlerStep(i) \/ DispatchFails(i) \/ HostRefuses(i)
         \/ HandlerThrows(i) \/ HandlerCrash(i) \/ DuplicateDelivery(i)
  PROVE  WellFormed'
  <1>1. TypeOK /\ HandlersHaveRuns /\ FinishersHaveOutcomes
    BY DEF WellFormed
  <1>2. handler[i].run \in Runs /\ handler[i].attempt \in Attempts
    BY <1>1, WorkingHandlerType
  <1> DEFINE h == handler[i]
  <1>3. CASE RecoverStale(i)
    BY <1>1, <1>2, <1>3, ToQueuedType, GotoType
    DEF RecoverStale, HandlerFrame, HandlerPc, WellFormed, TypeOK,
        HandlersHaveRuns, FinishersHaveOutcomes, RereadersHaveTries
  <1>4. CASE ClaimRun(i)
    <2>1. CASE Claimable(h.run)
      <3> DEFINE v == row[h.run].leaseVersion + 1
      <3>0. row[h.run].leaseVersion \in 0..MaxLease /\ v <= MaxLease
        BY <1>1, <1>2, <1>4, <2>1 DEF ClaimRun, TypeOK, Row
      <3>1. v \in Leases /\ v \in 0..MaxLease
        BY <3>0, BoundsAssumption DEF Leases
      <3>2. row' \in [Runs -> Row]
        <4>1. row' = [row EXCEPT ![h.run] = [@ EXCEPT !.status = "running",
                        !.serviceId = i, !.heartbeat = "fresh", !.leaseVersion = v]]
          BY <1>4, <2>1 DEF ClaimRun
        <4>2. "running" \in RunStatus
          BY DEF RunStatus, ActiveStatus
        <4> HIDE DEF v
        <4>3. row \in [Runs -> Row]
          BY <1>1 DEF TypeOK
        <4> QED BY <1>2, <3>1, <4>1, <4>2, <4>3, ZenonT(60) DEF Row
      <3>3. claimant' \in [Runs -> [Leases -> Invocations \cup {None}]]
        <4>1. claimant' = [claimant EXCEPT ![h.run][v] = i]
          BY <1>4, <2>1 DEF ClaimRun
        <4> HIDE DEF v
        <4> QED BY <1>1, <1>2, <3>1, <4>1 DEF TypeOK
      <3>4. handler' \in [Invocations -> Handler] /\ HandlersHaveRuns'
        BY <1>1, <1>4, <2>1, GotoType DEF ClaimRun, HandlerPc
      <3> QED BY <1>4, <2>1, <3>2, <3>3, <3>4
              DEF ClaimRun, HandlerFrame, WellFormed, TypeOK,
                  FinishersHaveOutcomes, RereadersHaveTries
    <2>2. CASE ~Claimable(h.run)
      BY <1>1, <1>4, <2>2, SettleType
      DEF ClaimRun, HandlerFrame, WellFormed, TypeOK, FinishersHaveOutcomes,
          RereadersHaveTries
    <2> QED BY <2>1, <2>2
  <1>5. CASE ReadBackLease(i)
    <2>1. CASE Settle(i)
      BY <1>1, <1>5, <2>1, SettleType
      DEF ReadBackLease, HandlerFrame, WellFormed, TypeOK, FinishersHaveOutcomes,
          RereadersHaveTries
    <2>2. CASE ~Settle(i)
      <3>1. handler' = [handler EXCEPT ![i] =
                          [@ EXCEPT !.pc = "access", !.lease = row[h.run].leaseVersion]]
        BY <1>5, <2>2 DEF ReadBackLease
      <3>2. row[h.run].leaseVersion \in 0..MaxLease
        BY <1>1, <1>2 DEF TypeOK, Row
      <3>3. handler' \in [Invocations -> Handler]
        BY <1>1, <3>1, <3>2, ZenonT(60) DEF TypeOK, Handler, HandlerPc
      <3>4. HandlersHaveRuns'
        BY <1>1, <1>2, <3>1 DEF TypeOK, Handler, HandlersHaveRuns
      <3> QED BY <1>5, <3>3, <3>4
              DEF ReadBackLease, HandlerFrame, WellFormed, TypeOK,
                  FinishersHaveOutcomes, RereadersHaveTries
    <2> QED BY <2>1, <2>2
  <1>6. CASE AssertExecutionAccess(i)
    BY <1>1, <1>2, <1>6, GotoType
    DEF AssertExecutionAccess, HandlerFrame, HandlerPc, WellFormed, TypeOK,
        HandlersHaveRuns, FinishersHaveOutcomes, RereadersHaveTries
  <1>7. CASE FreezeModel(i)
    BY <1>1, <1>2, <1>7, SettleType, GotoType, RedeliverType
    DEF FreezeModel, HandlerFrame, HandlerPc, WellFormed, TypeOK,
        HandlersHaveRuns, FinishersHaveOutcomes, RereadersHaveTries
  <1>8. CASE HostChecksLease(i)
    BY <1>1, <1>2, <1>8, GotoType
    DEF HostChecksLease, HandlerFrame, HandlerPc, WellFormed, TypeOK,
        HandlersHaveRuns, FinishersHaveOutcomes, RereadersHaveTries
  <1>9. CASE HostStartsContainer(i)
    BY <1>1, <1>2, <1>9, SettleType, StartContainerType
    DEF HostStartsContainer, HandlerFrame, WellFormed, TypeOK,
        HandlersHaveRuns, FinishersHaveOutcomes, RereadersHaveTries
  <1>10. CASE FailClaimedRun(i)
    BY <1>1, <1>2, <1>10, SettleType, TransitionType
    DEF FailClaimedRun, HandlerFrame, TerminalStatus, WellFormed, TypeOK,
        HandlersHaveRuns, FinishersHaveOutcomes, RereadersHaveTries
  <1>11. CASE ResetAndRetry(i)
    BY <1>1, <1>2, <1>11, SettleType, ToQueuedType, RedeliverType
    DEF ResetAndRetry, HandlerFrame, ReleaseIfOwned, WellFormed, TypeOK,
        HandlersHaveRuns, FinishersHaveOutcomes, RereadersHaveTries
  <1>12. CASE ResetForCapacity(i)
    BY <1>1, <1>2, <1>12, GotoType, ToQueuedType
    DEF ResetForCapacity, HandlerFrame, ReleaseIfOwned, HandlerPc, WellFormed, TypeOK,
        HandlersHaveRuns, FinishersHaveOutcomes, RereadersHaveTries
  <1>13. CASE RequeueForCapacity(i)
    BY <1>1, <1>2, <1>13, SettleType, RedeliverType, EnqueueType, ZeroAttempt, FaultType
    DEF RequeueForCapacity, HandlerFrame, WellFormed, TypeOK,
        HandlersHaveRuns, FinishersHaveOutcomes, RereadersHaveTries
  <1>14. CASE DispatchFails(i)
    BY <1>1, <1>2, <1>14, GotoType, StartContainerType, FaultType
    DEF DispatchFails, HandlerFrame, HandlerPc, WellFormed, TypeOK,
        HandlersHaveRuns, FinishersHaveOutcomes, RereadersHaveTries
  <1>15. CASE HostRefuses(i)
    BY <1>1, <1>2, <1>15, GotoType, FaultType
    DEF HostRefuses, HandlerFrame, HandlerPc, WellFormed, TypeOK,
        HandlersHaveRuns, FinishersHaveOutcomes, RereadersHaveTries
  <1>16. CASE HandlerThrows(i)
    BY <1>1, <1>2, <1>16, GotoType, FaultType
    DEF HandlerThrows, HandlerFrame, HandlerPc, WellFormed, TypeOK,
        HandlersHaveRuns, FinishersHaveOutcomes, RereadersHaveTries
  <1>17. CASE HandlerCrash(i)
    BY <1>1, <1>2, <1>17, SettleType, RedeliverType, FaultType
    DEF HandlerCrash, HandlerFrame, WellFormed, TypeOK,
        HandlersHaveRuns, FinishersHaveOutcomes, RereadersHaveTries
  <1>18. CASE DuplicateDelivery(i)
    BY <1>1, <1>2, <1>18, EnqueueType, FaultType
    DEF DuplicateDelivery, HandlerFrame, WellFormed, TypeOK,
        HandlersHaveRuns, FinishersHaveOutcomes, RereadersHaveTries
  <1> QED BY <1>3, <1>4, <1>5, <1>6, <1>7, <1>8, <1>9, <1>10, <1>11, <1>12, <1>13, <1>14, <1>15, <1>16, <1>17, <1>18 DEF HandlerStep

LEMMA HandlerWellFormed ==
  ASSUME WellFormed, HandlerNext
  PROVE  WellFormed'
  <1>1. TypeOK
    BY DEF WellFormed
  <1>2. CASE \E r \in Runs : ConsumeDeadLetter(r)
    <2>1. PICK r \in Runs : ConsumeDeadLetter(r)
      BY <1>2
    <2>2. row' \in [Runs -> Row] /\ terminals' \in [Runs -> Seq(Key)]
      BY <1>1, <2>1, TransitionType DEF ConsumeDeadLetter, TerminalStatus
    <2>3. dlq' \in [Runs -> Nat]
      BY <1>1, <2>1 DEF ConsumeDeadLetter, TypeOK
    <2> QED BY <2>1, <2>2, <2>3
            DEF ConsumeDeadLetter, HandlerFrame, WellFormed, TypeOK,
                HandlersHaveRuns, FinishersHaveOutcomes, RereadersHaveTries
  <1>3. ASSUME NEW i \in Invocations, NEW r \in Runs, NEW n \in Attempts,
               ReceiveMessage(i, r, n)
        PROVE  WellFormed'
    <2>1. queue' \in [Runs -> [Attempts -> Nat]]
      BY <1>1, <1>3 DEF ReceiveMessage, TypeOK
    <2>2. [pc |-> "recover", run |-> r, attempt |-> n, lease |-> 0] \in Handler
      BY BoundsAssumption DEF Handler, HandlerPc
    <2>3. handler' \in [Invocations -> Handler]
      BY <1>1, <1>3, <2>2 DEF ReceiveMessage, TypeOK
    <2>4. HandlersHaveRuns'
      BY <1>3 DEF ReceiveMessage, WellFormed, TypeOK, HandlersHaveRuns
    <2> QED BY <1>3, <2>1, <2>3, <2>4
            DEF ReceiveMessage, HandlerFrame, WellFormed, TypeOK,
                FinishersHaveOutcomes, RereadersHaveTries
  <1>4. ASSUME NEW i \in Invocations,
               \/ HandlerStep(i) \/ DispatchFails(i) \/ HostRefuses(i)
               \/ HandlerThrows(i) \/ HandlerCrash(i) \/ DuplicateDelivery(i)
        PROVE  WellFormed'
    <2>1. Working(i)
      BY <1>4 DEF HandlerStep, Working, RecoverStale, ClaimRun, ReadBackLease,
             AssertExecutionAccess, FreezeModel, HostChecksLease,
             HostStartsContainer, FailClaimedRun, ResetAndRetry,
             ResetForCapacity, RequeueForCapacity, DispatchFails, HostRefuses,
             HandlerThrows, HandlerCrash, DuplicateDelivery
    <2> QED BY <1>4, <2>1, HandlerStepWellFormed
  <1> QED BY <1>2, <1>3, <1>4 DEF HandlerNext

LEMMA ContainerWellFormed ==
  ASSUME WellFormed, ContainerNext
  PROVE  WellFormed'
  <1>1. PICK r \in Runs, v \in Leases :
          ContainerStep(r, v) \/ Heartbeat(r, v) \/ ContainerDies(r, v)
    BY DEF ContainerNext
  <1>2. TypeOK /\ FinishersHaveOutcomes
    BY DEF WellFormed
  <1>3. CASE Heartbeat(r, v)
    <2>1. row \in [Runs -> Row] /\ row' = [row EXCEPT ![r].heartbeat = "fresh"]
      BY <1>2, <1>3 DEF Heartbeat, TypeOK
    <2>2. row' \in [Runs -> Row]
      BY <2>1, SMTT(60) DEF Row
    <2> QED BY <1>2, <1>3, <2>2
            DEF Heartbeat, ContainerFrame, WellFormed, TypeOK, HandlersHaveRuns,
                FinishersHaveOutcomes, RereadersHaveTries
  <1>4. CASE HeartbeatLeaseLost(r, v)
    BY <1>2, <1>4, StopType
    DEF HeartbeatLeaseLost, ContainerFrame, WellFormed, TypeOK,
        HandlersHaveRuns, RereadersHaveTries
  <1>5. CASE FinishWork(r, v)
    <2>1. PICK st \in {"completed", "failed"} :
            container' = [container EXCEPT ![r][v] = [pc |-> "finishing",
                                                      outcome |-> st]]
      BY <1>5 DEF FinishWork
    <2>2. [pc |-> "finishing", outcome |-> st] \in Container
      BY DEF Container, ContainerPc
    <2>3. container' \in [Runs -> [Leases -> Container]]
      BY <1>2, <2>1, <2>2 DEF TypeOK
    <2>4. FinishersHaveOutcomes'
      BY <1>2, <2>1 DEF TypeOK, FinishersHaveOutcomes
    <2> QED BY <1>5, <2>3, <2>4 DEF FinishWork, ContainerFrame, WellFormed,
               TypeOK, HandlersHaveRuns, RereadersHaveTries
  <1>6. CASE CompleteRun(r, v)
    <2>1. container[r][v].outcome \in TerminalStatus
      BY <1>2, <1>6 DEF CompleteRun, TypeOK, Container, FinishersHaveOutcomes,
                        TerminalStatus
    <2>2. CompletionKey(r, v) \in Key /\ CompletionKey(r, v).status \in TerminalStatus
      BY <2>1, BoundsAssumption DEF CompletionKey, Key, Leases
    <2>3. row' \in [Runs -> Row] /\ terminals' \in [Runs -> Seq(Key)]
      BY <1>2, <1>6, <2>2, CommitTerminalType DEF CompleteRun
    <2>4. /\ container' \in [Runs -> [Leases -> Container]]
          /\ FinishersHaveOutcomes'
          /\ faults' \in 0..MaxFaults
      <3>1. CASE Stop(r, v, "confirmed") /\ UNCHANGED faults
        BY <1>2, <3>1, StopType DEF TypeOK
      <3>2. CASE Fault /\ UNCHANGED container
        BY <1>2, <3>2, FaultType DEF TypeOK, FinishersHaveOutcomes
      <3> QED BY <1>6, <3>1, <3>2 DEF CompleteRun
    <2> QED BY <1>6, <2>3, <2>4 DEF CompleteRun, ContainerFrame, WellFormed,
               TypeOK, HandlersHaveRuns, RereadersHaveTries
  <1>7. CASE CompleteRunAgain(r, v)
    BY <1>2, <1>7, StopType
    DEF CompleteRunAgain, ContainerFrame, WellFormed, TypeOK,
        HandlersHaveRuns, RereadersHaveTries
  <1>8. CASE ContainerDies(r, v)
    BY <1>2, <1>8, StopType, FaultType
    DEF ContainerDies, ContainerFrame, WellFormed, TypeOK,
        HandlersHaveRuns, RereadersHaveTries
  <1> QED BY <1>1, <1>3, <1>4, <1>5, <1>6, <1>7, <1>8 DEF ContainerStep

LEMMA CronWellFormed ==
  ASSUME WellFormed, CronNext
  PROVE  WellFormed'
  <1>1. PICK c \in Crons : CronStep(c) \/ CronSendThrows(c) \/ CronCrash(c)
    BY DEF CronNext
  <1>2. TypeOK
    BY DEF WellFormed
  <1>3. ASSUME NEW r \in Runs, CronResetsStale(c, r)
        PROVE  WellFormed'
    BY <1>2, <1>3, ToQueuedType, CronToType
    DEF CronResetsStale, CronFrame, WellFormed, TypeOK, HandlersHaveRuns,
        FinishersHaveOutcomes, RereadersHaveTries
  <1>4. ASSUME NEW r \in Runs, CronMarksUnclaimed(c, r)
        PROVE  WellFormed'
    <2>1. row' \in [Runs -> Row]
      <3>1. row \in [Runs -> Row] /\ "queued" \in RunStatus
        BY <1>2 DEF TypeOK, RunStatus, ActiveStatus
      <3>2. row' = [row EXCEPT ![r] = [@ EXCEPT !.status = "queued",
                                                !.heartbeat = "fresh"]]
        BY <1>4 DEF CronMarksUnclaimed
      <3> QED BY <3>1, <3>2, ZenonT(60) DEF Row
    <2> QED BY <1>2, <1>4, <2>1, CronToType
            DEF CronMarksUnclaimed, CronFrame, WellFormed, TypeOK,
                HandlersHaveRuns, FinishersHaveOutcomes, RereadersHaveTries
  <1>5. CASE CronSends(c)
    <2>1. queue' \in [Runs -> [Attempts -> Nat]]
      <3>1. CASE cron[c].run \in Runs
        BY <1>2, <1>5, <3>1, EnqueueType, ZeroAttempt DEF CronSends
      <3>2. CASE cron[c].run \notin Runs
        BY <1>2, <1>5, <3>2 DEF CronSends, Enqueue, TypeOK
      <3> QED BY <3>1, <3>2
    <2> QED BY <1>2, <1>5, <2>1, CronToType
            DEF CronSends, CronFrame, WellFormed, TypeOK, HandlersHaveRuns,
                FinishersHaveOutcomes, RereadersHaveTries
  <1>6. CASE CronSendThrows(c)
    <2>1. row' \in [Runs -> Row]
      <3> DEFINE r == cron[c].run
      <3>1. "running" \in RunStatus /\ row \in [Runs -> Row]
        BY <1>2 DEF RunStatus, ActiveStatus, TypeOK
      <3>2. \/ row' = row
            \/ row' = [row EXCEPT ![r] = [@ EXCEPT !.status = "running",
                                                   !.heartbeat = "stale"]]
        BY <1>6 DEF CronSendThrows
      <3> HIDE DEF r
      <3> QED BY <3>1, <3>2, ZenonT(60) DEF Row
    <2> QED BY <1>2, <1>6, <2>1, CronToType, FaultType
            DEF CronSendThrows, CronFrame, WellFormed, TypeOK, HandlersHaveRuns,
                FinishersHaveOutcomes, RereadersHaveTries
  <1>7. CASE CronCrash(c)
    BY <1>2, <1>7, CronToType, FaultType
    DEF CronCrash, CronFrame, WellFormed, TypeOK, HandlersHaveRuns,
        FinishersHaveOutcomes, RereadersHaveTries
  <1> QED BY <1>1, <1>3, <1>4, <1>5, <1>6, <1>7 DEF CronStep

LEMMA CancelWellFormed ==
  ASSUME WellFormed, CancelNext
  PROVE  WellFormed'
  <1>1. PICK r \in Runs : RequestCancel(r) \/ CancelAttempt(r) \/ CancelRereads(r)
    BY DEF CancelNext
  <1>2. TypeOK /\ RereadersHaveTries
    BY DEF WellFormed
  <1>3. row[r].status \in RunStatus
    BY <1>2 DEF TypeOK, Row
  <1>4. CASE RequestCancel(r)
    <2>1. canceller' \in [Runs -> Canceller] /\ RereadersHaveTries'
      BY <1>2, <1>3, <1>4 DEF RequestCancel, TypeOK, Canceller, RereadersHaveTries
    <2> QED BY <1>4, <2>1 DEF RequestCancel, CancelFrame, WellFormed, TypeOK,
               HandlersHaveRuns, FinishersHaveOutcomes
  <1>5. CASE CancelAttempt(r)
    <2>1. canceller' \in [Runs -> Canceller] /\ RereadersHaveTries'
      <3>1. PICK pc \in {"refused", "ok", "reread"} :
              /\ canceller' = [canceller EXCEPT ![r].pc = pc]
              /\ pc = "reread" => canceller[r].tries < CancelTries
        BY <1>5 DEF CancelAttempt, MayTry
      <3>2. canceller' \in [Runs -> Canceller]
        BY <1>2, <3>1 DEF TypeOK, Canceller
      <3>3. RereadersHaveTries'
        BY <1>2, <3>1 DEF TypeOK, Canceller, RereadersHaveTries
      <3> QED BY <3>2, <3>3
    <2>2. row' \in [Runs -> Row] /\ terminals' \in [Runs -> Seq(Key)]
      <3> DEFINE key == [lease |-> 0, status |-> "cancelled"]
      <3>1. CASE CommitTerminal(r, key)
        <4>1. key \in Key /\ key.status \in TerminalStatus
          BY BoundsAssumption DEF Key, TerminalStatus
        <4> HIDE DEF key
        <4> QED BY <1>2, <3>1, <4>1, CommitTerminalType
      <3>2. CASE UNCHANGED <<row, terminals>>
        BY <1>2, <3>2 DEF TypeOK
      <3> QED BY <1>5, <3>1, <3>2 DEF CancelAttempt, MayTry
    <2> QED BY <1>5, <2>1, <2>2 DEF CancelAttempt, CancelFrame, WellFormed,
               TypeOK, HandlersHaveRuns, FinishersHaveOutcomes
  <1>6. CASE CancelRereads(r)
    <2>1. canceller[r].tries + 1 \in 0..CancelTries
      BY <1>2, <1>6, BoundsAssumption
      DEF CancelRereads, TypeOK, Canceller, RereadersHaveTries
    <2>2. canceller' \in [Runs -> Canceller] /\ RereadersHaveTries'
      BY <1>2, <1>3, <1>6, <2>1
      DEF CancelRereads, TypeOK, Canceller, RereadersHaveTries
    <2> QED BY <1>6, <2>2 DEF CancelRereads, CancelFrame, WellFormed, TypeOK,
               HandlersHaveRuns, FinishersHaveOutcomes
  <1> QED BY <1>1, <1>4, <1>5, <1>6

LEMMA TimeWellFormed ==
  ASSUME WellFormed, TimeNext
  PROVE  WellFormed'
  <1>1. PICK r \in Runs :
          HeartbeatExpires(r) \/ HeartbeatExpiresEarly(r) \/ CreatedAtAges(r)
    BY DEF TimeNext
  <1>2. TypeOK
    BY DEF WellFormed
  <1>3. row' \in [Runs -> Row] /\ aged' \in [Runs -> BOOLEAN]
    <2>1. CASE HeartbeatExpires(r) \/ HeartbeatExpiresEarly(r)
      <3>1. row' = [row EXCEPT ![r].heartbeat = "stale"] /\ aged' = aged
        BY <2>1 DEF HeartbeatExpires, HeartbeatExpiresEarly
      <3> QED BY <1>2, <3>1 DEF TypeOK, Row
    <2>2. CASE CreatedAtAges(r)
      BY <1>2, <2>2 DEF CreatedAtAges, TypeOK
    <2> QED BY <1>1, <2>1, <2>2
  <1>4. faults' \in 0..MaxFaults
    BY <1>1, <1>2, FaultType DEF HeartbeatExpires, HeartbeatExpiresEarly,
                                 CreatedAtAges, TypeOK
  <1> QED BY <1>1, <1>2, <1>3, <1>4
          DEF HeartbeatExpires, HeartbeatExpiresEarly, CreatedAtAges, TimeFrame,
              WellFormed, TypeOK, HandlersHaveRuns, FinishersHaveOutcomes,
              RereadersHaveTries

LEMMA WellFormedStep == WellFormed /\ [Next]_vars => WellFormed'
  <1>1. ASSUME WellFormed, UNCHANGED vars PROVE WellFormed'
    BY <1>1 DEF vars, WellFormed, TypeOK, HandlersHaveRuns,
                FinishersHaveOutcomes, RereadersHaveTries
  <1> QED BY <1>1, CreatorWellFormed, HandlerWellFormed, ContainerWellFormed,
             CronWellFormed, CancelWellFormed, TimeWellFormed DEF Next

\* Every variable keeps its type in every behaviour: in particular no actor
\* settles a message that is not there, no cancel request exceeds its attempts,
\* and complete-run never writes a status that is not an outcome.
THEOREM TypeCorrect == Spec => []TypeOK
  <1>1. Spec => []WellFormed
    BY WellFormedInit, WellFormedStep, PTL DEF Spec
  <1>2. WellFormed => TypeOK
    BY DEF WellFormed
  <1> QED BY <1>1, <1>2, PTL

(***************************************************************************)
(* The inductive invariant.                                                *)
(***************************************************************************)

\* Before the creator has marked the run queued, no other actor knows of it.
Untouched(r) ==
    /\ row[r].status = IF creator[r] = "none" THEN "absent" ELSE "pending"
    /\ ~aged[r]
    /\ canceller[r].pc = "none"
    /\ dlq[r] = 0
    /\ \A n \in Attempts : queue[r][n] = 0
    /\ \A i \in Invocations : handler[i].pc # "idle" => handler[i].run # r
    /\ \A c \in Crons : cron[c].pc # "idle" => cron[c].run # r

CreationWindow ==
    \A r \in Runs : creator[r] \in {"none", "inserted"} => Untouched(r)

\* What the columns of one row say about each other, about the claims made so
\* far and about the terminal events.
RowOK(r) ==
    /\ row[r].status \in {"absent", "pending", "queued"} => row[r].serviceId = None
    /\ row[r].serviceId # None =>
         /\ row[r].leaseVersion \in Leases
         /\ row[r].serviceId = claimant[r][row[r].leaseVersion]
    /\ \A v \in Leases : claimant[r][v] # None <=> v <= row[r].leaseVersion
    /\ row[r].completionKey.status = IF row[r].status \in TerminalStatus
                                     THEN row[r].status ELSE "none"
    /\ row[r].completionKey.lease # 0 =>
         /\ row[r].status \in TerminalStatus
         /\ row[r].completionKey.lease = row[r].leaseVersion
    /\ terminals[r] = IF row[r].status \in TerminalStatus
                      THEN <<row[r].completionKey>> ELSE <<>>

RowInv == \A r \in Runs : RowOK(r)

IInv == WellFormed /\ CreationWindow /\ RowInv

(***************************************************************************)
(* The six things a step can do to a row.                                  *)
(***************************************************************************)

SameOwner(r) ==
    /\ row'[r].serviceId = row[r].serviceId
    /\ row'[r].leaseVersion = row[r].leaseVersion
    /\ claimant'[r] = claimant[r]

SameRecord(r) ==
    /\ row'[r].completionKey = row[r].completionKey
    /\ terminals'[r] = terminals[r]

\* Nothing but the heartbeat changes.
Same(r) == row'[r].status = row[r].status /\ SameOwner(r) /\ SameRecord(r)

Inserts(r) ==
    /\ row[r].status = "absent" /\ row'[r].status = "pending"
    /\ SameOwner(r) /\ SameRecord(r)

\* A waiting row is marked queued, or put back to running without an owner.
Waits(r) ==
    /\ row[r].status \in {"pending", "queued"}
    /\ row'[r].status \in {"queued", "running"}
    /\ SameOwner(r) /\ SameRecord(r)

Releases(r) ==
    /\ row[r].status = "running" /\ row'[r].status = "queued"
    /\ row'[r].serviceId = None
    /\ row'[r].leaseVersion = row[r].leaseVersion
    /\ claimant'[r] = claimant[r]
    /\ row'[r].completionKey = NoKey
    /\ terminals'[r] = terminals[r]

Claims(r) ==
    /\ row[r].status = "queued" /\ row'[r].status = "running"
    /\ row[r].serviceId = None /\ row'[r].serviceId \in Invocations
    /\ row'[r].leaseVersion = row[r].leaseVersion + 1
    /\ row'[r].leaseVersion \in Leases
    /\ claimant'[r] = [claimant[r] EXCEPT ![row'[r].leaseVersion] = row'[r].serviceId]
    /\ SameRecord(r)

\* Only the owner's complete-run writes a lease into the key, and only it
\* completes a run.
Ends(r) ==
    /\ row[r].status \in ActiveStatus
    /\ row'[r].status \in TerminalStatus
    /\ row'[r].completionKey.status = row'[r].status
    /\ \/ row'[r].completionKey.lease = 0 /\ row'[r].status # "completed"
       \/ /\ row'[r].completionKey.lease = row[r].leaseVersion
          /\ row[r].status = "running" /\ row[r].serviceId # None
    /\ SameOwner(r)
    /\ terminals'[r] = Append(terminals[r], row'[r].completionKey)

Changes(r) == Inserts(r) \/ Waits(r) \/ Releases(r) \/ Claims(r) \/ Ends(r)

RowStep ==
    \/ \A q \in Runs : Same(q)
    \/ \E r \in Runs : Changes(r) /\ \A q \in Runs \ {r} : Same(q)

(***************************************************************************)
(* Every step is a RowStep.                                                *)
(***************************************************************************)

LEMMA UnchangedIsRowStep ==
  ASSUME UNCHANGED <<row, claimant, terminals>>
  PROVE  RowStep
  BY DEF RowStep, Same, SameOwner, SameRecord

LEMMA HeartbeatIsRowStep ==
  ASSUME TypeOK, NEW r \in Runs, NEW h,
         row' = [row EXCEPT ![r].heartbeat = h], UNCHANGED <<claimant, terminals>>
  PROVE  RowStep
  BY DEF TypeOK, Row, RowStep, Same, SameOwner, SameRecord

LEMMA ToQueuedIsRowStep ==
  ASSUME TypeOK, NEW r \in Runs, row[r].status = "running", ToQueued(r),
         UNCHANGED <<claimant, terminals>>
  PROVE  RowStep
  <1>1. Releases(r)
    BY DEF TypeOK, Row, ToQueued, Releases
  <1>2. \A q \in Runs \ {r} : Same(q)
    BY DEF TypeOK, Row, ToQueued, Same, SameOwner, SameRecord
  <1> QED BY <1>1, <1>2 DEF RowStep, Changes

LEMMA CommitIsRowStep ==
  ASSUME TypeOK, NEW r \in Runs, NEW key \in Key, CommitTerminal(r, key),
         row[r].status \in ActiveStatus, key.status \in TerminalStatus,
         \/ key.lease = 0 /\ key.status # "completed"
         \/ /\ key.lease = row[r].leaseVersion
            /\ row[r].status = "running" /\ row[r].serviceId # None,
         UNCHANGED claimant
  PROVE  RowStep
  <1>1. /\ row'[r].status = key.status /\ row'[r].completionKey = key
        /\ row'[r].serviceId = row[r].serviceId
        /\ row'[r].leaseVersion = row[r].leaseVersion
        /\ terminals'[r] = Append(terminals[r], key)
    BY DEF TypeOK, Row, CommitTerminal
  <1>2. Ends(r)
    BY <1>1 DEF Ends, SameOwner
  <1>3. \A q \in Runs \ {r} : Same(q)
    BY DEF TypeOK, Row, CommitTerminal, Same, SameOwner, SameRecord
  <1> QED BY <1>2, <1>3 DEF RowStep, Changes

LEMMA TransitionIsRowStep ==
  ASSUME TypeOK, NEW r \in Runs, NEW b, NEW s \in {"failed", "cancelled"},
         b => row[r].status \in ActiveStatus,
         TransitionRunTerminal(r, b, s), UNCHANGED claimant
  PROVE  RowStep
  <1> DEFINE key == [lease |-> 0, status |-> s]
  <1>1. /\ key \in Key /\ key.status \in TerminalStatus
        /\ key.lease = 0 /\ key.status # "completed"
    BY BoundsAssumption DEF Key, TerminalStatus
  <1>2. CASE b
    <2>1. CommitTerminal(r, key)
      BY <1>2 DEF TransitionRunTerminal
    <2> HIDE DEF key
    <2> QED BY <1>1, <1>2, <2>1, CommitIsRowStep
  <1>3. CASE ~b
    BY <1>3, UnchangedIsRowStep DEF TransitionRunTerminal
  <1> QED BY <1>2, <1>3

LEMMA CreatorRowStep ==
  ASSUME TypeOK, CreationWindow, CreatorNext
  PROVE  RowStep
  <1>1. PICK r \in Runs :
          \/ CreatePendingRun(r) \/ MarkQueued(r) \/ SendRun(r)
          \/ SendRunThrows(r) \/ FailEnqueue(r) \/ CreatorCrash(r)
    BY DEF CreatorNext
  <1>2. CASE CreatePendingRun(r)
    <2>1. row[r].status = "absent"
      BY <1>2 DEF CreatePendingRun, CreationWindow, Untouched
    <2>2. Inserts(r) /\ \A q \in Runs \ {r} : Same(q)
      BY <1>2, <2>1 DEF TypeOK, Row, CreatePendingRun, CreatorFrame, Inserts,
                        Same, SameOwner, SameRecord
    <2> QED BY <2>2 DEF RowStep, Changes
  <1>3. CASE MarkQueued(r)
    <2>1. row[r].status = "pending"
      BY <1>3 DEF MarkQueued, CreationWindow, Untouched
    <2>2. Waits(r) /\ \A q \in Runs \ {r} : Same(q)
      BY <1>3, <2>1 DEF TypeOK, Row, MarkQueued, CreatorFrame, Waits,
                        Same, SameOwner, SameRecord
    <2> QED BY <2>2 DEF RowStep, Changes
  <1>4. CASE SendRun(r) \/ SendRunThrows(r) \/ CreatorCrash(r)
    BY <1>4, UnchangedIsRowStep
    DEF SendRun, SendRunThrows, CreatorCrash, CreatorFrame
  <1>5. CASE FailEnqueue(r)
    BY <1>5, TransitionIsRowStep DEF FailEnqueue, CreatorFrame, ActiveStatus
  <1> QED BY <1>1, <1>2, <1>3, <1>4, <1>5

LEMMA HandlerRowStep ==
  ASSUME WellFormed, HandlerNext
  PROVE  RowStep
  <1>1. TypeOK /\ HandlersHaveRuns
    BY DEF WellFormed
  <1>2. ASSUME NEW r \in Runs, ConsumeDeadLetter(r)
        PROVE  RowStep
    BY <1>1, <1>2, TransitionIsRowStep DEF ConsumeDeadLetter, ActiveStatus
  <1>3. ASSUME NEW i \in Invocations, NEW r \in Runs, NEW n \in Attempts,
               ReceiveMessage(i, r, n)
        PROVE  RowStep
    BY <1>3, UnchangedIsRowStep DEF ReceiveMessage
  <1>4. ASSUME NEW i \in Invocations,
               \/ ReadBackLease(i) \/ AssertExecutionAccess(i) \/ FreezeModel(i)
               \/ HostChecksLease(i) \/ HostStartsContainer(i)
               \/ RequeueForCapacity(i) \/ DispatchFails(i) \/ HostRefuses(i)
               \/ HandlerThrows(i) \/ HandlerCrash(i) \/ DuplicateDelivery(i)
        PROVE  RowStep
    BY <1>4, UnchangedIsRowStep
    DEF ReadBackLease, AssertExecutionAccess, FreezeModel, HostChecksLease,
        HostStartsContainer, RequeueForCapacity, DispatchFails, HostRefuses,
        HandlerThrows, HandlerCrash, DuplicateDelivery
  <1>5. ASSUME NEW i \in Invocations,
               \/ RecoverStale(i) \/ ResetAndRetry(i) \/ ResetForCapacity(i)
        PROVE  RowStep
    <2>1. handler[i].run \in Runs /\ UNCHANGED <<claimant, terminals>>
      BY <1>1, <1>5
      DEF HandlersHaveRuns, RecoverStale, ResetAndRetry, ResetForCapacity
    <2>2. CASE UNCHANGED row
      BY <2>1, <2>2, UnchangedIsRowStep
    <2>3. CASE ~UNCHANGED row
      <3>1. row[handler[i].run].status = "running" /\ ToQueued(handler[i].run)
        BY <1>5, <2>3 DEF RecoverStale, ResetAndRetry, ResetForCapacity,
                          ReleaseIfOwned, IsStaleRunning
      <3> QED BY <1>1, <2>1, <3>1, ToQueuedIsRowStep
    <2> QED BY <2>2, <2>3
  <1>6. ASSUME NEW i \in Invocations, FailClaimedRun(i)
        PROVE  RowStep
    <2> DEFINE r == handler[i].run
               b == HoldsLease(r, i, handler[i].lease)
    <2>1. r \in Runs
      BY <1>1, <1>6 DEF FailClaimedRun, HandlersHaveRuns
    <2>2. TransitionRunTerminal(r, b, "failed") /\ UNCHANGED claimant
      BY <1>6 DEF FailClaimedRun
    <2>3. b => row[r].status \in ActiveStatus
      BY DEF HoldsLease, ActiveStatus
    <2> HIDE DEF r, b
    <2> QED BY <1>1, <2>1, <2>2, <2>3, TransitionIsRowStep
  <1>7. ASSUME NEW i \in Invocations, ClaimRun(i)
        PROVE  RowStep
    <2> DEFINE r == handler[i].run
               v == row[r].leaseVersion + 1
    <2>1. r \in Runs
      BY <1>1, <1>7 DEF ClaimRun, HandlersHaveRuns
    <2>2. CASE ~Claimable(r)
      BY <1>7, <2>2, UnchangedIsRowStep DEF ClaimRun
    <2>3. CASE Claimable(r)
      <3>1. /\ row' = [row EXCEPT ![r] = [@ EXCEPT !.status = "running",
                         !.serviceId = i, !.heartbeat = "fresh", !.leaseVersion = v]]
            /\ claimant' = [claimant EXCEPT ![r][v] = i]
            /\ terminals' = terminals
            /\ v <= MaxLease
        BY <1>7, <2>3 DEF ClaimRun
      <3>2. v \in Leases
        <4>1. row[r].leaseVersion \in 0..MaxLease
          BY <1>1, <2>1 DEF TypeOK, Row
        <4> QED BY <3>1, <4>1, BoundsAssumption DEF Leases
      <3>3. /\ row'[r].status = "running" /\ row'[r].serviceId = i
            /\ row'[r].leaseVersion = v
            /\ row'[r].completionKey = row[r].completionKey
            /\ claimant'[r] = [claimant[r] EXCEPT ![v] = i]
        <4> HIDE DEF v
        <4>1. claimant'[r] = [claimant[r] EXCEPT ![v] = i]
          BY <1>1, <2>1, <3>1, <3>2 DEF TypeOK
        <4> QED BY <1>1, <2>1, <3>1, <4>1 DEF TypeOK, Row
      <3>4. Claims(r)
        BY <2>3, <3>1, <3>2, <3>3 DEF Claims, Claimable, SameRecord
      <3>5. \A q \in Runs \ {r} : Same(q)
        BY <1>1, <3>1 DEF TypeOK, Row, Same, SameOwner, SameRecord
      <3> QED BY <2>1, <3>4, <3>5 DEF RowStep, Changes
    <2> QED BY <2>2, <2>3
  <1> QED BY <1>2, <1>3, <1>4, <1>5, <1>6, <1>7 DEF HandlerNext, HandlerStep

LEMMA ContainerRowStep ==
  ASSUME WellFormed, RowInv, ContainerNext
  PROVE  RowStep
  <1>1. PICK r \in Runs, v \in Leases :
          ContainerStep(r, v) \/ Heartbeat(r, v) \/ ContainerDies(r, v)
    BY DEF ContainerNext
  <1>2. TypeOK /\ FinishersHaveOutcomes
    BY DEF WellFormed
  <1>3. CASE \/ HeartbeatLeaseLost(r, v) \/ FinishWork(r, v)
             \/ CompleteRunAgain(r, v) \/ ContainerDies(r, v)
    BY <1>3, UnchangedIsRowStep DEF HeartbeatLeaseLost, FinishWork,
       CompleteRunAgain, ContainerDies, ContainerFrame
  <1>4. CASE Heartbeat(r, v)
    BY <1>2, <1>4, HeartbeatIsRowStep DEF Heartbeat, ContainerFrame
  <1>5. CASE CompleteRun(r, v)
    <2>1. /\ row[r].status = "running" /\ row[r].leaseVersion = v
          /\ row[r].serviceId = claimant[r][v]
      BY <1>5 DEF CompleteRun, ContainerHoldsLease, HoldsLease
    <2>2. row[r].serviceId # None
      <3>1. claimant[r][v] # None <=> v <= row[r].leaseVersion
        BY DEF RowInv, RowOK
      <3> QED BY <2>1, <3>1, BoundsAssumption DEF Leases
    <2>3. container[r][v].outcome \in TerminalStatus
      BY <1>2, <1>5 DEF CompleteRun, TypeOK, Container, FinishersHaveOutcomes,
                        TerminalStatus
    <2> DEFINE key == CompletionKey(r, v)
    <2>4. /\ key \in Key /\ key.status \in TerminalStatus
          /\ key.lease = row[r].leaseVersion
      BY <2>1, <2>3, BoundsAssumption DEF CompletionKey, Key, Leases
    <2>5. CommitTerminal(r, key) /\ UNCHANGED claimant
      BY <1>5 DEF CompleteRun, ContainerFrame
    <2> HIDE DEF key
    <2> QED BY <1>2, <2>1, <2>2, <2>4, <2>5, CommitIsRowStep DEF ActiveStatus
  <1> QED BY <1>1, <1>3, <1>4, <1>5 DEF ContainerStep

LEMMA CronRowStep ==
  ASSUME TypeOK, CronNext
  PROVE  RowStep
  <1>1. PICK c \in Crons : CronStep(c) \/ CronSendThrows(c) \/ CronCrash(c)
    BY DEF CronNext
  <1>2. CASE CronSends(c) \/ CronCrash(c)
    BY <1>2, UnchangedIsRowStep DEF CronSends, CronCrash, CronFrame
  <1>3. ASSUME NEW r \in Runs, CronResetsStale(c, r)
        PROVE  RowStep
    BY <1>3, ToQueuedIsRowStep DEF CronResetsStale, CronFrame, IsStaleRunning
  <1>4. ASSUME NEW r \in Runs, CronMarksUnclaimed(c, r)
        PROVE  RowStep
    <2>1. Waits(r)
      BY <1>4 DEF TypeOK, Row, CronMarksUnclaimed, CronFrame, IsUnclaimed, Waits,
                  SameOwner, SameRecord
    <2>2. \A q \in Runs \ {r} : Same(q)
      BY <1>4 DEF TypeOK, Row, CronMarksUnclaimed, CronFrame, Same, SameOwner,
                  SameRecord
    <2> QED BY <2>1, <2>2 DEF RowStep, Changes
  <1>5. CASE CronSendThrows(c)
    <2> DEFINE r == cron[c].run
    <2>1. CASE row' = row
      BY <1>5, <2>1, UnchangedIsRowStep DEF CronSendThrows, CronFrame
    <2>2. CASE row' # row
      <3>1. /\ row' = [row EXCEPT ![r] = [@ EXCEPT !.status = "running",
                                                   !.heartbeat = "stale"]]
            /\ row[r].status = "queued"
            /\ UNCHANGED <<claimant, terminals>>
        BY <1>5, <2>2 DEF CronSendThrows, CronFrame
      <3>2. r \in Runs
        <4>1. SUFFICES ASSUME r \notin Runs PROVE row' = row
          BY <2>2
        <4> HIDE DEF r
        <4> QED BY <3>1, <4>1 DEF TypeOK
      <3> HIDE DEF r
      <3>3. Waits(r)
        BY <3>1, <3>2 DEF TypeOK, Row, Waits, SameOwner, SameRecord
      <3>4. \A q \in Runs \ {r} : Same(q)
        BY <3>1, <3>2 DEF TypeOK, Row, Same, SameOwner, SameRecord
      <3> QED BY <3>2, <3>3, <3>4 DEF RowStep, Changes
    <2> QED BY <2>1, <2>2
  <1> QED BY <1>1, <1>2, <1>3, <1>4, <1>5 DEF CronStep

LEMMA CancelRowStep ==
  ASSUME TypeOK, CancelNext
  PROVE  RowStep
  <1>1. PICK r \in Runs : RequestCancel(r) \/ CancelAttempt(r) \/ CancelRereads(r)
    BY DEF CancelNext
  <1>2. UNCHANGED claimant
    BY <1>1 DEF RequestCancel, CancelAttempt, CancelRereads, CancelFrame
  <1>3. CASE UNCHANGED <<row, terminals>>
    BY <1>2, <1>3, UnchangedIsRowStep
  <1>4. CASE ~UNCHANGED <<row, terminals>>
    <2> DEFINE key == [lease |-> 0, status |-> "cancelled"]
    <2>1. CommitTerminal(r, key) /\ row[r].status \in ActiveStatus
      BY <1>1, <1>4 DEF RequestCancel, CancelRereads, CancelAttempt, CancelMatches
    <2>2. TransitionRunTerminal(r, TRUE, "cancelled")
      BY <2>1 DEF TransitionRunTerminal
    <2> QED BY <1>2, <2>1, <2>2, TransitionIsRowStep
  <1> QED BY <1>3, <1>4

LEMMA TimeRowStep ==
  ASSUME TypeOK, TimeNext
  PROVE  RowStep
  <1>1. PICK r \in Runs :
          HeartbeatExpires(r) \/ HeartbeatExpiresEarly(r) \/ CreatedAtAges(r)
    BY DEF TimeNext
  <1>2. CASE HeartbeatExpires(r) \/ HeartbeatExpiresEarly(r)
    BY <1>2, HeartbeatIsRowStep DEF HeartbeatExpires, HeartbeatExpiresEarly, TimeFrame
  <1>3. CASE CreatedAtAges(r)
    BY <1>3, UnchangedIsRowStep DEF CreatedAtAges, TimeFrame
  <1> QED BY <1>1, <1>2, <1>3

LEMMA EveryStepIsRowStep == IInv /\ [Next]_vars => RowStep
  BY UnchangedIsRowStep, CreatorRowStep, HandlerRowStep, ContainerRowStep,
     CronRowStep, CancelRowStep, TimeRowStep
  DEF IInv, WellFormed, Next, vars

(***************************************************************************)
(* RowInv is inductive: one case per kind of change.                       *)
(***************************************************************************)

LEMMA RowInvInit == Init => RowInv
  <1> SUFFICES ASSUME Init, NEW r \in Runs PROVE RowOK(r)
    BY DEF RowInv
  <1>1. /\ row[r].status = "absent" /\ row[r].serviceId = None
        /\ row[r].leaseVersion = 0 /\ row[r].completionKey = NoKey
        /\ terminals[r] = <<>> /\ \A v \in Leases : claimant[r][v] = None
    BY DEF Init
  <1>2. \A v \in Leases : ~(v <= 0)
    BY BoundsAssumption DEF Leases
  <1> QED BY <1>1, <1>2 DEF RowOK, TerminalStatus, NoKey

LEMMA RowTypes ==
  ASSUME TypeOK, NEW r \in Runs
  PROVE  /\ row[r].status \in RunStatus
         /\ row[r].serviceId \in Invocations \cup {None}
         /\ row[r].leaseVersion \in 0..MaxLease
         /\ row[r].completionKey \in Key
         /\ claimant[r] \in [Leases -> Invocations \cup {None}]
  BY DEF TypeOK, Row

LEMMA ChangeKeepsRowOK ==
  ASSUME TypeOK, NEW r \in Runs, RowOK(r), Same(r) \/ Changes(r)
  PROVE  RowOK(r)'
  <1>1. /\ row[r].leaseVersion \in 0..MaxLease
        /\ claimant[r] \in [Leases -> Invocations \cup {None}]
    BY RowTypes
  <1>2. CASE Same(r)
    BY <1>2 DEF Same, SameOwner, SameRecord, RowOK
  <1>3. CASE Inserts(r)
    BY <1>3 DEF Inserts, SameOwner, SameRecord, RowOK, TerminalStatus
  <1>4. CASE Waits(r)
    BY <1>4 DEF Waits, SameOwner, SameRecord, RowOK, TerminalStatus
  <1>5. CASE Releases(r)
    BY <1>5 DEF Releases, RowOK, TerminalStatus, NoKey
  <1>6. CASE Claims(r)
    <2> DEFINE v == row'[r].leaseVersion
    <2>1. /\ v \in Leases /\ v = row[r].leaseVersion + 1
          /\ row'[r].serviceId \in Invocations
          /\ claimant'[r] = [claimant[r] EXCEPT ![v] = row'[r].serviceId]
      BY <1>6 DEF Claims
    <2>2. row'[r].serviceId = claimant'[r][v]
      BY <1>1, <2>1
    <2>3. \A w \in Leases : claimant'[r][w] # None <=> w <= v
      <3> SUFFICES ASSUME NEW w \in Leases
                   PROVE  claimant'[r][w] # None <=> w <= v
        OBVIOUS
      <3>1. w \in Nat /\ v \in Nat /\ row[r].leaseVersion \in Nat
        BY <1>1, <2>1, BoundsAssumption DEF Leases
      <3>2. claimant[r][w] # None <=> w <= row[r].leaseVersion
        BY DEF RowOK
      <3>3. CASE w = v
        BY <1>1, <2>1, <3>3, <3>1, NoneAssumption
      <3>4. CASE w # v
        <4>1. claimant'[r][w] = claimant[r][w]
          BY <1>1, <2>1, <3>4
        <4>2. w <= v <=> w <= row[r].leaseVersion
          BY <2>1, <3>1, <3>4
        <4> QED BY <3>2, <4>1, <4>2
      <3> QED BY <3>3, <3>4
    <2> QED BY <1>6, <2>1, <2>2, <2>3
            DEF Claims, SameRecord, RowOK, TerminalStatus
  <1>7. CASE Ends(r)
    <2>1. terminals[r] = <<>>
      BY <1>7 DEF Ends, RowOK, ActiveStatus, TerminalStatus
    <2>2. terminals'[r] = <<row'[r].completionKey>>
      BY <1>7, <2>1 DEF Ends
    <2>3. row'[r].status \notin {"absent", "pending", "queued"}
      BY <1>7 DEF Ends, TerminalStatus
    <2> QED BY <1>7, <2>2, <2>3 DEF Ends, SameOwner, RowOK
  <1> QED BY <1>2, <1>3, <1>4, <1>5, <1>6, <1>7 DEF Changes

LEMMA RowInvStep == TypeOK /\ RowInv /\ RowStep => RowInv'
  BY ChangeKeepsRowOK DEF RowInv, RowStep

(***************************************************************************)
(* The creation window.                                                    *)
(***************************************************************************)

LEMMA WindowInit == Init => CreationWindow
  BY DEF Init, CreationWindow, Untouched

LEMMA CreatorWindow ==
  ASSUME WellFormed, CreationWindow, CreatorNext
  PROVE  CreationWindow'
  <1> SUFFICES ASSUME NEW r \in Runs, creator'[r] \in {"none", "inserted"}
               PROVE  Untouched(r)'
    BY DEF CreationWindow
  <1>1. PICK q \in Runs :
          \/ CreatePendingRun(q) \/ MarkQueued(q) \/ SendRun(q)
          \/ SendRunThrows(q) \/ FailEnqueue(q) \/ CreatorCrash(q)
    BY DEF CreatorNext
  <1> USE DEF WellFormed, TypeOK
  <1>2. UNCHANGED <<aged, canceller, dlq, handler, cron>>
    BY <1>1 DEF CreatePendingRun, MarkQueued, SendRun, SendRunThrows,
                FailEnqueue, CreatorCrash, CreatorFrame
  <1>3. CASE q = r
    <2>1. CreatePendingRun(r)
      BY <1>1, <1>3 DEF MarkQueued, SendRun, SendRunThrows, FailEnqueue, CreatorCrash
    <2>2. creator[r] = "none" /\ creator'[r] = "inserted" /\ row'[r].status = "pending"
      BY <2>1 DEF CreatePendingRun, Row
    <2> QED BY <1>2, <2>1, <2>2 DEF CreatePendingRun, CreationWindow, Untouched
  <1>4. CASE q # r
    <2>1. creator'[r] = creator[r] /\ queue'[r] = queue[r]
      BY <1>1, <1>4 DEF CreatePendingRun, MarkQueued, SendRun, SendRunThrows,
                        FailEnqueue, CreatorCrash, Enqueue
    <2>2. row'[r] = row[r]
      BY <1>1, <1>4 DEF CreatePendingRun, MarkQueued, SendRun, SendRunThrows,
                        FailEnqueue, CreatorCrash, TransitionRunTerminal,
                        CommitTerminal
    <2> QED BY <1>2, <2>1, <2>2 DEF CreationWindow, Untouched
  <1> QED BY <1>3, <1>4

\* A step of an invocation on another run.
LEMMA HandlerStepWindow ==
  ASSUME WellFormed, NEW r \in Runs, NEW i \in Invocations, Working(i),
         handler[i].run # r,
         \/ HandlerStep(i) \/ DispatchFails(i) \/ HostRefuses(i)
         \/ HandlerThrows(i) \/ HandlerCrash(i) \/ DuplicateDelivery(i)
  PROVE  /\ row'[r] = row[r] /\ queue'[r] = queue[r] /\ dlq'[r] = dlq[r]
         /\ UNCHANGED <<aged, creator, cron, canceller>>
         /\ \A j \in Invocations \ {i} : handler'[j] = handler[j]
         /\ handler'[i].pc # "idle" => handler'[i].run # r
  <1> USE DEF WellFormed, TypeOK
  <1>1. CASE RecoverStale(i)
    BY <1>1 DEF RecoverStale, HandlerFrame, Goto, ToQueued, Handler
  <1>2. CASE ClaimRun(i)
    BY <1>2 DEF ClaimRun, HandlerFrame, Goto, Settle, Handler
  <1>3. CASE ReadBackLease(i)
    <2>1. CASE Settle(i)
      BY <1>3, <2>1 DEF ReadBackLease, HandlerFrame, Settle
    <2>2. CASE handler' = [handler EXCEPT ![i] = [@ EXCEPT !.pc = "access",
                             !.lease = row[handler[i].run].leaseVersion]]
      <3>1. handler[i] \in Handler
        OBVIOUS
      <3>2. handler'[i].run = handler[i].run
        BY <2>2, <3>1 DEF Handler
      <3> QED BY <1>3, <2>2, <3>2 DEF ReadBackLease, HandlerFrame
    <2> QED BY <1>3, <2>1, <2>2 DEF ReadBackLease
  <1>4. CASE AssertExecutionAccess(i)
    BY <1>4 DEF AssertExecutionAccess, HandlerFrame, Goto, Handler
  <1>5. CASE FreezeModel(i)
    BY <1>5 DEF FreezeModel, HandlerFrame, Goto, Settle, Redeliver, Handler
  <1>6. CASE HostChecksLease(i)
    BY <1>6 DEF HostChecksLease, HandlerFrame, Goto, Handler
  <1>7. CASE HostStartsContainer(i)
    BY <1>7 DEF HostStartsContainer, HandlerFrame, Settle
  <1>8. CASE FailClaimedRun(i)
    BY <1>8 DEF FailClaimedRun, HandlerFrame, Settle, TransitionRunTerminal, CommitTerminal
  <1>9. CASE ResetAndRetry(i)
    BY <1>9 DEF ResetAndRetry, HandlerFrame, Settle, ReleaseIfOwned, ToQueued, Redeliver
  <1>10. CASE ResetForCapacity(i)
    BY <1>10 DEF ResetForCapacity, HandlerFrame, Goto, ReleaseIfOwned, ToQueued, Handler
  <1>11. CASE RequeueForCapacity(i)
    BY <1>11 DEF RequeueForCapacity, HandlerFrame, Settle, Enqueue, Redeliver
  <1>12. CASE DispatchFails(i)
    BY <1>12 DEF DispatchFails, HandlerFrame, Goto, Handler
  <1>13. CASE HostRefuses(i)
    BY <1>13 DEF HostRefuses, HandlerFrame, Goto, Handler
  <1>14. CASE HandlerThrows(i)
    BY <1>14 DEF HandlerThrows, HandlerFrame, Goto, Handler
  <1>15. CASE HandlerCrash(i)
    BY <1>15 DEF HandlerCrash, HandlerFrame, Settle, Redeliver
  <1>16. CASE DuplicateDelivery(i)
    BY <1>16 DEF DuplicateDelivery, HandlerFrame, Enqueue
  <1> QED BY <1>1, <1>2, <1>3, <1>4, <1>5, <1>6, <1>7, <1>8, <1>9, <1>10, <1>11,
             <1>12, <1>13, <1>14, <1>15, <1>16 DEF HandlerStep

LEMMA HandlerWindow ==
  ASSUME WellFormed, CreationWindow, HandlerNext
  PROVE  CreationWindow'
  <1> SUFFICES ASSUME NEW r \in Runs, creator'[r] \in {"none", "inserted"}
               PROVE  Untouched(r)'
    BY DEF CreationWindow
  <1>1. UNCHANGED creator
    BY DEF HandlerNext, HandlerFrame, HandlerStep, ReceiveMessage,
       ConsumeDeadLetter, RecoverStale, ClaimRun, ReadBackLease,
       AssertExecutionAccess, FreezeModel, HostChecksLease, HostStartsContainer,
       FailClaimedRun, ResetAndRetry, ResetForCapacity, RequeueForCapacity,
       DispatchFails, HostRefuses, HandlerThrows, HandlerCrash, DuplicateDelivery
  <1>2. Untouched(r)
    BY <1>1 DEF CreationWindow
  <1> USE DEF WellFormed, TypeOK
  <1>3. ASSUME NEW q \in Runs, ConsumeDeadLetter(q)
        PROVE  Untouched(r)'
    <2>1. q # r
      BY <1>2, <1>3 DEF ConsumeDeadLetter, Untouched
    <2> QED BY <1>2, <1>3, <2>1 DEF ConsumeDeadLetter, HandlerFrame,
               TransitionRunTerminal, CommitTerminal, Untouched
  <1>4. ASSUME NEW i \in Invocations, NEW q \in Runs, NEW n \in Attempts,
               ReceiveMessage(i, q, n)
        PROVE  Untouched(r)'
    <2>1. q # r
      BY <1>2, <1>4 DEF ReceiveMessage, Untouched
    <2>2. \A j \in Invocations : handler'[j].pc # "idle" => handler'[j].run # r
      BY <1>2, <1>4, <2>1 DEF ReceiveMessage, Untouched
    <2> QED BY <1>2, <1>4, <2>1, <2>2 DEF ReceiveMessage, HandlerFrame, Untouched
  <1>5. ASSUME NEW i \in Invocations,
               \/ HandlerStep(i) \/ DispatchFails(i) \/ HostRefuses(i)
               \/ HandlerThrows(i) \/ HandlerCrash(i) \/ DuplicateDelivery(i)
        PROVE  Untouched(r)'
    <2>1. Working(i)
      BY <1>5 DEF HandlerStep, Working, RecoverStale, ClaimRun, ReadBackLease,
             AssertExecutionAccess, FreezeModel, HostChecksLease,
             HostStartsContainer, FailClaimedRun, ResetAndRetry,
             ResetForCapacity, RequeueForCapacity, DispatchFails, HostRefuses,
             HandlerThrows, HandlerCrash, DuplicateDelivery
    <2>2. handler[i].run # r
      BY <1>2, <2>1 DEF Untouched, Working
    <2>3. /\ row'[r] = row[r] /\ queue'[r] = queue[r] /\ dlq'[r] = dlq[r]
          /\ UNCHANGED <<aged, creator, cron, canceller>>
          /\ \A j \in Invocations \ {i} : handler'[j] = handler[j]
          /\ handler'[i].pc # "idle" => handler'[i].run # r
      BY <1>5, <2>1, <2>2, HandlerStepWindow
    <2> QED BY <1>2, <2>3 DEF Untouched
  <1> QED BY <1>3, <1>4, <1>5 DEF HandlerNext

LEMMA ContainerWindow ==
  ASSUME WellFormed, CreationWindow, ContainerNext
  PROVE  CreationWindow'
  <1> SUFFICES ASSUME NEW r \in Runs, creator'[r] \in {"none", "inserted"}
               PROVE  Untouched(r)'
    BY DEF CreationWindow
  <1>1. PICK q \in Runs, v \in Leases :
          ContainerStep(q, v) \/ Heartbeat(q, v) \/ ContainerDies(q, v)
    BY DEF ContainerNext
  <1>2. ContainerFrame
    BY <1>1 DEF ContainerStep, Heartbeat, ContainerDies, HeartbeatLeaseLost,
                FinishWork, CompleteRun, CompleteRunAgain
  <1>3. Untouched(r)
    BY <1>2 DEF ContainerFrame, CreationWindow
  <1>4. row'[r].status = row[r].status
    <2>1. CASE CompleteRun(q, v)
      <3>1. q # r
        BY <1>3, <2>1 DEF CompleteRun, ContainerHoldsLease, HoldsLease, Untouched
      <3> QED BY <2>1, <3>1 DEF CompleteRun, CommitTerminal, WellFormed, TypeOK
    <2>2. CASE ~CompleteRun(q, v)
      <3>1. row' = row \/ row' = [row EXCEPT ![q].heartbeat = "fresh"]
        BY <1>1, <2>2 DEF ContainerStep, Heartbeat, ContainerDies, FinishWork,
                          HeartbeatLeaseLost, CompleteRunAgain
      <3>2. row \in [Runs -> Row]
        BY DEF WellFormed, TypeOK
      <3>3. CASE row' = [row EXCEPT ![q].heartbeat = "fresh"]
        BY <3>2, <3>3 DEF Row
      <3> QED BY <3>1, <3>3
    <2> QED BY <2>1, <2>2
  <1> QED BY <1>2, <1>3, <1>4 DEF ContainerFrame, Untouched

LEMMA CronWindow ==
  ASSUME WellFormed, CreationWindow, CronNext
  PROVE  CreationWindow'
  <1> SUFFICES ASSUME NEW r \in Runs, creator'[r] \in {"none", "inserted"}
               PROVE  Untouched(r)'
    BY DEF CreationWindow
  <1>1. PICK c \in Crons : CronStep(c) \/ CronSendThrows(c) \/ CronCrash(c)
    BY DEF CronNext
  <1>2. CronFrame
    BY <1>1 DEF CronStep, CronResetsStale, CronMarksUnclaimed, CronSends,
                CronSendThrows, CronCrash
  <1>3. Untouched(r)
    BY <1>2 DEF CronFrame, CreationWindow
  <1> USE DEF WellFormed, TypeOK
  <1>4. ASSUME NEW q \in Runs, CronResetsStale(c, q) \/ CronMarksUnclaimed(c, q)
        PROVE  Untouched(r)'
    <2>1. q # r
      BY <1>3, <1>4 DEF CronResetsStale, CronMarksUnclaimed, IsStaleRunning,
                        IsUnclaimed, Untouched
    <2>2. row'[r] = row[r] /\ UNCHANGED queue
      BY <1>4, <2>1 DEF CronResetsStale, CronMarksUnclaimed, ToQueued
    <2>3. \A d \in Crons : cron'[d].pc # "idle" => cron'[d].run # r
      <3>1. PICK pc : cron' = [cron EXCEPT ![c] = [pc |-> pc, run |-> q]]
        BY <1>4 DEF CronResetsStale, CronMarksUnclaimed, CronTo
      <3> QED BY <1>3, <2>1, <3>1 DEF Untouched
    <2> QED BY <1>2, <1>3, <2>2, <2>3 DEF CronFrame, Untouched
  <1>5. CASE CronSends(c) \/ CronSendThrows(c) \/ CronCrash(c)
    <2>1. cron[c].run # r
      BY <1>3, <1>5 DEF CronSends, CronSendThrows, CronCrash, Untouched
    <2>2. row'[r] = row[r] /\ queue'[r] = queue[r]
      BY <1>5, <2>1 DEF CronSends, CronSendThrows, CronCrash, Enqueue
    <2>3. \A d \in Crons : cron'[d].pc # "idle" => cron'[d].run # r
      <3>1. cron' = [cron EXCEPT ![c] = [pc |-> "idle", run |-> None]]
        BY <1>5 DEF CronSends, CronSendThrows, CronCrash, CronTo
      <3> QED BY <1>3, <3>1 DEF Untouched
    <2> QED BY <1>2, <1>3, <2>2, <2>3 DEF CronFrame, Untouched
  <1> QED BY <1>1, <1>4, <1>5 DEF CronStep

LEMMA CancelWindow ==
  ASSUME PromptCreation, WellFormed, CreationWindow, CancelNext
  PROVE  CreationWindow'
  <1> SUFFICES ASSUME NEW r \in Runs, creator'[r] \in {"none", "inserted"}
               PROVE  Untouched(r)'
    BY DEF CreationWindow
  <1>1. PICK q \in Runs : RequestCancel(q) \/ CancelAttempt(q) \/ CancelRereads(q)
    BY DEF CancelNext
  <1>2. CancelFrame
    BY <1>1 DEF RequestCancel, CancelAttempt, CancelRereads
  <1>3. Untouched(r)
    BY <1>2 DEF CancelFrame, CreationWindow
  <1>4. q # r
    <2> SUFFICES ASSUME q = r PROVE FALSE
      OBVIOUS
    <2>1. RequestCancel(r)
      BY <1>1, <1>3 DEF CancelAttempt, CancelRereads, Untouched
    <2> QED BY <1>2, <1>3, <2>1 DEF RequestCancel, CancelFrame, Untouched
  <1>5. row'[r] = row[r] /\ canceller'[r] = canceller[r]
    BY <1>1, <1>4 DEF RequestCancel, CancelAttempt, CancelRereads,
                      CommitTerminal, WellFormed, TypeOK
  <1> QED BY <1>2, <1>3, <1>5 DEF CancelFrame, Untouched

LEMMA TimeWindow ==
  ASSUME PromptCreation, WellFormed, CreationWindow, TimeNext
  PROVE  CreationWindow'
  <1> SUFFICES ASSUME NEW r \in Runs, creator'[r] \in {"none", "inserted"}
               PROVE  Untouched(r)'
    BY DEF CreationWindow
  <1>1. PICK q \in Runs :
          HeartbeatExpires(q) \/ HeartbeatExpiresEarly(q) \/ CreatedAtAges(q)
    BY DEF TimeNext
  <1>2. TimeFrame
    BY <1>1 DEF HeartbeatExpires, HeartbeatExpiresEarly, CreatedAtAges
  <1>3. Untouched(r)
    BY <1>2 DEF TimeFrame, CreationWindow
  <1>4. row'[r].status = row[r].status
    <2>1. row' = row \/ row' = [row EXCEPT ![q].heartbeat = "stale"]
      BY <1>1 DEF HeartbeatExpires, HeartbeatExpiresEarly, CreatedAtAges
    <2>2. row \in [Runs -> Row]
      BY DEF WellFormed, TypeOK
    <2>3. CASE row' = [row EXCEPT ![q].heartbeat = "stale"]
      BY <2>2, <2>3 DEF Row
    <2> QED BY <2>1, <2>3
  <1>5. aged'[r] = aged[r]
    <2>1. CASE CreatedAtAges(q)
      <3>1. q # r
        BY <1>2, <1>3, <2>1 DEF CreatedAtAges, TimeFrame, Untouched
      <3> QED BY <2>1, <3>1 DEF CreatedAtAges, WellFormed, TypeOK
    <2>2. CASE ~CreatedAtAges(q)
      BY <1>1, <2>2 DEF HeartbeatExpires, HeartbeatExpiresEarly
    <2> QED BY <2>1, <2>2
  <1> QED BY <1>2, <1>3, <1>4, <1>5 DEF TimeFrame, Untouched

LEMMA WindowStep ==
  ASSUME PromptCreation, WellFormed, CreationWindow, [Next]_vars
  PROVE  CreationWindow'
  <1>1. CASE UNCHANGED vars
    BY <1>1 DEF vars, CreationWindow, Untouched
  <1> QED BY <1>1, CreatorWindow, HandlerWindow, ContainerWindow, CronWindow,
             CancelWindow, TimeWindow DEF Next

(***************************************************************************)
(* The theorems.  All assume PromptCreation: that no cancel request and no  *)
(* sweep meets a run between createPendingRun's INSERT and the unguarded    *)
(* UPDATE that marks it queued (without it TerminalIsFinal is false).       *)
(***************************************************************************)

LEMMA InvariantStep ==
  ASSUME PromptCreation
  PROVE  IInv /\ [Next]_vars => IInv'
  <1> SUFFICES ASSUME IInv, [Next]_vars PROVE IInv'
    OBVIOUS
  <1>1. WellFormed'
    BY WellFormedStep DEF IInv
  <1>2. CreationWindow'
    BY WindowStep DEF IInv
  <1>3. RowInv'
    BY EveryStepIsRowStep, RowInvStep DEF IInv, WellFormed
  <1> QED BY <1>1, <1>2, <1>3 DEF IInv

LEMMA Invariance ==
  ASSUME PromptCreation
  PROVE  Spec => []IInv
  <1>1. Init => IInv
    BY WellFormedInit, WindowInit, RowInvInit DEF IInv
  <1>2. IInv /\ [Next]_vars => IInv'
    BY InvariantStep
  <1> QED BY <1>1, <1>2, PTL DEF Spec

\* However creators, invocations, dead letters, agents, sweeps and cancels race,
\* a finished run has exactly one terminal event, the one its row carries, and
\* an unfinished run has none.
THEOREM OneOutcome ==
  ASSUME PromptCreation
  PROVE  Spec => []OneTerminalRecord
  <1>1. IInv => OneTerminalRecord
    BY DEF IInv, RowInv, RowOK, OneTerminalRecord
  <1> QED BY <1>1, Invariance, PTL

\* A result written by complete-run comes from the newest lease ever granted.
THEOREM NewestLeaseCompletes ==
  ASSUME PromptCreation
  PROVE  Spec => []CompletionByNewestLease
  <1>1. ASSUME IInv PROVE CompletionByNewestLease
    <2> SUFFICES ASSUME NEW r \in Runs, row[r].completionKey.lease > 0,
                        NEW v \in Leases, claimant[r][v] # None
                 PROVE  v <= row[r].completionKey.lease
      BY DEF CompletionByNewestLease
    <2>1. RowOK(r) /\ TypeOK
      BY <1>1 DEF IInv, RowInv, WellFormed
    <2>2. row[r].completionKey.lease \in 0..MaxLease
      BY <2>1, RowTypes DEF Key
    <2>3. row[r].completionKey.lease = row[r].leaseVersion
      BY <2>1, <2>2, BoundsAssumption DEF RowOK
    <2> QED BY <2>1, <2>3 DEF RowOK
  <1> QED BY <1>1, Invariance, PTL

\* Pending and queued rows never carry an owner, so a claim can always match
\* them: no reset, revert, crash or sweep strands a run.
THEOREM WaitingUnowned ==
  ASSUME PromptCreation
  PROVE  Spec => []WaitingRunsAreUnowned
  <1>1. IInv => WaitingRunsAreUnowned
    BY DEF IInv, RowInv, RowOK, WaitingRunsAreUnowned
  <1> QED BY <1>1, Invariance, PTL

\* No step changes what a finished row says.
RowIsFinal(r) ==
    row[r].status \in TerminalStatus =>
        /\ row'[r].status = row[r].status
        /\ row'[r].completionKey = row[r].completionKey

LEMMA FinishedRowStays ==
  ASSUME RowStep, NEW r \in Runs
  PROVE  RowIsFinal(r)
  <1> SUFFICES ASSUME row[r].status \in TerminalStatus
               PROVE  /\ row'[r].status = row[r].status
                      /\ row'[r].completionKey = row[r].completionKey
    BY DEF RowIsFinal
  <1>1. ~Changes(r)
    BY DEF Changes, Inserts, Waits, Releases, Claims, Ends, TerminalStatus,
           ActiveStatus
  <1>2. Same(r)
    BY <1>1 DEF RowStep
  <1> QED BY <1>2 DEF Same, SameRecord

\* No step changes the status or the completion key of a finished run.
THEOREM TerminalFinality ==
  ASSUME PromptCreation
  PROVE  Spec => TerminalIsFinal
  <1>1. IInv /\ [Next]_vars => [\A r \in Runs : RowIsFinal(r)]_vars
    BY EveryStepIsRowStep, FinishedRowStays
  <1> QED BY <1>1, Invariance, PTL DEF Spec, TerminalIsFinal, RowIsFinal

LEMMA LedgerInit == Init => Ledger!Init
  BY DEF Init, Ledger!Init, PhaseOf

\* What each kind of change is to the ledger.
LEMMA LedgerChange ==
  ASSUME TypeOK, RowInv, NEW r \in Runs, Changes(r)
  PROVE  \/ PhaseOf(r)' = PhaseOf(r) /\ row'[r].leaseVersion = row[r].leaseVersion
         \/ /\ PhaseOf(r) = "absent" /\ PhaseOf(r)' = "waiting"
            /\ row'[r].leaseVersion = row[r].leaseVersion
         \/ /\ PhaseOf(r) = "waiting" /\ PhaseOf(r)' = "owned"
            /\ row'[r].leaseVersion = row[r].leaseVersion + 1
         \/ /\ PhaseOf(r) = "owned" /\ PhaseOf(r)' = "waiting"
            /\ row'[r].leaseVersion = row[r].leaseVersion
         \/ /\ PhaseOf(r)' \in Ledger!Outcome
            /\ \/ PhaseOf(r) = "owned"
               \/ PhaseOf(r) = "waiting" /\ PhaseOf(r)' # "completed"
            /\ row'[r].leaseVersion = row[r].leaseVersion
  <1>1. RowOK(r)
    BY DEF RowInv
  <1>2. CASE Inserts(r)
    BY <1>2 DEF Inserts, SameOwner, PhaseOf
  <1>3. CASE Waits(r)
    BY <1>1, <1>3 DEF Waits, SameOwner, PhaseOf, RowOK
  <1>4. CASE Releases(r)
    BY <1>4 DEF Releases, PhaseOf
  <1>5. CASE Claims(r)
    BY <1>5, NoneAssumption DEF Claims, PhaseOf
  <1>6. CASE Ends(r)
    BY <1>6 DEF Ends, SameOwner, PhaseOf, ActiveStatus, TerminalStatus, Ledger!Outcome
  <1> QED BY <1>2, <1>3, <1>4, <1>5, <1>6 DEF Changes

LEMMA LedgerStep ==
  ASSUME TypeOK, RowInv, RowStep
  PROVE  Ledger!Next \/ UNCHANGED Ledger!ledger
  <1> DEFINE phase == [r \in Runs |-> PhaseOf(r)]
             epoch == [r \in Runs |-> row[r].leaseVersion]
  <1>1. \A q \in Runs : Same(q) => PhaseOf(q)' = PhaseOf(q)
                                   /\ row'[q].leaseVersion = row[q].leaseVersion
    BY DEF Same, SameOwner, PhaseOf
  <1>2. CASE \A q \in Runs : Same(q)
    BY <1>1, <1>2 DEF Ledger!ledger
  <1>3. ASSUME NEW r \in Runs, Changes(r), \A q \in Runs \ {r} : Same(q)
        PROVE  Ledger!Next \/ UNCHANGED Ledger!ledger
    <2>1. \A q \in Runs \ {r} : PhaseOf(q)' = PhaseOf(q)
                                /\ row'[q].leaseVersion = row[q].leaseVersion
      BY <1>1, <1>3
    <2>2. phase' = [phase EXCEPT ![r] = PhaseOf(r)']
      BY <2>1
    <2>3. epoch' = [epoch EXCEPT ![r] = row'[r].leaseVersion]
      BY <2>1
    <2>4. phase[r] = PhaseOf(r) /\ epoch[r] = row[r].leaseVersion
      OBVIOUS
    <2>5. row'[r].leaseVersion = row[r].leaseVersion => epoch' = epoch
      BY <2>1
    <2>6. PhaseOf(r)' = PhaseOf(r) => phase' = phase
      BY <2>1
    <2>7. CASE PhaseOf(r)' = PhaseOf(r) /\ row'[r].leaseVersion = row[r].leaseVersion
      BY <2>5, <2>6, <2>7 DEF Ledger!ledger
    <2>8. CASE /\ PhaseOf(r) = "absent" /\ PhaseOf(r)' = "waiting"
               /\ row'[r].leaseVersion = row[r].leaseVersion
      <3>1. Ledger!Create(r)
        BY <2>2, <2>4, <2>5, <2>8 DEF Ledger!Create
      <3> QED BY <3>1 DEF Ledger!Next
    <2>9. CASE /\ PhaseOf(r) = "waiting" /\ PhaseOf(r)' = "owned"
               /\ row'[r].leaseVersion = row[r].leaseVersion + 1
      <3>1. Ledger!Claim(r)
        BY <2>2, <2>3, <2>4, <2>9 DEF Ledger!Claim
      <3> QED BY <3>1 DEF Ledger!Next
    <2>10. CASE /\ PhaseOf(r) = "owned" /\ PhaseOf(r)' = "waiting"
                /\ row'[r].leaseVersion = row[r].leaseVersion
      <3>1. Ledger!Release(r)
        BY <2>2, <2>4, <2>5, <2>10 DEF Ledger!Release
      <3> QED BY <3>1 DEF Ledger!Next
    <2>11. CASE /\ PhaseOf(r)' \in Ledger!Outcome
                /\ \/ PhaseOf(r) = "owned"
                   \/ PhaseOf(r) = "waiting" /\ PhaseOf(r)' # "completed"
                /\ row'[r].leaseVersion = row[r].leaseVersion
      <3>1. Ledger!Finish(r, PhaseOf(r)')
        BY <2>2, <2>4, <2>5, <2>11 DEF Ledger!Finish
      <3> QED BY <2>11, <3>1 DEF Ledger!Next
    <2> QED BY <1>3, <2>7, <2>8, <2>9, <2>10, <2>11, LedgerChange
  <1> QED BY <1>2, <1>3 DEF RowStep

\* RunLifecycle implements RunLedger: through PhaseOf every statement of every
\* actor is a create, a claim under a new epoch, a release, an outcome (completed
\* only by an owner) or nothing at all.
THEOREM RefinesLedger ==
  ASSUME PromptCreation
  PROVE  Spec => ImplementsLedger
  <1>1. IInv /\ [Next]_vars => [Ledger!Next]_(Ledger!ledger)
    BY EveryStepIsRowStep, LedgerStep DEF IInv, WellFormed
  <1> QED BY <1>1, LedgerInit, Invariance, PTL
          DEF Spec, ImplementsLedger, Ledger!Spec
(***************************************************************************)
(* What actors were told.  A confirmation or a successful cancel is given   *)
(* with the terminal row already written, and a terminal row is final.      *)
(***************************************************************************)

\* A step tells an agent or a canceller only what the row then says.
NewAnswersAreTrue ==
    \A r \in Runs :
        /\ \A v \in Leases : container'[r][v].pc = "confirmed" =>
             \/ container'[r][v] = container[r][v]
             \/ row'[r].completionKey = [lease |-> v, status |-> container'[r][v].outcome]
        /\ canceller'[r].pc = "ok" =>
             canceller[r].pc = "ok" \/ row'[r].status = "cancelled"

LEMMA StopEffect ==
  ASSUME TypeOK, NEW r \in Runs, NEW v \in Leases, NEW pc, Stop(r, v, pc)
  PROVE  /\ container'[r][v].pc = pc /\ container'[r][v].outcome = container[r][v].outcome
         /\ \A q \in Runs, w \in Leases :
              (q # r \/ w # v) => container'[q][w] = container[q][w]
  <1>1. container \in [Runs -> [Leases -> Container]]
    BY DEF TypeOK
  <1> QED BY <1>1 DEF Stop, Container

LEMMA ContainerAnswers ==
  ASSUME TypeOK, ContainerNext
  PROVE  NewAnswersAreTrue
  <1>1. PICK r \in Runs, v \in Leases :
          ContainerStep(r, v) \/ Heartbeat(r, v) \/ ContainerDies(r, v)
    BY DEF ContainerNext
  <1>2. UNCHANGED canceller
    BY <1>1 DEF ContainerStep, HeartbeatLeaseLost, FinishWork, CompleteRun,
       CompleteRunAgain, Heartbeat, ContainerDies, ContainerFrame
  <1>3. ASSUME NEW pc, Stop(r, v, pc),
               pc = "confirmed" => row'[r].completionKey = CompletionKey(r, v)
        PROVE  NewAnswersAreTrue
    BY <1>2, <1>3, StopEffect DEF NewAnswersAreTrue, CompletionKey
  <1>4. CASE UNCHANGED container
    BY <1>2, <1>4 DEF NewAnswersAreTrue
  <1>5. CASE FinishWork(r, v)
    <2>1. PICK st : container' = [container EXCEPT ![r][v] =
                                    [pc |-> "finishing", outcome |-> st]]
      BY <1>5 DEF FinishWork
    <2>2. \A q \in Runs, w \in Leases :
            \/ container'[q][w] = container[q][w]
            \/ container'[q][w].pc = "finishing"
      BY <2>1 DEF TypeOK
    <2> QED BY <1>2, <2>2 DEF NewAnswersAreTrue
  <1>6. CASE CompleteRun(r, v)
    <2>1. row'[r].completionKey = CompletionKey(r, v)
      BY <1>6 DEF CompleteRun, CommitTerminal, TypeOK, Row
    <2> QED BY <1>3, <1>4, <1>6, <2>1 DEF CompleteRun
  <1>7. CASE CompleteRunAgain(r, v)
    BY <1>3, <1>7 DEF CompleteRunAgain, IsReplay
  <1>8. CASE HeartbeatLeaseLost(r, v) \/ ContainerDies(r, v)
    BY <1>3, <1>8 DEF HeartbeatLeaseLost, ContainerDies
  <1> QED BY <1>1, <1>4, <1>5, <1>6, <1>7, <1>8 DEF ContainerStep, Heartbeat

LEMMA CancelAnswers ==
  ASSUME TypeOK, CancelNext
  PROVE  NewAnswersAreTrue
  <1>1. PICK r \in Runs : RequestCancel(r) \/ CancelAttempt(r) \/ CancelRereads(r)
    BY DEF CancelNext
  <1>2. UNCHANGED container
    BY <1>1 DEF RequestCancel, CancelAttempt, CancelRereads, CancelFrame
  <1>3. canceller \in [Runs -> Canceller] /\ row \in [Runs -> Row]
    BY DEF TypeOK
  <1>4. ASSUME NEW q \in Runs, canceller'[q].pc = "ok"
        PROVE  canceller[q].pc = "ok" \/ row'[q].status = "cancelled"
    <2>1. CASE CancelAttempt(r)
      <3>1. PICK pc \in {"refused", "ok", "reread"} :
              /\ canceller' = [canceller EXCEPT ![r].pc = pc]
              /\ pc = "ok" => CommitTerminal(r, [lease |-> 0, status |-> "cancelled"])
        BY <2>1 DEF CancelAttempt
      <3>2. CASE q = r
        <4>1. pc = "ok"
          BY <1>3, <1>4, <3>1, <3>2 DEF Canceller
        <4> QED BY <1>3, <3>1, <3>2, <4>1 DEF CommitTerminal, Row
      <3>3. CASE q # r
        BY <1>3, <1>4, <3>1, <3>3
      <3> QED BY <3>2, <3>3
    <2>2. CASE RequestCancel(r)
      <3>1. canceller' = [canceller EXCEPT ![r] =
                            [@ EXCEPT !.pc = "cas", !.seen = row[r].status]]
        BY <2>2 DEF RequestCancel
      <3>2. canceller'[q] = canceller[q] \/ canceller'[q].pc = "cas"
        BY <1>3, <3>1 DEF Canceller
      <3> QED BY <1>4, <3>2
    <2>3. CASE CancelRereads(r)
      <3> DEFINE new == [pc |-> "cas", seen |-> row[r].status,
                         tries |-> canceller[r].tries + 1]
      <3>1. canceller' = [canceller EXCEPT ![r] = new] /\ new.pc = "cas"
        BY <2>3 DEF CancelRereads
      <3> HIDE DEF new
      <3>2. canceller'[q] = canceller[q] \/ canceller'[q].pc = "cas"
        BY <1>3, <3>1
      <3> QED BY <1>4, <3>2
    <2> QED BY <1>1, <2>1, <2>2, <2>3
  <1> QED BY <1>2, <1>4 DEF NewAnswersAreTrue

LEMMA HandlerAnswers ==
  ASSUME TypeOK, HandlerNext
  PROVE  NewAnswersAreTrue
  <1>1. UNCHANGED canceller
    BY DEF HandlerNext, HandlerStep, RecoverStale, ClaimRun, ReadBackLease,
       AssertExecutionAccess, FreezeModel, HostChecksLease, HostStartsContainer,
       FailClaimedRun, ResetAndRetry, ResetForCapacity, RequeueForCapacity,
       ReceiveMessage, DispatchFails, HostRefuses, HandlerThrows, HandlerCrash,
       DuplicateDelivery, ConsumeDeadLetter, HandlerFrame
  <1>2. CASE UNCHANGED container
    BY <1>1, <1>2 DEF NewAnswersAreTrue
  <1>3. ASSUME NEW r, NEW w, StartContainer(r, w) PROVE NewAnswersAreTrue
    <2>1. \A q \in Runs, v \in Leases :
            container'[q][v] = container[q][v] \/ container'[q][v].pc = "live"
      BY <1>3 DEF StartContainer, TypeOK
    <2> QED BY <1>1, <2>1 DEF NewAnswersAreTrue
  <1> QED BY <1>2, <1>3
          DEF HandlerNext, HandlerStep, RecoverStale, ClaimRun, ReadBackLease,
       AssertExecutionAccess, FreezeModel, HostChecksLease, HostStartsContainer,
       FailClaimedRun, ResetAndRetry, ResetForCapacity, RequeueForCapacity,
       ReceiveMessage, DispatchFails, HostRefuses, HandlerThrows, HandlerCrash,
       DuplicateDelivery, ConsumeDeadLetter

LEMMA OtherAnswers ==
  ASSUME CreatorNext \/ CronNext \/ TimeNext
  PROVE  UNCHANGED <<canceller, container, claimant>>
  <1>1. CASE CreatorNext
    BY <1>1 DEF CreatorNext, CreatePendingRun, MarkQueued, SendRun, SendRunThrows,
       FailEnqueue, CreatorCrash, CreatorFrame
  <1>2. CASE CronNext
    BY <1>2 DEF CronNext, CronStep, CronSends, CronResetsStale, CronMarksUnclaimed,
       CronSendThrows, CronCrash, CronFrame
  <1>3. CASE TimeNext
    BY <1>3 DEF TimeNext, HeartbeatExpires, HeartbeatExpiresEarly, CreatedAtAges,
       TimeFrame
  <1> QED BY <1>1, <1>2, <1>3

LEMMA AnswersStep ==
  ASSUME IInv, AnswersAreTrue, Next
  PROVE  AnswersAreTrue'
  <1>1. TypeOK /\ RowStep
    BY EveryStepIsRowStep DEF IInv, WellFormed
  <1>2. NewAnswersAreTrue
    <2>1. CASE CreatorNext \/ CronNext \/ TimeNext
      BY <2>1, OtherAnswers DEF NewAnswersAreTrue
    <2> QED BY <1>1, <2>1, ContainerAnswers, CancelAnswers, HandlerAnswers DEF Next
  <1>3. ASSUME NEW r \in Runs, NEW v \in Leases, container'[r][v].pc = "confirmed"
        PROVE  row'[r].completionKey = CompletionKey(r, v)'
    <2>1. CASE container'[r][v] = container[r][v]
      <3>1. row[r].completionKey = CompletionKey(r, v) /\ RowOK(r)
        BY <1>3, <2>1 DEF AnswersAreTrue, IInv, RowInv
      <3>2. row[r].completionKey.lease # 0
        BY <3>1, BoundsAssumption DEF CompletionKey, Leases
      <3>3. row[r].status \in TerminalStatus
        BY <3>1, <3>2 DEF RowOK
      <3> QED BY <1>1, <2>1, <3>1, <3>3, FinishedRowStays DEF RowIsFinal, CompletionKey
    <2> QED BY <1>2, <1>3, <2>1 DEF NewAnswersAreTrue, CompletionKey
  <1>4. ASSUME NEW r \in Runs, canceller'[r].pc = "ok"
        PROVE  row'[r].status = "cancelled"
    BY <1>1, <1>2, <1>4, FinishedRowStays
    DEF NewAnswersAreTrue, AnswersAreTrue, RowIsFinal, TerminalStatus
  <1> QED BY <1>3, <1>4 DEF AnswersAreTrue

\* What an actor was told stays true: the agent whose complete-run was confirmed,
\* by the first answer or by a replay after a lost one, is the one whose outcome
\* the row carries for ever, and a cancel answered with success is a run that
\* stays cancelled.
THEOREM AnswersStayTrue ==
  ASSUME PromptCreation
  PROVE  Spec => []AnswersAreTrue
  <1>1. ASSUME Init PROVE AnswersAreTrue
    <2>1. \A r \in Runs : canceller[r].pc = "none"
      BY <1>1 DEF Init
    <2>2. \A r \in Runs, v \in Leases : container[r][v].pc = "none"
      BY <1>1 DEF Init
    <2> QED BY <2>1, <2>2 DEF AnswersAreTrue
  <1>2. IInv /\ AnswersAreTrue /\ [Next]_vars => AnswersAreTrue'
    <2>1. AnswersAreTrue /\ UNCHANGED vars => AnswersAreTrue'
      BY DEF vars, AnswersAreTrue, CompletionKey
    <2> QED BY <2>1, AnswersStep
  <1> QED BY <1>1, <1>2, Invariance, PTL DEF Spec

(***************************************************************************)
(* Leases of live agents.  The resets of the queue handler are fenced by    *)
(* serviceId alone; they are safe because an invocation that still works    *)
(* has no agent at work, except one whose start was reported as failed.     *)
(***************************************************************************)

AtWork(r, v) == container[r][v].pc \in {"live", "finishing"}

OwnAgents(i) ==
    handler[i].pc # "idle" =>
        \A r \in Runs, v \in Leases :
            claimant[r][v] = i /\ AtWork(r, v) =>
                /\ handler[i].pc = "reset"
                /\ handler[i].run = r /\ handler[i].lease = v

LeaseIsOwn(i) ==
    handler[i].lease \in Leases =>
        /\ handler[i].run \in Runs
        /\ claimant[handler[i].run][handler[i].lease] = i

StartedAfterClaim ==
    \A r \in Runs, v \in Leases : container[r][v].pc # "none" => claimant[r][v] # None

AgentInv ==
    StartedAfterClaim /\ \A i \in Invocations : OwnAgents(i) /\ LeaseIsOwn(i)

\* No invocation moves, no lease is claimed and no agent is started.
Quiet ==
    /\ UNCHANGED <<handler, claimant>>
    /\ \A r \in Runs, v \in Leases :
        /\ container'[r][v].pc # "none" => container[r][v].pc # "none"
        /\ container'[r][v].pc \in {"live", "finishing"} => AtWork(r, v)

LEMMA QuietKeepsAgents ==
  ASSUME AgentInv, Quiet
  PROVE  AgentInv'
  <1>1. StartedAfterClaim'
    BY DEF AgentInv, StartedAfterClaim, Quiet
  <1>2. \A i \in Invocations : OwnAgents(i)' /\ LeaseIsOwn(i)'
    BY DEF AgentInv, OwnAgents, LeaseIsOwn, Quiet, AtWork
  <1> QED BY <1>1, <1>2 DEF AgentInv

OnlyMoves(i) == \A j \in Invocations \ {i} : handler'[j] = handler[j]

\* Invocation i ends, or goes on with the run and the lease it has.
Proceeds(i) ==
    /\ UNCHANGED <<claimant, container>>
    /\ OnlyMoves(i)
    /\ \/ handler'[i].pc = "idle" /\ handler'[i].lease = 0
       \/ /\ handler[i].pc \notin {"idle", "reset"}
          /\ handler'[i].run = handler[i].run
          /\ handler'[i].lease = handler[i].lease

LEMMA ProceedingKeepsAgents ==
  ASSUME AgentInv, NEW i \in Invocations, Proceeds(i)
  PROVE  AgentInv'
  <1>1. StartedAfterClaim'
    BY DEF AgentInv, StartedAfterClaim, Proceeds
  <1>2. ASSUME NEW j \in Invocations PROVE OwnAgents(j)' /\ LeaseIsOwn(j)'
    <2>1. OwnAgents(j) /\ LeaseIsOwn(j)
      BY DEF AgentInv
    <2>2. CASE j # i
      BY <2>1, <2>2 DEF Proceeds, OnlyMoves, OwnAgents, LeaseIsOwn, AtWork
    <2>3. CASE j = i /\ handler'[i].pc = "idle" /\ handler'[i].lease = 0
      BY <2>3, BoundsAssumption DEF OwnAgents, LeaseIsOwn, Leases
    <2>4. CASE /\ j = i /\ handler[i].pc \notin {"idle", "reset"}
               /\ handler'[i].run = handler[i].run
               /\ handler'[i].lease = handler[i].lease
      BY <2>1, <2>4 DEF Proceeds, OwnAgents, LeaseIsOwn, AtWork
    <2> QED BY <2>2, <2>3, <2>4 DEF Proceeds
  <1> QED BY <1>1, <1>2 DEF AgentInv

LEMMA SettleEffect ==
  ASSUME TypeOK, NEW i \in Invocations, Settle(i)
  PROVE  OnlyMoves(i) /\ handler'[i].pc = "idle" /\ handler'[i].lease = 0
  BY DEF TypeOK, Settle, OnlyMoves

LEMMA GotoEffect ==
  ASSUME TypeOK, NEW i \in Invocations, NEW pc, Goto(i, pc)
  PROVE  /\ OnlyMoves(i) /\ handler'[i].pc = pc
         /\ handler'[i].run = handler[i].run /\ handler'[i].lease = handler[i].lease
  BY DEF TypeOK, Goto, OnlyMoves, Handler

\* A new invocation: its serviceId is carried by no agent at work.
LEMMA ReceiveKeepsAgents ==
  ASSUME IInv, AgentInv, NEW i \in Invocations, NEW r \in Runs, NEW n \in Attempts,
         ReceiveMessage(i, r, n)
  PROVE  AgentInv'
  <1>1. /\ UNCHANGED <<claimant, container>> /\ OnlyMoves(i)
        /\ handler'[i].lease = 0 /\ FreshServiceId(i)
    BY DEF ReceiveMessage, OnlyMoves, IInv, WellFormed, TypeOK
  <1>2. StartedAfterClaim'
    BY <1>1 DEF AgentInv, StartedAfterClaim
  <1>3. ASSUME NEW j \in Invocations PROVE OwnAgents(j)' /\ LeaseIsOwn(j)'
    <2>1. CASE j = i
      BY <1>1, <2>1, BoundsAssumption
      DEF FreshServiceId, OwnAgents, LeaseIsOwn, AtWork, Leases
    <2>2. CASE j # i
      BY <1>1, <2>2 DEF AgentInv, OnlyMoves, OwnAgents, LeaseIsOwn, AtWork
    <2> QED BY <2>1, <2>2
  <1> QED BY <1>2, <1>3 DEF AgentInv

\* The claim: no agent was ever started for the new lease.
LEMMA ClaimKeepsAgents ==
  ASSUME IInv, AgentInv, NEW i \in Invocations, ClaimRun(i), Claimable(handler[i].run)
  PROVE  AgentInv'
  <1> DEFINE r == handler[i].run
             v == row[r].leaseVersion + 1
  <1>1. TypeOK /\ r \in Runs /\ handler[i].pc = "claim"
    BY WorkingHandlerType DEF IInv, WellFormed, ClaimRun, Working
  <1>2. row[r].leaseVersion \in 0..MaxLease /\ v <= MaxLease /\ RowOK(r)
    BY <1>1 DEF ClaimRun, TypeOK, Row, IInv, RowInv
  <1>3. v \in Leases /\ claimant[r][v] = None
    BY <1>2, BoundsAssumption DEF Leases, RowOK
  <1>4. container[r][v].pc = "none"
    BY <1>1, <1>3 DEF AgentInv, StartedAfterClaim
  <1>5. claimant' = [claimant EXCEPT ![r][v] = i] /\ UNCHANGED container
    BY DEF ClaimRun
  <1>6. /\ OnlyMoves(i) /\ handler'[i].run = handler[i].run
        /\ handler'[i].lease = handler[i].lease
    BY <1>1, GotoEffect DEF ClaimRun
  <1> HIDE DEF v
  <1>7. claimant'[r][v] = i /\ \A q \in Runs, w \in Leases :
          (q # r \/ w # v) => claimant'[q][w] = claimant[q][w]
    BY <1>1, <1>3, <1>5 DEF TypeOK
  <1>8. StartedAfterClaim'
    BY <1>5, <1>7, NoneAssumption DEF AgentInv, StartedAfterClaim
  <1>9. ASSUME NEW j \in Invocations PROVE OwnAgents(j)' /\ LeaseIsOwn(j)'
    <2>1. OwnAgents(j) /\ LeaseIsOwn(j)
      BY DEF AgentInv
    <2>2. \A q \in Runs, w \in Leases :
            claimant'[q][w] = j /\ AtWork(q, w)' => claimant[q][w] = j /\ AtWork(q, w)
      BY <1>4, <1>5, <1>7 DEF AtWork
    <2>3. handler'[j].pc # "idle" => handler[j].pc # "idle"
      BY <1>1, <1>6 DEF OnlyMoves
    <2>4. handler'[j].run = handler[j].run /\ handler'[j].lease = handler[j].lease
      BY <1>6 DEF OnlyMoves
    <2>5. handler[j].pc = "reset" => handler'[j].pc = "reset"
      BY <1>1, <1>6 DEF OnlyMoves
    <2>6. OwnAgents(j)'
      BY <2>1, <2>2, <2>3, <2>4, <2>5 DEF OwnAgents
    <2>7. LeaseIsOwn(j)'
      <3> SUFFICES ASSUME handler[j].lease \in Leases
                   PROVE  claimant'[handler[j].run][handler[j].lease] = j
        BY <2>1, <2>4 DEF LeaseIsOwn
      <3>1. claimant[handler[j].run][handler[j].lease] = j /\ handler[j].run \in Runs
        BY <2>1 DEF LeaseIsOwn
      <3>2. handler[j].run # r \/ handler[j].lease # v
        BY <1>3, <3>1, NoneAssumption
      <3> QED BY <1>7, <3>1, <3>2
    <2> QED BY <2>6, <2>7
  <1> QED BY <1>8, <1>9 DEF AgentInv

\* The read-back: the lease is the one this invocation claimed.
LEMMA ReadBackKeepsAgents ==
  ASSUME IInv, AgentInv, NEW i \in Invocations, ReadBackLease(i),
         row[handler[i].run].serviceId = i
  PROVE  AgentInv'
  <1> DEFINE r == handler[i].run
             v == row[r].leaseVersion
  <1>1. TypeOK /\ r \in Runs /\ handler[i].pc = "readback"
    BY WorkingHandlerType DEF IInv, WellFormed, ReadBackLease, Working
  <1>2. v \in Leases /\ claimant[r][v] = i
    <2>1. RowOK(r) /\ row[r].serviceId # None
      BY <1>1, NoneAssumption DEF IInv, RowInv
    <2> QED BY <2>1 DEF RowOK
  <1>3. handler' = [handler EXCEPT ![i] = [@ EXCEPT !.pc = "access", !.lease = v]]
        /\ UNCHANGED <<claimant, container>>
    BY DEF ReadBackLease
  <1> HIDE DEF v
  <1>4. /\ OnlyMoves(i) /\ handler'[i].pc = "access"
        /\ handler'[i].run = r /\ handler'[i].lease = v
    BY <1>1, <1>3 DEF TypeOK, Handler, OnlyMoves
  <1>5. StartedAfterClaim'
    BY <1>3 DEF AgentInv, StartedAfterClaim
  <1>6. ASSUME NEW j \in Invocations PROVE OwnAgents(j)' /\ LeaseIsOwn(j)'
    <2>1. OwnAgents(j) /\ LeaseIsOwn(j)
      BY DEF AgentInv
    <2>2. CASE j = i
      <3>1. \A q \in Runs, w \in Leases : claimant[q][w] = i => ~AtWork(q, w)
        BY <1>1, <2>1, <2>2 DEF OwnAgents
      <3> QED BY <1>1, <1>2, <1>3, <1>4, <2>2, <3>1 DEF OwnAgents, LeaseIsOwn, AtWork
    <2>3. CASE j # i
      BY <1>3, <1>4, <2>1, <2>3 DEF OnlyMoves, OwnAgents, LeaseIsOwn, AtWork
    <2> QED BY <2>2, <2>3
  <1> QED BY <1>5, <1>6 DEF AgentInv

\* The start: the agent belongs to the lease of an invocation that ends, or that
\* was told the start failed and is about to give the row back.
LEMMA StartKeepsAgents ==
  ASSUME IInv, AgentInv, NEW i \in Invocations, handler[i].pc = "start",
         StartContainer(handler[i].run, handler[i].lease), UNCHANGED claimant,
         Settle(i) \/ Goto(i, "reset")
  PROVE  AgentInv'
  <1> DEFINE r == handler[i].run
             v == handler[i].lease
  <1>1. TypeOK /\ r \in Runs /\ container \in [Runs -> [Leases -> Container]]
    BY WorkingHandlerType DEF IInv, WellFormed, Working, TypeOK
  <1>2. /\ OnlyMoves(i)
        /\ \/ handler'[i].pc = "idle" /\ handler'[i].lease = 0
           \/ handler'[i].pc = "reset" /\ handler'[i].run = r /\ handler'[i].lease = v
    BY <1>1, SettleEffect, GotoEffect
  <1>3. \A q \in Runs, w \in Leases :
          (q # r \/ w # v) => container'[q][w] = container[q][w]
    BY <1>1 DEF StartContainer
  <1>4. v \in Leases => claimant[r][v] = i
    BY DEF AgentInv, LeaseIsOwn
  <1>5. StartedAfterClaim'
    <2> SUFFICES ASSUME NEW q \in Runs, NEW w \in Leases, container'[q][w].pc # "none"
                 PROVE  claimant[q][w] # None
      BY DEF StartedAfterClaim
    <2>1. CASE q = r /\ w = v
      BY <1>4, <2>1, NoneAssumption
    <2>2. CASE q # r \/ w # v
      BY <1>3, <2>2 DEF AgentInv, StartedAfterClaim
    <2> QED BY <2>1, <2>2
  <1>6. ASSUME NEW j \in Invocations PROVE OwnAgents(j)' /\ LeaseIsOwn(j)'
    <2>1. OwnAgents(j) /\ LeaseIsOwn(j)
      BY DEF AgentInv
    <2>2. CASE j = i
      <3>1. \A q \in Runs, w \in Leases : claimant[q][w] = i => ~AtWork(q, w)
        BY <2>1, <2>2 DEF OwnAgents
      <3>2. \A q \in Runs, w \in Leases :
              claimant[q][w] = i /\ AtWork(q, w)' => q = r /\ w = v
        BY <1>3, <3>1 DEF AtWork
      <3>3. OwnAgents(j)'
        BY <1>2, <2>2, <3>2 DEF OwnAgents
      <3>4. LeaseIsOwn(j)'
        BY <1>1, <1>2, <1>4, <2>2, BoundsAssumption DEF LeaseIsOwn, Leases
      <3> QED BY <3>3, <3>4
    <2>3. CASE j # i
      <3>1. \A q \in Runs, w \in Leases :
              claimant[q][w] = j /\ AtWork(q, w)' => AtWork(q, w)
        BY <1>3, <1>4, <2>3 DEF AtWork
      <3> QED BY <1>2, <2>1, <2>3, <3>1 DEF OnlyMoves, OwnAgents, LeaseIsOwn
    <2> QED BY <2>2, <2>3
  <1> QED BY <1>5, <1>6 DEF AgentInv

LEMMA HandlerKeepsAgents ==
  ASSUME IInv, AgentInv, HandlerNext
  PROVE  AgentInv'
  <1>1. TypeOK
    BY DEF IInv, WellFormed
  <1>2. CASE Quiet
    BY <1>2, QuietKeepsAgents
  <1>3. ASSUME NEW r \in Runs, ConsumeDeadLetter(r) PROVE AgentInv'
    BY <1>2, <1>3 DEF ConsumeDeadLetter, Quiet, AtWork
  <1>4. ASSUME NEW i \in Invocations, DuplicateDelivery(i) PROVE AgentInv'
    BY <1>2, <1>4 DEF DuplicateDelivery, Quiet, AtWork
  <1>5. ASSUME NEW i \in Invocations, UNCHANGED <<claimant, container>>,
               \/ Settle(i)
               \/ \E pc \in HandlerPc : Goto(i, pc) /\ handler[i].pc \notin {"idle", "reset"}
        PROVE  AgentInv'
    BY <1>1, <1>5, SettleEffect, GotoEffect, ProceedingKeepsAgents DEF Proceeds
  <1>6. ASSUME NEW i \in Invocations, ClaimRun(i) PROVE AgentInv'
    BY <1>5, <1>6, ClaimKeepsAgents DEF ClaimRun
  <1>7. ASSUME NEW i \in Invocations, ReadBackLease(i) PROVE AgentInv'
    BY <1>5, <1>7, ReadBackKeepsAgents DEF ReadBackLease
  <1>8. ASSUME NEW i \in Invocations, HostStartsContainer(i) PROVE AgentInv'
    BY <1>8, StartKeepsAgents DEF HostStartsContainer
  <1>9. ASSUME NEW i \in Invocations, DispatchFails(i) PROVE AgentInv'
    BY <1>5, <1>9, StartKeepsAgents DEF DispatchFails, HandlerPc
  <1>10. ASSUME NEW i \in Invocations,
                \/ RecoverStale(i) \/ AssertExecutionAccess(i) \/ FreezeModel(i)
                \/ HostChecksLease(i) \/ ResetForCapacity(i)
                \/ HostRefuses(i) \/ HandlerThrows(i)
         PROVE  AgentInv'
    BY <1>5, <1>10
    DEF RecoverStale, AssertExecutionAccess, FreezeModel, HostChecksLease,
        ResetForCapacity, HostRefuses, HandlerThrows, HandlerPc
  <1>11. ASSUME NEW i \in Invocations,
                \/ FailClaimedRun(i) \/ ResetAndRetry(i) \/ RequeueForCapacity(i)
                \/ HandlerCrash(i)
         PROVE  AgentInv'
    BY <1>5, <1>11 DEF FailClaimedRun, ResetAndRetry, RequeueForCapacity, HandlerCrash
  <1> QED BY <1>3, <1>4, <1>6, <1>7, <1>8, <1>9, <1>10, <1>11, ReceiveKeepsAgents
          DEF HandlerNext, HandlerStep

LEMMA ContainerIsQuiet ==
  ASSUME TypeOK, ContainerNext
  PROVE  Quiet
  <1>1. PICK r \in Runs, v \in Leases :
          ContainerStep(r, v) \/ Heartbeat(r, v) \/ ContainerDies(r, v)
    BY DEF ContainerNext
  <1>2. UNCHANGED <<handler, claimant>>
    BY <1>1 DEF ContainerStep, HeartbeatLeaseLost, FinishWork, CompleteRun,
       CompleteRunAgain, Heartbeat, ContainerDies, ContainerFrame
  <1>3. CASE UNCHANGED container
    BY <1>2, <1>3 DEF Quiet, AtWork
  <1>4. ASSUME NEW pc, pc \in {"confirmed", "gone"}, Stop(r, v, pc),
               container[r][v].pc # "none"
        PROVE  Quiet
    BY <1>2, <1>4, StopEffect DEF Quiet, AtWork
  <1>5. CASE FinishWork(r, v)
    <2>1. PICK st : container' = [container EXCEPT ![r][v] =
                                    [pc |-> "finishing", outcome |-> st]]
      BY <1>5 DEF FinishWork
    <2>2. \A q \in Runs, w \in Leases :
            container'[q][w] = container[q][w] \/ (q = r /\ w = v)
      BY <2>1 DEF TypeOK
    <2>3. container[r][v].pc = "live"
      BY <1>5 DEF FinishWork
    <2> QED BY <1>2, <2>2, <2>3 DEF Quiet, AtWork
  <1>6. CASE CompleteRun(r, v) \/ CompleteRunAgain(r, v)
    BY <1>3, <1>4, <1>6 DEF CompleteRun, CompleteRunAgain
  <1>7. CASE HeartbeatLeaseLost(r, v) \/ ContainerDies(r, v)
    BY <1>4, <1>7 DEF HeartbeatLeaseLost, ContainerDies
  <1> QED BY <1>1, <1>3, <1>5, <1>6, <1>7 DEF ContainerStep, Heartbeat

LEMMA AgentStep ==
  ASSUME IInv, AgentInv, Next
  PROVE  AgentInv'
  <1>1. TypeOK
    BY DEF IInv, WellFormed
  <1>2. CASE CreatorNext \/ CronNext \/ CancelNext \/ TimeNext
    <2>1. UNCHANGED <<handler, claimant, container>>
      BY <1>2 DEF CreatorNext, CreatePendingRun, MarkQueued, SendRun, SendRunThrows,
         FailEnqueue, CreatorCrash, CreatorFrame, CronNext, CronStep, CronSends,
         CronResetsStale, CronMarksUnclaimed, CronSendThrows, CronCrash, CronFrame,
         CancelNext, RequestCancel, CancelAttempt, CancelRereads, CancelFrame,
         TimeNext, HeartbeatExpires, HeartbeatExpiresEarly, CreatedAtAges, TimeFrame
    <2> QED BY <2>1, QuietKeepsAgents DEF Quiet, AtWork
  <1> QED BY <1>1, <1>2, HandlerKeepsAgents, ContainerIsQuiet, QuietKeepsAgents DEF Next

\* A running row with a fresh heartbeat is given back by its owner alone.
LEMMA FreshRowReleased ==
  ASSUME IInv, Next, NEW r \in Runs, row[r].status = "running",
         row[r].heartbeat = "fresh", row'[r].status = "queued"
  PROVE  \E i \in Invocations : /\ handler[i].pc \in {"reset", "defer"}
                                /\ handler[i].run = r /\ row[r].serviceId = i
  <1>1. TypeOK /\ row \in [Runs -> Row]
    BY DEF IInv, WellFormed, TypeOK
  <1>2. row'[r] # row[r] /\ ~IsStaleRunning(r)
    BY DEF IsStaleRunning
  <1>3. ASSUME NEW q, ToQueued(q) PROVE q = r
    BY <1>1, <1>2, <1>3 DEF ToQueued
  <1>4. ASSUME NEW q, NEW key, CommitTerminal(q, key), key.status \in TerminalStatus
        PROVE  FALSE
    <2>1. row'[r] = row[r] \/ row'[r].status = key.status
      BY <1>1, <1>4 DEF CommitTerminal, Row
    <2> QED BY <1>2, <1>4, <2>1 DEF TerminalStatus
  <1>5. ASSUME NEW q, NEW b, NEW st \in TerminalStatus, TransitionRunTerminal(q, b, st)
        PROVE  FALSE
    <2> DEFINE key == [lease |-> 0, status |-> st]
    <2>1. key.status \in TerminalStatus /\ (UNCHANGED row \/ CommitTerminal(q, key))
      BY <1>5 DEF TransitionRunTerminal
    <2> HIDE DEF key
    <2> QED BY <1>2, <1>4, <2>1
  <1>6. CASE CreatorNext
    <2>1. PICK q \in Runs :
            \/ CreatePendingRun(q) \/ MarkQueued(q) \/ SendRun(q)
            \/ SendRunThrows(q) \/ FailEnqueue(q) \/ CreatorCrash(q)
      BY <1>6 DEF CreatorNext
    <2>2. CASE CreatePendingRun(q) \/ MarkQueued(q)
      <3>1. PICK st : row' = [row EXCEPT ![q].status = st]
        BY <2>2 DEF CreatePendingRun, MarkQueued
      <3>2. q = r
        BY <1>1, <1>2, <3>1
      <3>3. Untouched(r)
        BY <2>2, <3>2 DEF CreatePendingRun, MarkQueued, IInv, CreationWindow
      <3> QED BY <3>3 DEF Untouched
    <2>3. CASE FailEnqueue(q)
      BY <1>5, <2>3 DEF FailEnqueue, TerminalStatus
    <2> QED BY <1>2, <2>1, <2>2, <2>3 DEF SendRun, SendRunThrows, CreatorCrash
  <1>7. CASE HandlerNext
    <2>1. ASSUME NEW i \in Invocations, ReleaseIfOwned(i, handler[i].run),
                 handler[i].pc \in {"reset", "defer"}
          PROVE  /\ handler[i].run = r /\ row[r].serviceId = i
      BY <1>2, <1>3, <2>1 DEF ReleaseIfOwned
    <2>2. ASSUME NEW i \in Invocations, ClaimRun(i) PROVE FALSE
      <3>1. UNCHANGED row \/ Claimable(handler[i].run)
        BY <2>2 DEF ClaimRun
      <3>2. CASE Claimable(handler[i].run)
        <4>1. handler[i].run # r
          BY <3>2 DEF Claimable
        <4> QED BY <1>1, <1>2, <2>2, <3>2, <4>1 DEF ClaimRun
      <3> QED BY <1>2, <3>1, <3>2
    <2>3. ASSUME NEW i \in Invocations, FailClaimedRun(i) PROVE FALSE
      BY <1>5, <2>3 DEF FailClaimedRun, TerminalStatus
    <2>4. ASSUME NEW q \in Runs, ConsumeDeadLetter(q) PROVE FALSE
      BY <1>5, <2>4 DEF ConsumeDeadLetter, TerminalStatus
    <2>5. ASSUME NEW i \in Invocations, RecoverStale(i) PROVE FALSE
      BY <1>2, <1>3, <2>5 DEF RecoverStale
    <2> QED BY <1>2, <1>7, <2>1, <2>2, <2>3, <2>4, <2>5
            DEF HandlerNext, HandlerStep, ReadBackLease, AssertExecutionAccess,
                FreezeModel, HostChecksLease, HostStartsContainer, ResetAndRetry,
                ResetForCapacity, RequeueForCapacity, ReceiveMessage, DispatchFails,
                HostRefuses, HandlerThrows, HandlerCrash, DuplicateDelivery
  <1>8. CASE ContainerNext
    <2>1. PICK q \in Runs, v \in Leases :
            ContainerStep(q, v) \/ Heartbeat(q, v) \/ ContainerDies(q, v)
      BY <1>8 DEF ContainerNext
    <2>2. CASE CompleteRun(q, v)
      <3>1. CompletionKey(q, v).status \in TerminalStatus
        BY <2>2 DEF CompleteRun, CompletionKey, IInv, WellFormed, TypeOK,
           FinishersHaveOutcomes, Container, TerminalStatus
      <3> QED BY <1>4, <2>2, <3>1 DEF CompleteRun
    <2>3. CASE Heartbeat(q, v)
      <3>1. row'[r].status = row[r].status
        BY <1>1, <2>3 DEF Heartbeat, Row
      <3> QED BY <3>1
    <2> QED BY <1>2, <2>1, <2>2, <2>3
            DEF ContainerStep, HeartbeatLeaseLost, FinishWork, CompleteRunAgain,
                ContainerDies
  <1>9. CASE CronNext
    <2>1. PICK c \in Crons : CronStep(c) \/ CronSendThrows(c) \/ CronCrash(c)
      BY <1>9 DEF CronNext
    <2>2. ASSUME NEW q \in Runs, CronResetsStale(c, q) PROVE FALSE
      BY <1>2, <1>3, <2>2 DEF CronResetsStale
    <2>3. ASSUME NEW q \in Runs, CronMarksUnclaimed(c, q) PROVE FALSE
      <3>1. q # r
        BY <2>3 DEF CronMarksUnclaimed, IsUnclaimed
      <3> QED BY <1>1, <1>2, <2>3, <3>1 DEF CronMarksUnclaimed
    <2>4. CASE CronSendThrows(c)
      <3>1. row' = row \/ row[cron[c].run].status = "queued"
        BY <2>4 DEF CronSendThrows
      <3>2. CASE row[cron[c].run].status = "queued"
        <4>1. cron[c].run # r
          BY <3>2
        <4> QED BY <1>1, <1>2, <2>4, <4>1 DEF CronSendThrows
      <3> QED BY <1>2, <3>1, <3>2
    <2> QED BY <1>2, <2>1, <2>2, <2>3, <2>4 DEF CronStep, CronSends, CronCrash
  <1>10. CASE CancelNext
    <2>1. PICK q \in Runs : RequestCancel(q) \/ CancelAttempt(q) \/ CancelRereads(q)
      BY <1>10 DEF CancelNext
    <2> DEFINE key == [lease |-> 0, status |-> "cancelled"]
    <2>2. key.status \in TerminalStatus /\ (UNCHANGED row \/ CommitTerminal(q, key))
      BY <2>1 DEF RequestCancel, CancelAttempt, CancelRereads, TerminalStatus
    <2> HIDE DEF key
    <2> QED BY <1>2, <1>4, <2>2
  <1>11. CASE TimeNext
    <2>1. PICK q \in Runs : row' = row \/ row' = [row EXCEPT ![q].heartbeat = "stale"]
      BY <1>11 DEF TimeNext, HeartbeatExpires, HeartbeatExpiresEarly, CreatedAtAges
    <2>2. row'[r].status = row[r].status
      BY <1>1, <2>1 DEF Row
    <2> QED BY <2>2
  <1> QED BY <1>6, <1>7, <1>8, <1>9, <1>10, <1>11 DEF Next

\* Duplicate messages are safe: a running agent whose heartbeat is fresh loses its
\* lease to the queue only through the reset of the very dispatch that started
\* it and was reported as failed, although that reset is fenced by serviceId
\* alone; no other invocation, sweep or redelivery takes it.
THEOREM LiveLeaseKept ==
  ASSUME PromptCreation
  PROVE  Spec => LiveLeaseIsKept
  <1> DEFINE Kept == \A r \in Runs, v \in Leases :
                       (/\ container[r][v].pc \in {"live", "finishing"}
                        /\ ContainerHoldsLease(r, v)
                        /\ row[r].heartbeat = "fresh"
                        /\ row'[r].status = "queued")
                       => \E i \in Invocations : /\ handler[i].pc = "reset"
                                                 /\ handler[i].run = r
                                                 /\ handler[i].lease = v
                                                 /\ claimant[r][v] = i
  <1>1. ASSUME Init PROVE AgentInv
    <2>1. \A r \in Runs, v \in Leases : container[r][v].pc = "none"
      BY <1>1 DEF Init
    <2>2. \A i \in Invocations : handler[i].pc = "idle" /\ handler[i].lease = 0
      BY <1>1 DEF Init
    <2> QED BY <2>1, <2>2, BoundsAssumption
            DEF AgentInv, StartedAfterClaim, OwnAgents, LeaseIsOwn, Leases
  <1>2. IInv /\ AgentInv /\ [Next]_vars => AgentInv'
    <2>1. AgentInv /\ UNCHANGED vars => AgentInv'
      BY QuietKeepsAgents DEF vars, Quiet, AtWork
    <2> QED BY <2>1, AgentStep
  <1>3. IInv /\ AgentInv /\ [Next]_vars => [Kept]_vars
    <2> SUFFICES ASSUME IInv, AgentInv, Next, NEW r \in Runs, NEW v \in Leases,
                        AtWork(r, v), ContainerHoldsLease(r, v),
                        row[r].heartbeat = "fresh", row'[r].status = "queued"
                 PROVE  \E i \in Invocations : /\ handler[i].pc = "reset"
                                               /\ handler[i].run = r
                                               /\ handler[i].lease = v
                                               /\ claimant[r][v] = i
      BY DEF AtWork
    <2>1. PICK i \in Invocations : /\ handler[i].pc \in {"reset", "defer"}
                                   /\ handler[i].run = r /\ row[r].serviceId = i
      BY FreshRowReleased DEF ContainerHoldsLease, HoldsLease
    <2>2. claimant[r][v] = i
      BY <2>1 DEF ContainerHoldsLease, HoldsLease
    <2>3. handler[i].pc = "reset" /\ handler[i].lease = v
      BY <2>1, <2>2 DEF AgentInv, OwnAgents
    <2> QED BY <2>1, <2>2, <2>3
  <1>4. Spec => []AgentInv
    BY <1>1, <1>2, Invariance, PTL DEF Spec
  <1> QED BY <1>3, <1>4, Invariance, PTL DEF Spec, LiveLeaseIsKept
=============================================================================

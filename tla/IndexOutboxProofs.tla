------------------------- MODULE IndexOutboxProofs -------------------------
(***************************************************************************)
(* The theorems about IndexOutbox, for any number of dispatchers,           *)
(* deliveries, retries and faults.                                         *)
(*                                                                         *)
(* That a consumer at work holds the row is not inductive: a copy of the    *)
(* same delivery may be about to take over a claim that it has read as      *)
(* stale.  The invariant adds that such a copy can succeed only while the   *)
(* row is stale (TakesOverStale), that the row of a consumer at work is not *)
(* (AtWorkHolds), and that a started_at is never used twice (Times).        *)
(***************************************************************************)
EXTENDS IndexOutbox, TLAPS

\* Every started_at, in the row or remembered, is one that was written.
Times ==
    /\ row.startedAt <= clock
    /\ \A m \in Msgs : msg[m].seenAt <= clock

RunningIsTimed == row.status = "running" => row.startedAt # 0

\* A consumer that is about to claim has read a job that may be claimed.
SeesClaimable ==
    \A m \in Msgs : msg[m].pc = "claim" => msg[m].seen \in {"queued", "enqueued", "running"}

TakesOverStale ==
    \A m \in Msgs :
        /\ msg[m].pc = "claim" /\ msg[m].seen = "running"
        /\ row.status = "running" /\ row.startedAt = msg[m].seenAt
        => row.stale

AtWorkHolds ==
    \A m \in Msgs : msg[m].pc \in Working =>
        \/ HoldsClaim(m) /\ ~row.stale
        \/ msg[m].pc = "release" /\ row.status \in Terminal

OneAtWork ==
    \A m, n \in Msgs : msg[m].pc \in Working /\ msg[n].pc \in Working => m = n

JobInv ==
    /\ Times /\ RunningIsTimed /\ SeesClaimable /\ TakesOverStale
    /\ AtWorkHolds /\ OneAtWork

IInv == TypeOK /\ JobInv

(***************************************************************************)
(* What the helpers do to a message.                                       *)
(***************************************************************************)

\* Only the message m changes.
OnlyMsg(m) ==
    /\ msg' \in [Msgs -> Msg]
    /\ \A n \in Msgs \ {m} : msg'[n] = msg[n]

\* m is neither at work nor about to claim, and remembers the time "at".
Rests(m, at) ==
    /\ OnlyMsg(m)
    /\ msg'[m].pc \notin Working \cup {"claim"}
    /\ msg'[m].seenAt = at

LEMMA NoMsgType == NoMsg \in Msg
  BY IndexAssumption DEF NoMsg, Msg, MsgPc, Status

LEMMA AckRests ==
  ASSUME TypeOK, NEW m \in Msgs, Ack(m)
  PROVE  Rests(m, 0)
  <1>1. [NoMsg EXCEPT !.pc = "gone"] \in Msg
    BY NoMsgType DEF Msg, MsgPc
  <1>2. /\ [NoMsg EXCEPT !.pc = "gone"].pc = "gone"
        /\ [NoMsg EXCEPT !.pc = "gone"].seenAt = 0
    BY DEF NoMsg
  <1>3. OnlyMsg(m) /\ msg'[m] = [NoMsg EXCEPT !.pc = "gone"]
    BY <1>1 DEF TypeOK, Ack, OnlyMsg
  <1> QED BY <1>2, <1>3 DEF Rests, Working

LEMMA RetryRests ==
  ASSUME TypeOK, NEW m \in Msgs, NEW at \in Nat, RetryAt(m, at)
  PROVE  Rests(m, at)
  <1> DEFINE again == [NoMsg EXCEPT !.pc = "waiting", !.tries = msg[m].tries + 1,
                                    !.seenAt = at]
             over == [NoMsg EXCEPT !.pc = "dead", !.seenAt = at]
  <1>1. msg[m].tries + 1 \in Nat
    BY DEF TypeOK, Msg
  <1>2. again \in Msg /\ over \in Msg
    BY <1>1, NoMsgType DEF Msg, MsgPc
  <1>3. /\ again.pc = "waiting" /\ again.seenAt = at
        /\ over.pc = "dead" /\ over.seenAt = at
    BY DEF NoMsg
  <1>4. msg' = [msg EXCEPT ![m] = IF msg[m].tries < MaxRetries THEN again ELSE over]
    BY DEF RetryAt
  <1> HIDE DEF again, over
  <1>5. OnlyMsg(m) /\ msg'[m] \in {again, over}
    BY <1>2, <1>4 DEF TypeOK, OnlyMsg
  <1> QED BY <1>3, <1>5 DEF Rests, Working

\* A message that goes on at pc.
Goes(m, pc) == msg' = [msg EXCEPT ![m].pc = pc]

LEMMA GoesEffect ==
  ASSUME TypeOK, NEW m \in Msgs, NEW pc \in MsgPc, Goes(m, pc)
  PROVE  /\ OnlyMsg(m)
         /\ msg'[m].pc = pc
         /\ msg'[m].seenAt = msg[m].seenAt /\ msg'[m].seen = msg[m].seen
  <1>1. msg \in [Msgs -> Msg] /\ msg[m] \in Msg
    BY DEF TypeOK
  <1>2. [msg[m] EXCEPT !.pc = pc] \in Msg
    BY <1>1 DEF Msg
  <1>3. msg' = [msg EXCEPT ![m] = [msg[m] EXCEPT !.pc = pc]]
    BY DEF Goes
  <1>4. OnlyMsg(m) /\ msg'[m] = [msg[m] EXCEPT !.pc = pc]
    BY <1>1, <1>2, <1>3 DEF OnlyMsg
  <1> QED BY <1>1, <1>4 DEF Msg

LEMMA FaultType ==
  ASSUME TypeOK, Fault
  PROVE  faults' \in 0..MaxFaults
  BY IndexAssumption DEF TypeOK, Fault

(***************************************************************************)
(* Steps by their shape.                                                   *)
(***************************************************************************)

\* The message rests and the row stays.
LEMMA RestingStep ==
  ASSUME IInv, NEW m \in Msgs, NEW at \in Nat, at <= clock, Rests(m, at),
         UNCHANGED <<row, clock>>
  PROVE  JobInv'
  <1>1. TypeOK /\ JobInv
    BY DEF IInv
  <1>2. /\ msg'[m].pc \notin Working \cup {"claim"} /\ msg'[m].seenAt = at
        /\ \A n \in Msgs \ {m} : msg'[n] = msg[n]
    BY DEF Rests, OnlyMsg
  <1>3. Times' /\ RunningIsTimed'
    BY <1>1, <1>2 DEF JobInv, Times, RunningIsTimed
  <1>4. SeesClaimable' /\ TakesOverStale'
    BY <1>1, <1>2 DEF JobInv, SeesClaimable, TakesOverStale
  <1>5. AtWorkHolds' /\ OneAtWork'
    BY <1>1, <1>2 DEF JobInv, AtWorkHolds, OneAtWork, HoldsClaim
  <1> QED BY <1>3, <1>4, <1>5 DEF JobInv

\* A consumer at work goes on, and the row stays.
LEMMA WorkingStep ==
  ASSUME IInv, NEW m \in Msgs, msg[m].pc \in Working \ {"release"},
         NEW pc \in Working, Goes(m, pc), UNCHANGED <<row, clock>>
  PROVE  JobInv'
  <1>1. TypeOK /\ JobInv
    BY DEF IInv
  <1>2. pc \in MsgPc /\ pc # "claim"
    BY DEF Working, MsgPc
  <1>3. /\ msg'[m].pc = pc /\ msg'[m].seenAt = msg[m].seenAt
        /\ \A n \in Msgs \ {m} : msg'[n] = msg[n]
    BY <1>1, <1>2, GoesEffect DEF OnlyMsg
  <1>4. Times' /\ RunningIsTimed'
    BY <1>1, <1>3 DEF JobInv, Times, RunningIsTimed
  <1>5. SeesClaimable' /\ TakesOverStale'
    BY <1>1, <1>2, <1>3 DEF JobInv, SeesClaimable, TakesOverStale
  <1>6. HoldsClaim(m) /\ ~row.stale
    BY <1>1 DEF JobInv, AtWorkHolds
  <1>7. AtWorkHolds' /\ OneAtWork'
    BY <1>1, <1>3, <1>6 DEF JobInv, AtWorkHolds, OneAtWork, HoldsClaim
  <1> QED BY <1>4, <1>5, <1>7 DEF JobInv

Idlers == \A m \in Msgs : msg[m].pc \notin Working

\* Nobody is at work on a job that waits or whose claim is stale.
LEMMA WaitingIsIdle ==
  ASSUME IInv, row.status \in {"none", "queued", "enqueued"} \/ (row.status = "running" /\ row.stale)
  PROVE  Idlers
  BY DEF IInv, JobInv, AtWorkHolds, HoldsClaim, Terminal, Idlers

\* A row that nobody works on changes to a status other than running.
LEMMA RowStep ==
  ASSUME IInv, Idlers, row'.status # "running", UNCHANGED msg,
         clock' \in Nat, clock <= clock', row'.startedAt <= clock'
  PROVE  JobInv'
  <1>1. TypeOK /\ JobInv
    BY DEF IInv
  <1>2. \A m \in Msgs : msg[m].seenAt \in Nat
    BY <1>1 DEF TypeOK, Msg
  <1>3. Times' /\ RunningIsTimed'
    BY <1>1, <1>2 DEF JobInv, Times, RunningIsTimed, TypeOK
  <1>4. SeesClaimable' /\ TakesOverStale'
    BY <1>1 DEF JobInv, SeesClaimable, TakesOverStale
  <1>5. AtWorkHolds' /\ OneAtWork'
    BY DEF Idlers, AtWorkHolds, OneAtWork
  <1> QED BY <1>3, <1>4, <1>5 DEF JobInv

\* The same when a message comes to rest, and no other one is at work.
LEMMA RowAndMsgStep ==
  ASSUME IInv, NEW m \in Msgs, NEW at \in Nat, at <= clock, Rests(m, at),
         \A n \in Msgs \ {m} : msg[n].pc \notin Working,
         row'.status # "running", row'.startedAt <= clock, UNCHANGED clock
  PROVE  JobInv'
  <1>1. TypeOK /\ JobInv
    BY DEF IInv
  <1>2. /\ msg'[m].pc \notin Working \cup {"claim"} /\ msg'[m].seenAt = at
        /\ \A n \in Msgs \ {m} : msg'[n] = msg[n]
    BY DEF Rests, OnlyMsg
  <1>3. Times' /\ RunningIsTimed'
    BY <1>1, <1>2 DEF JobInv, Times, RunningIsTimed
  <1>4. SeesClaimable' /\ TakesOverStale'
    BY <1>1, <1>2 DEF JobInv, SeesClaimable, TakesOverStale
  <1>5. AtWorkHolds' /\ OneAtWork'
    BY <1>2 DEF AtWorkHolds, OneAtWork
  <1> QED BY <1>3, <1>4, <1>5 DEF JobInv

LEMMA SetRowType ==
  ASSUME NEW status \in Status, NEW token \in 0..MaxDeliveries, NEW at \in Nat,
         SetRow(status, token, at)
  PROVE  /\ row' \in Row
         /\ row'.status = status /\ row'.token = token /\ row'.startedAt = at
         /\ row'.stale = FALSE
  BY DEF SetRow, Row

LEMMA EndRowType ==
  ASSUME TypeOK, NEW status \in Terminal, EndRow(status)
  PROVE  row' \in Row /\ row'.status = status /\ row'.startedAt = row.startedAt
  <1>1. /\ row \in Row /\ status \in Status /\ 0 \in 0..MaxDeliveries
        /\ row' = [row EXCEPT !.status = status, !.token = 0]
    BY IndexAssumption DEF TypeOK, Terminal, Status, EndRow
  <1> QED BY <1>1 DEF Row

LEMMA StaleType ==
  ASSUME TypeOK, row' = [row EXCEPT !.stale = TRUE]
  PROVE  /\ row' \in Row
         /\ row'.status = row.status /\ row'.token = row.token
         /\ row'.startedAt = row.startedAt /\ row'.stale
  BY DEF TypeOK, Row

(***************************************************************************)
(* Where jobs come from, the dispatchers, time and the queue.              *)
(***************************************************************************)

LEMMA ZeroType == 0 \in 0..MaxDeliveries /\ 0 \in Nat
  BY IndexAssumption

LEMMA OriginKeeps ==
  ASSUME IInv, CommitOutboxRow \/ SendFollowUp
  PROVE  IInv'
  <1>1. TypeOK /\ JobInv /\ Times
    BY DEF IInv, JobInv
  <1>2. CASE CommitOutboxRow
    <2>1. /\ SetRow("queued", 0, 0) /\ row.status = "none"
          /\ UNCHANGED <<dispatcher, msg, minted, clock, dropped, faults>>
      BY <1>2 DEF CommitOutboxRow, OriginFrame
    <2>2. row' \in Row /\ row'.status = "queued" /\ row'.startedAt = 0
      BY <2>1, ZeroType, SetRowType DEF Status
    <2>3. Idlers
      BY <2>1, WaitingIsIdle
    <2>4. JobInv'
      BY <1>1, <2>1, <2>2, <2>3, RowStep DEF TypeOK
    <2> QED BY <1>1, <2>1, <2>2, <2>4 DEF IInv, TypeOK
  <1>3. CASE SendFollowUp
    <2>1. /\ Goes(<<1, 1>>, "waiting") /\ minted' = 1
          /\ UNCHANGED <<row, dispatcher, clock, dropped, faults>>
      BY <1>3 DEF SendFollowUp, OriginFrame, Goes
    <2>2. <<1, 1>> \in Msgs /\ 1 \in 0..MaxDeliveries /\ "waiting" \in MsgPc
      BY IndexAssumption DEF Msgs, Deliveries, MsgPc
    <2>3. Rests(<<1, 1>>, msg[<<1, 1>>].seenAt)
      BY <1>1, <2>1, <2>2, GoesEffect DEF Rests, Working
    <2>4. msg[<<1, 1>>].seenAt \in Nat /\ msg[<<1, 1>>].seenAt <= clock
      BY <1>1, <2>2 DEF TypeOK, Msg, Times
    <2>5. JobInv'
      BY <2>1, <2>2, <2>3, <2>4, RestingStep
    <2> QED BY <1>1, <2>1, <2>2, <2>3, <2>5 DEF IInv, TypeOK, Rests, OnlyMsg
  <1> QED BY <1>2, <1>3

LEMMA IdleType == Idle \in Dispatcher
  BY IndexAssumption DEF Idle, Dispatcher, DispatcherPc, Status

\* A dispatcher that only looks or stops.
LEMMA DispatcherOnly ==
  ASSUME IInv, dispatcher' \in [Dispatchers -> Dispatcher],
         faults' \in 0..MaxFaults, UNCHANGED <<row, msg, minted, clock, dropped>>
  PROVE  IInv'
  BY DEF IInv, TypeOK, JobInv, Times, RunningIsTimed, SeesClaimable, TakesOverStale,
         AtWorkHolds, OneAtWork, HoldsClaim

\* The queue accepts the message of a dispatcher.
LEMMA AcceptKeeps ==
  ASSUME IInv, NEW x \in Dispatchers, Accept(x),
         dispatcher' \in [Dispatchers -> Dispatcher], faults' \in 0..MaxFaults,
         UNCHANGED <<row, minted, clock, dropped>>
  PROVE  IInv'
  <1> DEFINE m == <<dispatcher[x].delivery, 1>>
  <1>1. TypeOK /\ JobInv /\ Times
    BY DEF IInv, JobInv
  <1>2. msg' = [msg EXCEPT ![m].pc = "waiting"]
    BY DEF Accept
  <1>3. CASE m \in Msgs
    <2> HIDE DEF m
    <2>1. Goes(m, "waiting") /\ "waiting" \in MsgPc
      BY <1>2 DEF Goes, MsgPc
    <2>2. Rests(m, msg[m].seenAt)
      BY <1>1, <1>3, <2>1, GoesEffect DEF Rests, Working
    <2>3. msg[m].seenAt \in Nat /\ msg[m].seenAt <= clock
      BY <1>1, <1>3 DEF TypeOK, Msg, Times
    <2>4. JobInv'
      BY <1>3, <2>2, <2>3, RestingStep
    <2> QED BY <1>1, <2>2, <2>4 DEF IInv, TypeOK, Rests, OnlyMsg
  <1>4. CASE m \notin Msgs
    <2> HIDE DEF m
    <2>1. msg' = msg
      BY <1>1, <1>2, <1>4 DEF TypeOK
    <2> QED BY <2>1, DispatcherOnly
  <1> QED BY <1>3, <1>4

\* The row waits, and changes to another one that waits.
LEMMA WaitingKeeps ==
  ASSUME IInv, row.status \in {"queued", "enqueued"}, row' \in Row,
         row'.status \in {"queued", "enqueued"},
         clock' \in Nat, clock <= clock', row'.startedAt <= clock',
         minted' \in 0..MaxDeliveries, faults' \in 0..MaxFaults,
         dispatcher' \in [Dispatchers -> Dispatcher], UNCHANGED <<msg, dropped>>
  PROVE  IInv'
  <1>1. Idlers
    BY WaitingIsIdle
  <1>2. JobInv'
    BY <1>1, RowStep
  <1> QED BY <1>2 DEF IInv, TypeOK

LEMMA DispatcherKeeps ==
  ASSUME IInv, NEW x \in Dispatchers,
         \/ SelectJob(x) \/ DispatcherStep(x) \/ SendThrows(x) \/ DispatcherStops(x)
  PROVE  IInv'
  <1>1. /\ TypeOK /\ Times /\ dispatcher \in [Dispatchers -> Dispatcher]
        /\ clock \in Nat /\ minted \in 0..MaxDeliveries /\ faults \in 0..MaxFaults
        /\ dispatcher[x] \in Dispatcher
    BY DEF IInv, JobInv, TypeOK
  <1>2. [dispatcher EXCEPT ![x] = Idle] \in [Dispatchers -> Dispatcher]
    BY <1>1, IdleType
  <1>3. CASE SelectJob(x)
    <2>1. PICK status \in {"queued", "enqueued"} :
            dispatcher' = [dispatcher EXCEPT ![x].pc = "claim", ![x].seen = status]
      BY <1>3 DEF SelectJob
    <2>2. dispatcher' \in [Dispatchers -> Dispatcher]
      BY <1>1, <2>1 DEF Dispatcher, DispatcherPc, Status
    <2> QED BY <1>1, <1>3, <2>2, DispatcherOnly DEF SelectJob
  <1>4. CASE ClaimForDelivery(x)
    <2>1. CASE Dispatchable(x, dispatcher[x].seen)
      <3>1. /\ row.status \in {"queued", "enqueued"}
            /\ minted < MaxDeliveries /\ minted' = minted + 1 /\ clock' = clock + 1
            /\ SetRow("enqueued", minted + 1, clock + 1)
            /\ dispatcher' = [dispatcher EXCEPT ![x].pc = "send",
                                                ![x].delivery = minted + 1,
                                                ![x].at = clock + 1]
            /\ UNCHANGED <<msg, dropped, faults>>
        BY <1>4, <2>1 DEF ClaimForDelivery, Dispatchable
      <3>2. minted + 1 \in 0..MaxDeliveries /\ clock + 1 \in Nat
        BY <1>1, <3>1, IndexAssumption
      <3>3. /\ row' \in Row /\ row'.status = "enqueued" /\ row'.startedAt = clock + 1
        BY <3>1, <3>2, SetRowType DEF Status
      <3>4. dispatcher' \in [Dispatchers -> Dispatcher]
        BY <1>1, <3>1, <3>2 DEF Dispatcher, DispatcherPc
      <3>5. clock <= clock' /\ row'.startedAt <= clock'
        BY <1>1, <3>1, <3>3
      <3> QED BY <1>1, <3>1, <3>2, <3>3, <3>4, <3>5, WaitingKeeps
    <2>2. CASE ~Dispatchable(x, dispatcher[x].seen)
      BY <1>1, <1>2, <1>4, <2>2, DispatcherOnly DEF ClaimForDelivery
    <2> QED BY <2>1, <2>2
  <1>5. CASE SendDelivery(x)
    BY <1>1, <1>2, <1>5, AcceptKeeps DEF SendDelivery
  <1>6. CASE SendThrows(x)
    <2>1. dispatcher' \in [Dispatchers -> Dispatcher]
      BY <1>1, <1>6 DEF SendThrows, Dispatcher, DispatcherPc
    <2> QED BY <1>1, <1>6, <2>1, FaultType, AcceptKeeps, DispatcherOnly DEF SendThrows
  <1>7. CASE RevertClaim(x)
    <2>1. CASE IsExactClaim(x)
      <3>1. /\ row' \in Row /\ row'.status = "queued" /\ row'.startedAt = 0
            /\ row.status = "enqueued"
        BY <1>7, <2>1, SetRowType, ZeroType DEF RevertClaim, IsExactClaim, Status
      <3>2. /\ dispatcher' = [dispatcher EXCEPT ![x] = Idle]
            /\ UNCHANGED <<msg, minted, clock, dropped, faults>>
        BY <1>7 DEF RevertClaim
      <3> QED BY <1>1, <1>2, <3>1, <3>2, WaitingKeeps
    <2>2. CASE ~IsExactClaim(x)
      BY <1>1, <1>2, <1>7, <2>2, DispatcherOnly DEF RevertClaim
    <2> QED BY <2>1, <2>2
  <1>8. CASE DispatcherStops(x)
    BY <1>1, <1>2, <1>8, FaultType, DispatcherOnly DEF DispatcherStops
  <1> QED BY <1>3, <1>4, <1>5, <1>6, <1>7, <1>8 DEF DispatcherStep

(***************************************************************************)
(* The consumers.                                                          *)
(***************************************************************************)

ConsumerTypes ==
    /\ row' \in Row /\ clock' \in Nat /\ dropped' \in BOOLEAN
    /\ faults' \in 0..MaxFaults /\ ConsumerFrame

LEMMA ConsumerKeeps ==
  ASSUME IInv, NEW m \in Msgs, OnlyMsg(m), ConsumerTypes, JobInv'
  PROVE  IInv'
  BY DEF IInv, TypeOK, OnlyMsg, ConsumerTypes, ConsumerFrame

\* A consumer that comes to rest and leaves the row.
LEMMA RestKeeps ==
  ASSUME IInv, NEW m \in Msgs, NEW at \in Nat, at <= clock, Rests(m, at),
         dropped' \in BOOLEAN, faults' \in 0..MaxFaults,
         UNCHANGED <<row, clock>>, ConsumerFrame
  PROVE  IInv'
  <1>1. JobInv'
    BY RestingStep
  <1>2. ConsumerTypes
    BY DEF ConsumerTypes, IInv, TypeOK
  <1> QED BY <1>1, <1>2, ConsumerKeeps DEF Rests

LEMMA SeenAtKnown ==
  ASSUME IInv, NEW m \in Msgs
  PROVE  msg[m].seenAt \in Nat /\ msg[m].seenAt <= clock
  BY DEF IInv, TypeOK, Msg, JobInv, Times

LEMMA StartedAtKnown ==
  ASSUME IInv
  PROVE  row.startedAt \in Nat /\ row.startedAt <= clock /\ 0 <= clock
  BY DEF IInv, TypeOK, Row, JobInv, Times

LEMMA ReceiveKeeps ==
  ASSUME IInv, NEW m \in Msgs, ReceiveMessage(m)
  PROVE  IInv'
  <1>1. TypeOK
    BY DEF IInv
  <1>2. /\ Goes(m, "read") /\ "read" \in MsgPc
        /\ UNCHANGED <<clock, dropped, faults>> /\ ConsumerFrame
    BY DEF ReceiveMessage, Goes, MsgPc
  <1>3. Rests(m, msg[m].seenAt)
    BY <1>1, <1>2, GoesEffect DEF Rests, Working
  <1>4. CASE row.status = "none"
    <2>1. row' \in Row /\ row'.status = "enqueued" /\ row'.startedAt = 0
      BY <1>4, SetRowType, ZeroType DEF ReceiveMessage, Status
    <2>2. Idlers
      BY <1>4, WaitingIsIdle
    <2>3. JobInv'
      BY <1>2, <1>3, <2>1, <2>2, SeenAtKnown, StartedAtKnown, RowAndMsgStep DEF Idlers
    <2>4. ConsumerTypes
      BY <1>1, <1>2, <2>1 DEF ConsumerTypes, TypeOK
    <2> QED BY <1>3, <2>3, <2>4, ConsumerKeeps DEF Rests
  <1>5. CASE row.status # "none"
    <2>1. UNCHANGED row
      BY <1>5 DEF ReceiveMessage
    <2> QED BY <1>1, <1>2, <1>3, <2>1, SeenAtKnown, RestKeeps DEF TypeOK
  <1> QED BY <1>4, <1>5

LEMMA ReadKeeps ==
  ASSUME IInv, NEW m \in Msgs, ReadJob(m)
  PROVE  IInv'
  <1>1. TypeOK /\ JobInv
    BY DEF IInv
  <1>2. UNCHANGED <<row, clock, dropped, faults>> /\ ConsumerFrame
    BY DEF ReadJob
  <1>3. CASE Ack(m)
    BY <1>1, <1>2, <1>3, AckRests, StartedAtKnown, RestKeeps, ZeroType DEF TypeOK
  <1>4. CASE RetryAt(m, row.startedAt)
    BY <1>1, <1>2, <1>4, RetryRests, StartedAtKnown, RestKeeps DEF TypeOK
  <1>5. CASE /\ \/ row.status = "queued"
                \/ row.status = "enqueued" /\ row.token \in {0, m[1]}
                \/ row.status = "running" /\ row.token = m[1] /\ row.stale
             /\ msg' = [msg EXCEPT ![m].pc = "claim", ![m].seen = row.status,
                                   ![m].seenToken = row.token,
                                   ![m].seenAt = row.startedAt]
    <2>1. /\ row.status \in Status /\ row.token \in 0..MaxDeliveries
          /\ row.startedAt \in Nat /\ row.startedAt <= clock
          /\ msg \in [Msgs -> Msg] /\ msg[m] \in Msg
      BY <1>1, StartedAtKnown DEF TypeOK, Row
    <2> DEFINE new == [msg[m] EXCEPT !.pc = "claim", !.seen = row.status,
                                     !.seenToken = row.token, !.seenAt = row.startedAt]
    <2>2. /\ new \in Msg /\ new.pc = "claim" /\ new.seen = row.status
          /\ new.seenAt = row.startedAt
      BY <2>1 DEF Msg, MsgPc
    <2>3. msg' = [msg EXCEPT ![m] = new]
      BY <1>5
    <2> HIDE DEF new
    <2>4. OnlyMsg(m) /\ msg'[m] = new
      BY <2>1, <2>2, <2>3 DEF OnlyMsg
    <2>5. "claim" \notin Working
      BY DEF Working
    <2>6. Times' /\ RunningIsTimed' /\ SeesClaimable'
      BY <1>1, <1>2, <1>5, <2>1, <2>2, <2>4
         DEF JobInv, Times, RunningIsTimed, SeesClaimable, OnlyMsg
    <2>7. TakesOverStale'
      BY <1>1, <1>2, <1>5, <2>2, <2>4 DEF JobInv, TakesOverStale, OnlyMsg
    <2>8. AtWorkHolds' /\ OneAtWork'
      BY <1>1, <1>2, <2>2, <2>4, <2>5
         DEF JobInv, AtWorkHolds, OneAtWork, HoldsClaim, OnlyMsg
    <2>9. JobInv'
      BY <2>6, <2>7, <2>8 DEF JobInv
    <2>10. ConsumerTypes
      BY <1>1, <1>2 DEF ConsumerTypes, TypeOK
    <2> QED BY <2>4, <2>9, <2>10, ConsumerKeeps
  <1> QED BY <1>3, <1>4, <1>5 DEF ReadJob

\* The claim: nobody is at work, and no other copy can take over the new one.
LEMMA ClaimKeeps ==
  ASSUME IInv, NEW m \in Msgs, ClaimJob(m)
  PROVE  IInv'
  <1>1. TypeOK /\ JobInv
    BY DEF IInv
  <1>2. msg[m].pc = "claim" /\ UNCHANGED <<dropped, faults>> /\ ConsumerFrame
    BY DEF ClaimJob
  <1>3. CASE ~IsPriorState(m)
    BY <1>1, <1>2, <1>3, AckRests, StartedAtKnown, RestKeeps, ZeroType DEF ClaimJob, TypeOK
  <1>4. CASE IsPriorState(m)
    <2>1. clock' = clock + 1 /\ SetRow("running", m[1], clock + 1) /\ Goes(m, "handle")
      BY <1>4 DEF ClaimJob, Goes
    <2>2. clock \in Nat /\ clock + 1 \in Nat /\ m[1] \in 0..MaxDeliveries
      BY <1>1 DEF TypeOK, Msgs, Deliveries
    <2>3. /\ row' \in Row /\ row'.status = "running" /\ row'.token = m[1]
          /\ row'.startedAt = clock + 1 /\ ~row'.stale
      BY <2>1, <2>2, SetRowType DEF Status
    <2>4. /\ OnlyMsg(m) /\ msg'[m].pc = "handle" /\ msg'[m].seenAt = msg[m].seenAt
      BY <1>1, <2>1, GoesEffect DEF MsgPc
    <2>5. Idlers
      <3>1. msg[m].seen \in {"queued", "enqueued", "running"} /\ row.status = msg[m].seen
        BY <1>1, <1>2, <1>4 DEF JobInv, SeesClaimable, IsPriorState
      <3>2. row.status = "running" => row.stale
        BY <1>1, <1>2, <1>4, <3>1 DEF JobInv, TakesOverStale, IsPriorState
      <3> QED BY <3>1, <3>2, WaitingIsIdle
    <2>6. \A n \in Msgs : msg'[n].seenAt = msg[n].seenAt /\ msg[n].seenAt \in Nat
                          /\ msg[n].seenAt <= clock
      BY <2>4, SeenAtKnown DEF OnlyMsg
    <2>7. Times' /\ RunningIsTimed'
      BY <2>1, <2>2, <2>3, <2>6 DEF Times, RunningIsTimed
    <2>8. SeesClaimable'
      BY <1>1, <2>4 DEF JobInv, SeesClaimable, OnlyMsg
    <2>9. TakesOverStale'
      <3>1. \A n \in Msgs : row'.startedAt # msg'[n].seenAt
        BY <2>2, <2>3, <2>6
      <3> QED BY <3>1 DEF TakesOverStale
    <2>10. AtWorkHolds' /\ OneAtWork'
      BY <2>3, <2>4, <2>5 DEF AtWorkHolds, OneAtWork, HoldsClaim, OnlyMsg, Idlers
    <2>11. JobInv'
      BY <2>7, <2>8, <2>9, <2>10 DEF JobInv
    <2>12. ConsumerTypes
      BY <1>1, <1>2, <2>1, <2>2, <2>3 DEF ConsumerTypes, TypeOK
    <2> QED BY <2>4, <2>11, <2>12, ConsumerKeeps
  <1> QED BY <1>3, <1>4

LEMMA HandleKeeps ==
  ASSUME IInv, NEW m \in Msgs, HandlerReturns(m) \/ HandlerFails(m)
  PROVE  IInv'
  <1>1. TypeOK
    BY DEF IInv
  <1>2. /\ msg[m].pc \in Working \ {"release"}
        /\ faults' \in 0..MaxFaults
        /\ UNCHANGED <<row, clock, dropped>> /\ ConsumerFrame
    BY <1>1, FaultType DEF HandlerReturns, HandlerFails, Working, TypeOK
  <1>3. PICK pc \in {"complete", "fail", "release"} : Goes(m, pc)
    BY DEF HandlerReturns, HandlerFails, Goes
  <1>4. pc \in Working /\ pc \in MsgPc
    BY DEF Working, MsgPc
  <1>5. JobInv'
    BY <1>2, <1>3, <1>4, WorkingStep
  <1>6. OnlyMsg(m)
    BY <1>1, <1>3, <1>4, GoesEffect
  <1>7. ConsumerTypes
    BY <1>1, <1>2 DEF ConsumerTypes, TypeOK
  <1> QED BY <1>5, <1>6, <1>7, ConsumerKeeps

\* Beside a consumer at work there is no other.
LEMMA AtWorkIsAlone ==
  ASSUME IInv, NEW m \in Msgs, msg[m].pc \in Working
  PROVE  \A n \in Msgs \ {m} : msg[n].pc \notin Working
  BY DEF IInv, JobInv, OneAtWork

LEMMA FinishKeeps ==
  ASSUME IInv, NEW m \in Msgs, FinishJob(m)
  PROVE  IInv'
  <1>1. TypeOK
    BY DEF IInv
  <1>2. /\ msg[m].pc \in Working /\ UNCHANGED <<clock, dropped, faults>> /\ ConsumerFrame
    BY DEF FinishJob, Working
  <1>3. CASE HoldsClaim(m)
    <2>1. PICK status \in Terminal : EndRow(status)
      BY <1>3 DEF FinishJob, Terminal
    <2>2. row' \in Row /\ row'.status = status /\ row'.startedAt = row.startedAt
      BY <1>1, <2>1, EndRowType
    <2>3. Rests(m, 0)
      BY <1>1, <1>3, AckRests DEF FinishJob
    <2>4. row'.status # "running" /\ row'.startedAt <= clock /\ 0 <= clock
      BY <2>2, StartedAtKnown DEF Terminal
    <2>5. JobInv'
      BY <1>2, <2>3, <2>4, ZeroType, AtWorkIsAlone, RowAndMsgStep
    <2>6. ConsumerTypes
      BY <1>1, <1>2, <2>2 DEF ConsumerTypes, TypeOK
    <2> QED BY <2>3, <2>5, <2>6, ConsumerKeeps DEF Rests
  <1>4. CASE ~HoldsClaim(m)
    <2>1. RetryAt(m, 0) /\ UNCHANGED row
      BY <1>4 DEF FinishJob, Retry
    <2> QED BY <1>1, <1>2, <2>1, RetryRests, ZeroType, StartedAtKnown, RestKeeps DEF TypeOK
  <1> QED BY <1>3, <1>4

LEMMA FinishThrowsKeeps ==
  ASSUME IInv, NEW m \in Msgs, FinishThrows(m)
  PROVE  IInv'
  <1>1. TypeOK /\ JobInv
    BY DEF IInv
  <1>2. /\ msg[m].pc \in Working \ {"release"} /\ faults' \in 0..MaxFaults
        /\ UNCHANGED <<clock, dropped>> /\ ConsumerFrame /\ Goes(m, "release")
    BY <1>1, FaultType DEF FinishThrows, Working, Goes
  <1>3. /\ OnlyMsg(m) /\ msg'[m].pc = "release" /\ msg'[m].seenAt = msg[m].seenAt
    BY <1>1, <1>2, GoesEffect DEF MsgPc
  <1>4. CASE UNCHANGED row
    <2>1. JobInv'
      BY <1>2, <1>4, WorkingStep DEF Working
    <2>2. ConsumerTypes
      BY <1>1, <1>2, <1>4 DEF ConsumerTypes, TypeOK
    <2> QED BY <1>3, <2>1, <2>2, ConsumerKeeps
  <1>5. CASE \E status \in Terminal : EndRow(status)
    <2>1. PICK status \in Terminal : EndRow(status)
      BY <1>5
    <2>2. row' \in Row /\ row'.status \in Terminal /\ row'.startedAt = row.startedAt
      BY <1>1, <2>1, EndRowType
    <2>3. \A n \in Msgs \ {m} : msg'[n] = msg[n] /\ msg[n].pc \notin Working
      BY <1>2, <1>3, AtWorkIsAlone DEF OnlyMsg
    <2>4. row'.status # "running"
      BY <2>2 DEF Terminal
    <2>5. Times' /\ RunningIsTimed' /\ SeesClaimable' /\ TakesOverStale'
      BY <1>1, <1>2, <1>3, <2>2, <2>3, <2>4
         DEF JobInv, Times, RunningIsTimed, SeesClaimable, TakesOverStale
    <2>6. AtWorkHolds' /\ OneAtWork'
      BY <1>3, <2>2, <2>3 DEF AtWorkHolds, OneAtWork
    <2>7. JobInv'
      BY <2>5, <2>6 DEF JobInv
    <2>8. ConsumerTypes
      BY <1>1, <1>2, <2>2 DEF ConsumerTypes, TypeOK
    <2> QED BY <1>3, <2>7, <2>8, ConsumerKeeps
  <1> QED BY <1>4, <1>5 DEF FinishThrows, Terminal

LEMMA ReleaseKeeps ==
  ASSUME IInv, NEW m \in Msgs, ReleaseJob(m)
  PROVE  IInv'
  <1>1. TypeOK
    BY DEF IInv
  <1>2. /\ msg[m].pc \in Working /\ RetryAt(m, 0)
        /\ UNCHANGED <<clock, dropped, faults>> /\ ConsumerFrame
    BY DEF ReleaseJob, Working, Retry
  <1>3. Rests(m, 0) /\ 0 <= clock
    BY <1>1, <1>2, RetryRests, ZeroType, StartedAtKnown
  <1>4. CASE HoldsClaim(m)
    <2>1. row' \in Row /\ row'.status = "enqueued" /\ row'.startedAt = 0
      BY <1>4, SetRowType, ZeroType DEF ReleaseJob, Status
    <2>2. JobInv'
      BY <1>2, <1>3, <2>1, ZeroType, AtWorkIsAlone, RowAndMsgStep
    <2>3. ConsumerTypes
      BY <1>1, <1>2, <2>1 DEF ConsumerTypes, TypeOK
    <2> QED BY <1>3, <2>2, <2>3, ConsumerKeeps DEF Rests
  <1>5. CASE ~HoldsClaim(m)
    BY <1>1, <1>2, <1>3, <1>5, ZeroType, RestKeeps DEF ReleaseJob, TypeOK
  <1> QED BY <1>4, <1>5

LEMMA StopKeeps ==
  ASSUME IInv, NEW m \in Msgs, ConsumerStops(m)
  PROVE  IInv'
  <1>1. TypeOK
    BY DEF IInv
  <1>2. /\ RetryAt(m, 0) /\ faults' \in 0..MaxFaults
        /\ UNCHANGED <<row, clock, dropped>> /\ ConsumerFrame
    BY <1>1, FaultType DEF ConsumerStops, Retry
  <1> QED BY <1>1, <1>2, RetryRests, ZeroType, StartedAtKnown, RestKeeps DEF TypeOK

(***************************************************************************)
(* The dead letters.                                                       *)
(***************************************************************************)

LEMMA RetryDeadRests ==
  ASSUME TypeOK, NEW m \in Msgs, NEW at \in Nat, RetryDeadAt(m, at)
  PROVE  (Rests(m, at) \/ Rests(m, 0)) /\ dropped' \in BOOLEAN
  <1>1. CASE msg[m].tries < MaxDlqRetries
    <2> DEFINE new == [msg[m] EXCEPT !.pc = "dead", !.tries = msg[m].tries + 1,
                                     !.seenAt = at]
    <2>1. /\ msg \in [Msgs -> Msg] /\ msg[m] \in Msg /\ msg[m].tries + 1 \in Nat
      BY DEF TypeOK, Msg
    <2>2. new \in Msg /\ new.pc = "dead" /\ new.seenAt = at
      BY <2>1 DEF Msg, MsgPc
    <2>3. msg' = [msg EXCEPT ![m] = new] /\ dropped' = dropped
      BY <1>1, <2>1 DEF RetryDeadAt
    <2> HIDE DEF new
    <2>4. OnlyMsg(m) /\ msg'[m] = new
      BY <2>1, <2>2, <2>3 DEF OnlyMsg
    <2> QED BY <2>2, <2>3, <2>4 DEF Rests, Working, TypeOK
  <1>2. CASE ~(msg[m].tries < MaxDlqRetries)
    BY <1>2, AckRests DEF RetryDeadAt
  <1> QED BY <1>1, <1>2

LEMMA DeadKeeps ==
  ASSUME IInv, NEW m \in Msgs, ReadDead(m) \/ CommitDead(m) \/ DlqStops(m)
  PROVE  IInv'
  <1>1. TypeOK
    BY DEF IInv
  <1>2. CASE ReadDead(m)
    <2>1. UNCHANGED <<row, clock, faults>> /\ ConsumerFrame
      BY <1>2 DEF ReadDead
    <2>2. CASE RetryDeadAt(m, row.startedAt)
      BY <1>1, <2>1, <2>2, RetryDeadRests, ZeroType, StartedAtKnown, RestKeeps DEF TypeOK
    <2>3. CASE Goes(m, "dlqCommit") /\ UNCHANGED dropped
      <3>1. Rests(m, msg[m].seenAt)
        BY <1>1, <2>3, GoesEffect DEF Rests, Working, MsgPc
      <3> QED BY <1>1, <2>1, <2>3, <3>1, SeenAtKnown, RestKeeps DEF TypeOK
    <2> QED BY <1>2, <2>2, <2>3 DEF ReadDead, Goes
  <1>3. CASE CommitDead(m)
    <2>1. /\ UNCHANGED <<clock, dropped, faults>> /\ ConsumerFrame /\ Rests(m, 0)
          /\ msg[m].pc \notin Working /\ 0 <= clock
      BY <1>1, <1>3, AckRests, StartedAtKnown DEF CommitDead, Working
    <2>2. CASE FailedByDlq(m)
      <3>1. row' \in Row /\ row'.status = "failed" /\ row'.startedAt = row.startedAt
        BY <1>1, <1>3, <2>2, EndRowType DEF CommitDead, Terminal
      <3>2. Idlers
        <4>1. row.status = "running" => row.startedAt # 0
          BY DEF IInv, JobInv, RunningIsTimed
        <4> QED BY <2>2, <4>1, WaitingIsIdle DEF FailedByDlq, HoldsClaim, IsOverdue
      <3>3. JobInv'
        BY <2>1, <3>1, <3>2, ZeroType, StartedAtKnown, RowAndMsgStep DEF Idlers
      <3>4. ConsumerTypes
        BY <1>1, <2>1, <3>1 DEF ConsumerTypes, TypeOK
      <3> QED BY <2>1, <3>3, <3>4, ConsumerKeeps DEF Rests
    <2>3. CASE ~FailedByDlq(m)
      BY <1>1, <1>3, <2>1, <2>3, ZeroType, RestKeeps DEF CommitDead, TypeOK
    <2> QED BY <2>2, <2>3
  <1>4. CASE DlqStops(m)
    <2>1. RetryDeadAt(m, 0) /\ faults' \in 0..MaxFaults /\ UNCHANGED <<row, clock>>
          /\ ConsumerFrame
      BY <1>1, <1>4, FaultType DEF DlqStops
    <2> QED BY <1>1, <2>1, RetryDeadRests, ZeroType, StartedAtKnown, RestKeeps
  <1> QED BY <1>2, <1>3, <1>4

(***************************************************************************)
(* Time and the queue.                                                     *)
(***************************************************************************)

LEMMA TimeKeeps ==
  ASSUME IInv, Elapse \/ Delay
  PROVE  IInv'
  <1>1. TypeOK /\ JobInv
    BY DEF IInv
  <1>2. /\ row' = [row EXCEPT !.stale = TRUE] /\ faults' \in 0..MaxFaults
        /\ UNCHANGED <<dispatcher, msg, minted, clock, dropped>>
    BY <1>1, FaultType DEF Elapse, Delay, TypeOK
  <1>3. /\ row' \in Row /\ row'.stale /\ row'.status = row.status
        /\ row'.token = row.token /\ row'.startedAt = row.startedAt
    BY <1>1, <1>2, StaleType
  <1>4. \A m \in Msgs : msg[m].pc \in Working => ~HoldsClaim(m)
    BY <1>1 DEF Elapse, Delay, Ages, HoldsClaim
  <1>5. Times' /\ RunningIsTimed' /\ SeesClaimable' /\ TakesOverStale'
    BY <1>1, <1>2, <1>3
       DEF JobInv, Times, RunningIsTimed, SeesClaimable, TakesOverStale
  <1>6. AtWorkHolds' /\ OneAtWork'
    BY <1>1, <1>2, <1>3, <1>4 DEF JobInv, AtWorkHolds, OneAtWork
  <1> QED BY <1>1, <1>2, <1>3, <1>5, <1>6 DEF IInv, JobInv, TypeOK

LEMMA DuplicateKeeps ==
  ASSUME IInv, NEW d \in Deliveries, Duplicate(d)
  PROVE  IInv'
  <1> DEFINE m == <<d, 1>>  n == <<d, 2>>
  <1>1. TypeOK /\ m \in Msgs /\ n \in Msgs
    BY DEF IInv, Msgs
  <1>2. /\ msg[m].pc = "waiting" /\ msg' = [msg EXCEPT ![n] = msg[m]]
        /\ faults' \in 0..MaxFaults
        /\ UNCHANGED <<row, dispatcher, minted, clock, dropped>>
    BY <1>1, FaultType DEF Duplicate
  <1> HIDE DEF m, n
  <1>3. Rests(n, msg[m].seenAt)
    BY <1>1, <1>2 DEF TypeOK, Rests, OnlyMsg, Working
  <1> QED BY <1>1, <1>2, <1>3, SeenAtKnown, RestKeeps DEF TypeOK, ConsumerFrame

(***************************************************************************)
(* The theorems.                                                           *)
(***************************************************************************)

LEMMA InitIInv == Init => IInv
  <1> SUFFICES ASSUME Init PROVE IInv
    OBVIOUS
  <1>1. /\ row = [status |-> "none", token |-> 0, startedAt |-> 0, stale |-> FALSE]
        /\ dispatcher = [x \in Dispatchers |-> Idle] /\ msg = [m \in Msgs |-> NoMsg]
        /\ minted = 0 /\ clock = 0 /\ dropped = FALSE /\ faults = 0
    BY DEF Init
  <1>2. row \in Row /\ 0 \in 0..MaxFaults
    BY <1>1, ZeroType, IndexAssumption DEF Row, Status
  <1>3. TypeOK
    BY <1>1, <1>2, NoMsgType, IdleType, ZeroType DEF TypeOK
  <1>4. \A m \in Msgs : msg[m].pc = "none" /\ msg[m].seenAt = 0
    BY <1>1 DEF NoMsg
  <1>5. row.startedAt = 0 /\ row.status = "none"
    BY <1>1
  <1>6. JobInv
    BY <1>1, <1>4, <1>5
       DEF JobInv, Times, RunningIsTimed, SeesClaimable, TakesOverStale, AtWorkHolds,
           OneAtWork, Working
  <1> QED BY <1>3, <1>6 DEF IInv

LEMMA NextIInv == IInv /\ [Next]_vars => IInv'
  <1> SUFFICES ASSUME IInv, [Next]_vars PROVE IInv'
    OBVIOUS
  <1>1. CASE CommitOutboxRow \/ SendFollowUp
    BY <1>1, OriginKeeps
  <1>2. ASSUME NEW x \in Dispatchers, SelectJob(x) \/ DispatcherStep(x)
        PROVE  IInv'
    BY <1>2, DispatcherKeeps
  <1>3. ASSUME NEW m \in Msgs, ConsumerStep(m)
        PROVE  IInv'
    BY <1>3, ReceiveKeeps, ReadKeeps, ClaimKeeps, HandleKeeps, FinishKeeps,
       ReleaseKeeps, DeadKeeps DEF ConsumerStep
  <1>4. CASE FaultStep
    BY <1>4, DispatcherKeeps, HandleKeeps, FinishThrowsKeeps, StopKeeps, DeadKeeps,
       DuplicateKeeps, TimeKeeps DEF FaultStep
  <1>5. CASE Elapse
    BY <1>5, TimeKeeps
  <1>6. CASE UNCHANGED vars
    <2>1. UNCHANGED <<row, msg, minted, clock, dropped, dispatcher, faults>>
      BY <1>6 DEF vars
    <2> QED BY <2>1, DispatcherOnly DEF IInv, TypeOK
  <1> QED BY <1>1, <1>2, <1>3, <1>4, <1>5, <1>6 DEF Next

THEOREM SpecIInv == Spec => []IInv
  BY InitIInv, NextIInv, PTL DEF Spec

\* Every variable of the index job keeps its type.
THEOREM IndexTypeCorrect == Spec => []TypeOK
  <1>1. IInv => TypeOK
    BY DEF IInv
  <1> QED BY SpecIInv, <1>1, PTL

\* The consumer at work on the job holds its row and is the only one, however
\* many deliveries, copies, sweeps, retries and dead letters there are.
THEOREM WorkIsExclusive == Spec => []HandlerOwnsJob
  <1>1. IInv => HandlerOwnsJob
    BY DEF IInv, JobInv, AtWorkHolds, OneAtWork, HandlerOwnsJob
  <1> QED BY SpecIInv, <1>1, PTL

\* No step changes the row of a finished job.
LEMMA NextKeepsOutcome == IInv /\ [Next]_vars => (row.status \in Terminal => row' = row)
  <1> SUFFICES ASSUME IInv, [Next]_vars, row.status \in Terminal PROVE row' = row
    OBVIOUS
  <1>1. row.status \notin {"none", "queued", "enqueued", "running"}
    BY DEF Terminal
  <1>2. CASE CommitOutboxRow \/ SendFollowUp \/ Elapse
    BY <1>1, <1>2 DEF CommitOutboxRow, SendFollowUp, Elapse, Ages
  <1>3. ASSUME NEW x \in Dispatchers, SelectJob(x) \/ DispatcherStep(x)
        PROVE  row' = row
    BY <1>1, <1>3
       DEF SelectJob, DispatcherStep, ClaimForDelivery, SendDelivery, RevertClaim,
           Dispatchable, IsExactClaim
  <1>4. ASSUME NEW m \in Msgs, ConsumerStep(m)
        PROVE  row' = row
    <2>1. CASE ClaimJob(m)
      <3>1. ~IsPriorState(m)
        BY <1>1, <2>1 DEF IInv, JobInv, SeesClaimable, ClaimJob, IsPriorState
      <3> QED BY <2>1, <3>1 DEF ClaimJob
    <2>2. CASE ReceiveMessage(m) \/ ReadJob(m) \/ HandlerReturns(m) \/ ReadDead(m)
      BY <1>1, <2>2 DEF ReceiveMessage, ReadJob, HandlerReturns, ReadDead
    <2>3. CASE FinishJob(m) \/ ReleaseJob(m) \/ CommitDead(m)
      BY <1>1, <2>3 DEF FinishJob, ReleaseJob, CommitDead, FailedByDlq, HoldsClaim
    <2> QED BY <1>4, <2>1, <2>2, <2>3 DEF ConsumerStep
  <1>5. CASE FaultStep
    BY <1>1, <1>5
       DEF FaultStep, SendThrows, DispatcherStops, HandlerFails, FinishThrows,
           ConsumerStops, DlqStops, Duplicate, Delay, Ages, HoldsClaim
  <1>6. CASE UNCHANGED vars
    BY <1>6 DEF vars
  <1> QED BY <1>2, <1>3, <1>4, <1>5, <1>6 DEF Next

\* The outcome of a job is never changed: neither by a late copy or a dead
\* letter, nor by the sweep.
THEOREM JobOutcomeIsFinal == Spec => OutcomeIsFinal
  <1>1. IInv /\ [Next]_vars => [row.status \in Terminal => row' = row]_row
    BY NextKeepsOutcome
  <1> QED BY SpecIInv, <1>1, PTL DEF Spec, OutcomeIsFinal
=============================================================================

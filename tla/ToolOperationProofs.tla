------------------------ MODULE ToolOperationProofs -------------------------
(***************************************************************************)
(* ToolOperations runs the effect of an operation key at most once, for     *)
(* every number of keys, tools, requests, leases and faults, provided the   *)
(* write that records a success is not lost (~LostSuccess).                 *)
(*                                                                         *)
(* The invariant says who may stand behind a row.  A request that runs or   *)
(* records its handler owns the row of its key, which is pending, fenced or *)
(* settled, never failed (OwnsRow); a row seen as failed or abandoned keeps *)
(* its id and can only be settled as it was seen (SawSettledRow); a missing *)
(* or failed row means that the effect has not happened, unless the run is  *)
(* over and nobody can insert again (RowTellsEffect).                       *)
(*                                                                         *)
(* From it: what is answered is what happened (TruthInv, with RowMoves: a    *)
(* row is completed only by the request that ran the handler), and an       *)
(* outcome declared unknown stays unknown.                                  *)
(***************************************************************************)
EXTENDS ToolOperations, TLAPS

Holding == {"run", "record", "recordError", "recordUncertain"}
Finished == {"done", "gone"}

\* The row of a key and the history of its effect.
RowTellsEffect(k) ==
    /\ effects[k] <= 1
    /\ op[k].status = "absent" =>
         /\ op[k].id = None
         /\ effects[k] = 0 \/ (ended /\ \A q \in Requests : ~Active(q))
    /\ op[k].status # "absent" =>
         /\ op[k].id \in Requests
         /\ request[op[k].id].pc \in Holding \cup Finished
    /\ op[k].status = "failed" =>
         effects[k] = 0 /\ request[op[k].id].pc \in Finished
    /\ op[k].status = "pending" /\ op[k].old => request[op[k].id].pc \in Finished

\* What a request between insert and answer knows of its row.
OwnsRow(q) ==
    LET k == request[q].key IN
    request[q].pc \in Holding =>
        /\ op[k].id = q
        /\ op[k].status \in {"pending", "uncertain", "completed"}
        /\ op[k].status = "completed" => request[q].pc = "recordError"
        /\ request[q].pc = "run" => effects[k] = 0
        /\ request[q].pc = "recordError" /\ op[k].status = "pending" => effects[k] = 0

\* What a request that saw a failed or abandoned row still knows of it.
SawSettledRow(q) ==
    LET k == request[q].key IN
    request[q].pc \in {"delete", "expire"} =>
        /\ request[q].seen \in Requests
        /\ request[request[q].seen].pc \in Finished
        /\ op[k].id = request[q].seen =>
             IF request[q].pc = "delete" THEN op[k].status = "failed"
             ELSE op[k].status \in {"pending", "uncertain"}

HasKey(q) == request[q].pc # "new" => request[q].key \in Keys

IInv ==
    /\ TypeOK
    /\ \A k \in Keys : RowTellsEffect(k)
    /\ \A q \in Requests : HasKey(q) /\ OwnsRow(q) /\ SawSettledRow(q)

(***************************************************************************)
(* Building blocks.                                                        *)
(***************************************************************************)

LEMMA GotoEffect ==
  ASSUME TypeOK, NEW q \in Requests, NEW pc \in Pc, Goto(q, pc)
  PROVE  /\ request' \in [Requests -> Request]
         /\ request'[q].pc = pc /\ request'[q].key = request[q].key
         /\ request'[q].seen = request[q].seen
         /\ request'[q].answer = request[q].answer
         /\ \A p \in Requests \ {q} : request'[p] = request[p]
  <1>1. request \in [Requests -> Request]
    BY DEF TypeOK
  <1>2. request' = [request EXCEPT ![q].pc = pc]
    BY DEF Goto
  <1> QED BY <1>1, <1>2 DEF Request

LEMMA ReturnEffect ==
  ASSUME TypeOK, NEW q \in Requests, NEW a \in Answer, Return(q, a)
  PROVE  /\ request' \in [Requests -> Request]
         /\ request'[q].pc = "done" /\ request'[q].key = request[q].key
         /\ \A p \in Requests \ {q} : request'[p] = request[p]
  <1>1. request \in [Requests -> Request] /\ "done" \in Pc
    BY DEF TypeOK, Pc
  <1>2. PICK b \in {a} \cup LeaseLost(q) :
          request' = [request EXCEPT ![q] = [@ EXCEPT !.pc = "done", !.answer = b]]
    BY DEF Return
  <1>3. b \in Answer
    BY DEF LeaseLost, Answer
  <1> QED BY <1>1, <1>2, <1>3 DEF Request

LEMMA SettleEffect ==
  ASSUME TypeOK, NEW q \in Requests, NEW s \in Status, request[q].key \in Keys,
         Settle(q, s)
  PROVE  /\ op' \in [Keys -> Op]
         /\ \A k \in Keys : \/ op'[k] = op[k]
                            \/ /\ k = request[q].key /\ op[k].id = q
                               /\ op[k].status = "pending"
                               /\ op'[k].status = s /\ op'[k].id = q
                               /\ op'[k].old = op[k].old
  <1>1. op \in [Keys -> Op]
    BY DEF TypeOK
  <1>2. CASE op' = op
    BY <1>1, <1>2
  <1>3. CASE op' # op
    <2>1. /\ op' = [op EXCEPT ![request[q].key].status = s]
          /\ op[request[q].key].id = q /\ op[request[q].key].status = "pending"
      BY <1>3 DEF Settle
    <2> QED BY <1>1, <2>1 DEF Op
  <1> QED BY <1>2, <1>3

(***************************************************************************)
(* The step of a request, seen from the rows and from the other requests:   *)
(* the parts of the invariant that a step of q on the row of its key keeps. *)
(***************************************************************************)

\* A request that only moves its own counter to a place that claims nothing.
LEMMA QuietStep ==
  ASSUME IInv, TypeOK', NEW q \in Requests, UNCHANGED <<op, effects, ended>>,
         request[q].pc \notin Finished,
         \A p \in Requests \ {q} : request'[p] = request[p],
         request'[q].pc \notin {"delete", "expire"},
         request'[q].pc \in Holding => request[q].pc \in Holding /\ OwnsRow(q)',
         request[q].pc \in Holding => request'[q].pc \in Holding \cup Finished,
         ended /\ ~Active(q) => ~Active(q)',
         HasKey(q)'
  PROVE  IInv'
  <1>1. ASSUME NEW k \in Keys PROVE RowTellsEffect(k)'
    BY <1>1 DEF IInv, RowTellsEffect, Active, Finished, Holding
  <1>2. ASSUME NEW p \in Requests PROVE HasKey(p)' /\ OwnsRow(p)' /\ SawSettledRow(p)'
    <2>1. CASE p = q
      BY <2>1 DEF IInv, OwnsRow, SawSettledRow, HasKey
    <2>2. CASE p # q
      BY <2>2 DEF IInv, OwnsRow, SawSettledRow, HasKey, Finished
    <2> QED BY <2>1, <2>2
  <1> QED BY <1>1, <1>2 DEF IInv

\* A request writes the outcome of its row and answers, or goes on to record an
\* error after a success that was recorded.
LEMMA SettleStep ==
  ASSUME IInv, TypeOK', NEW q \in Requests, NEW s \in {"completed", "failed", "uncertain"},
         request[q].pc \in Holding, request[q].key \in Keys, Settle(q, s),
         UNCHANGED <<effects, ended>>,
         \A p \in Requests \ {q} : request'[p] = request[p],
         request'[q].key = request[q].key,
         \/ request'[q].pc = "done" /\ (s = "failed" => request[q].pc = "recordError")
         \/ request'[q].pc = "recordError" /\ s = "completed"
  PROVE  IInv'
  <1> DEFINE K == request[q].key
  <1>1. \A k \in Keys : \/ op'[k] = op[k]
                        \/ /\ k = K /\ op[k].id = q /\ op[k].status = "pending"
                           /\ op'[k].status = s /\ op'[k].id = q
                           /\ op'[k].old = op[k].old
    BY SettleEffect DEF IInv, Status
  <1>2. OwnsRow(q) /\ \A k \in Keys : RowTellsEffect(k)
    BY DEF IInv
  <1>3. op[K].id = q /\ op[K].status \in {"pending", "uncertain", "completed"}
    BY <1>2 DEF OwnsRow
  <1>4. op[K].status = "pending" => op'[K].status = s
    BY <1>3 DEF Settle, IInv, TypeOK, Op
  <1> HIDE DEF K
  <1>5. ASSUME NEW k \in Keys PROVE RowTellsEffect(k)'
    <2>1. CASE op'[k] = op[k]
      <3>1. op[k].id = q => op[k].status \notin {"failed", "absent"}
        BY <1>2, NoneAssumption DEF RowTellsEffect, Holding, Finished
      <3>2. op[k].status = "pending" /\ op[k].old => op[k].id # q
        BY <1>2 DEF RowTellsEffect, Holding, Finished
      <3>3. Active(q)
        BY DEF Active, Holding
      <3> QED BY <1>2, <2>1, <3>1, <3>2, <3>3
              DEF RowTellsEffect, Holding, Finished, Active
    <2>2. CASE op'[k] # op[k]
      <3>1. /\ k = K /\ op[k].id = q /\ op[k].status = "pending"
            /\ op'[k].status = s /\ op'[k].id = q
        BY <1>1, <2>2
      <3>2. s = "failed" => effects[k] = 0
        BY <1>2, <3>1 DEF OwnsRow, K
      <3> QED BY <1>2, <3>1, <3>2 DEF RowTellsEffect, Holding, Finished
    <2> QED BY <2>1, <2>2
  <1>6. ASSUME NEW p \in Requests PROVE HasKey(p)' /\ OwnsRow(p)' /\ SawSettledRow(p)'
    <2>1. HasKey(p) /\ OwnsRow(p) /\ SawSettledRow(p)
      BY DEF IInv
    <2>2. CASE p = q
      <3>1. request'[q].pc = "recordError" => op'[K].status # "pending" /\ op'[K].id = q
                 /\ op'[K].status \in {"uncertain", "completed"}
        BY <1>1, <1>3, <1>4 DEF K
      <3> QED BY <2>1, <2>2, <3>1 DEF HasKey, OwnsRow, SawSettledRow, Holding, K
    <2>3. CASE p # q
      <3>1. request[p].pc \in Holding \cup {"delete", "expire"} => request[p].key \in Keys
        BY <2>1 DEF HasKey, Holding
      <3>2. OwnsRow(p)'
        BY <1>1, <2>1, <2>3, <3>1 DEF OwnsRow
      <3>3. SawSettledRow(p)'
        <4>1. request[p].pc \in {"delete", "expire"} => request[p].seen # q
          BY <2>1 DEF SawSettledRow, Holding, Finished
        <4> QED BY <1>1, <2>1, <2>3, <3>1, <4>1 DEF SawSettledRow
      <3> QED BY <2>1, <2>3, <3>2, <3>3 DEF HasKey
    <2> QED BY <2>2, <2>3
  <1> QED BY <1>5, <1>6 DEF IInv

(***************************************************************************)
(* Every action.                                                           *)
(***************************************************************************)

LEMMA ToolInit == Init => IInv
  <1> SUFFICES ASSUME Init PROVE IInv
    OBVIOUS
  <1>1. TypeOK
    <2>1. op \in [Keys -> Op]
      BY DEF Init, NoOp, Op, Status
    <2>2. request \in [Requests -> Request]
      BY BoundsAssumption DEF Init, Request, Pc, Answer
    <2>3. lease \in 0..MaxLease /\ dispatched \in 0..MaxLease /\ faults \in 0..MaxFaults
      BY BoundsAssumption DEF Init
    <2>4. effects \in [Keys -> Nat] /\ ended \in BOOLEAN
      BY DEF Init
    <2> QED BY <2>1, <2>2, <2>3, <2>4 DEF TypeOK
  <1>2. \A k \in Keys : RowTellsEffect(k)
    <2> SUFFICES ASSUME NEW k \in Keys PROVE RowTellsEffect(k)
      OBVIOUS
    <2>1. op[k].status = "absent" /\ op[k].id = None /\ effects[k] = 0
      BY DEF Init, NoOp
    <2> QED BY <2>1 DEF RowTellsEffect
  <1>3. \A q \in Requests : HasKey(q) /\ OwnsRow(q) /\ SawSettledRow(q)
    BY DEF Init, HasKey, OwnsRow, SawSettledRow, Holding
  <1> QED BY <1>1, <1>2, <1>3 DEF IInv

LEMMA RunStepInv == ASSUME IInv, RunNext PROVE IInv'
  <1>1. TypeOK
    BY DEF IInv
  <1>2. UNCHANGED <<request, effects, faults>>
    BY DEF RunNext, Claim, FenceAndDispatch, EndRun, CleanupOperation,
           PendingAges, RunFrame
  <1>3. CASE Claim
    <2>1. TypeOK'
      BY <1>1, <1>2, <1>3, BoundsAssumption DEF Claim, TypeOK
    <2> QED BY <1>2, <1>3, <2>1 DEF Claim, IInv, RowTellsEffect, HasKey, OwnsRow,
               SawSettledRow, Active
  <1>4. CASE EndRun
    <2>1. TypeOK'
      BY <1>1, <1>2, <1>4 DEF EndRun, TypeOK
    <2> QED BY <1>2, <1>4, <2>1 DEF EndRun, IInv, RowTellsEffect, HasKey, OwnsRow,
               SawSettledRow, Active
  <1>5. CASE FenceAndDispatch
    <2>1. \A k \in Keys : \/ op'[k] = op[k] /\ op[k].status # "pending"
                          \/ /\ op[k].status = "pending" /\ op'[k].status = "uncertain"
                             /\ op'[k].id = op[k].id /\ op'[k] \in Op
      BY <1>1, <1>5 DEF FenceAndDispatch, TypeOK, Op, Status
    <2>2. TypeOK'
      <3>1. op' \in [Keys -> Op]
        BY <1>1, <1>5, <2>1 DEF FenceAndDispatch, TypeOK
      <3> QED BY <1>1, <1>2, <1>5, <3>1 DEF FenceAndDispatch, TypeOK
    <2>3. ASSUME NEW k \in Keys PROVE RowTellsEffect(k)'
      BY <1>2, <1>5, <2>1 DEF FenceAndDispatch, IInv, RowTellsEffect, Active
    <2>4. ASSUME NEW p \in Requests PROVE HasKey(p)' /\ OwnsRow(p)' /\ SawSettledRow(p)'
      BY <1>2, <2>1 DEF IInv, HasKey, OwnsRow, SawSettledRow, Holding
    <2> QED BY <2>2, <2>3, <2>4 DEF IInv
  <1>6. ASSUME NEW k \in Keys, CleanupOperation(k) PROVE IInv'
    <2>1. op' = [op EXCEPT ![k] = NoOp] /\ ended /\ ended' = ended
          /\ lease' = lease /\ dispatched' = dispatched
      BY <1>6 DEF CleanupOperation
    <2>2. TypeOK'
      <3>1. NoOp \in Op
        BY DEF NoOp, Op, Status
      <3> QED BY <1>1, <1>2, <2>1, <3>1 DEF TypeOK
    <2>3. ASSUME NEW j \in Keys PROVE RowTellsEffect(j)'
      BY <1>1, <1>2, <1>6, <2>1
      DEF CleanupOperation, TypeOK, IInv, RowTellsEffect, NoOp, Active
    <2>4. ASSUME NEW p \in Requests PROVE HasKey(p)' /\ OwnsRow(p)' /\ SawSettledRow(p)'
      BY <1>2, <1>6 DEF CleanupOperation, Active, IInv, HasKey, OwnsRow,
                        SawSettledRow, Holding
    <2> QED BY <2>2, <2>3, <2>4 DEF IInv
  <1>7. ASSUME NEW k \in Keys, PendingAges(k) PROVE IInv'
    <2>1. /\ op' = [op EXCEPT ![k].old = TRUE] /\ ended' = ended
          /\ lease' = lease /\ dispatched' = dispatched
      BY <1>7 DEF PendingAges
    <2>2. \A j \in Keys : op'[j].status = op[j].status /\ op'[j].id = op[j].id
                          /\ (j # k => op'[j] = op[j]) /\ op'[j] \in Op
      BY <1>1, <2>1 DEF TypeOK, Op
    <2>3. TypeOK'
      <3>1. op' \in [Keys -> Op]
        BY <1>1, <2>1, <2>2 DEF TypeOK
      <3> QED BY <1>1, <1>2, <2>1, <3>1 DEF TypeOK
    <2>4. request[op[k].id].pc \in Finished
      BY <1>7 DEF PendingAges, IInv, RowTellsEffect, Active, Holding, Finished
    <2>5. ASSUME NEW j \in Keys PROVE RowTellsEffect(j)'
      BY <1>2, <2>1, <2>2, <2>4 DEF IInv, RowTellsEffect, Active
    <2>6. ASSUME NEW p \in Requests PROVE HasKey(p)' /\ OwnsRow(p)' /\ SawSettledRow(p)'
      BY <1>2, <2>2 DEF IInv, HasKey, OwnsRow, SawSettledRow, Holding
    <2> QED BY <2>3, <2>5, <2>6 DEF IInv
  <1> QED BY <1>3, <1>4, <1>5, <1>6, <1>7 DEF RunNext

LEMMA CheckStepInv ==
  ASSUME IInv, NEW q \in Requests, CheckOperation(q)
  PROVE  IInv'
  <1> DEFINE k == request[q].key
             row == op[k]
  <1>1. /\ TypeOK /\ k \in Keys /\ request[q].pc = "check" /\ RowTellsEffect(k)
        /\ UNCHANGED <<op, effects, faults, lease, dispatched, ended>>
    BY DEF CheckOperation, RequestFrame, IInv, HasKey
  <1>2. CASE Goto(q, "insert")
    <2>1. TypeOK' /\ request'[q].pc = "insert" /\ request'[q].key = k
          /\ \A p \in Requests \ {q} : request'[p] = request[p]
      BY <1>1, <1>2, GotoEffect DEF TypeOK, Pc
    <2> QED BY <1>1, <2>1, QuietStep DEF HasKey, Holding, Finished, Active
  <1>3. CASE \E a \in Answer : Return(q, a)
    <2>1. TypeOK' /\ request'[q].pc = "done" /\ request'[q].key = k
          /\ \A p \in Requests \ {q} : request'[p] = request[p]
      BY <1>1, <1>3, ReturnEffect DEF TypeOK
    <2> QED BY <1>1, <2>1, QuietStep DEF HasKey, Holding, Finished, Active
  <1>4. CASE /\ row.status \in {"failed", "pending"}
             /\ row.status = "pending" => row.old
             /\ request' = [request EXCEPT ![q] =
                  [@ EXCEPT !.pc = IF row.status = "failed" THEN "delete" ELSE "expire",
                            !.seen = row.id]]
    <2>1. row.id \in Requests /\ request[row.id].pc \in Finished /\ row.id # q
      BY <1>1, <1>4 DEF RowTellsEffect, Finished
    <2> HIDE DEF row
    <2>2. /\ request' \in [Requests -> Request]
          /\ request'[q].pc = (IF row.status = "failed" THEN "delete" ELSE "expire")
          /\ request'[q].key = k /\ request'[q].seen = row.id
          /\ \A p \in Requests \ {q} : request'[p] = request[p]
      <3> DEFINE pc == IF row.status = "failed" THEN "delete" ELSE "expire"
      <3>1. /\ request \in [Requests -> Request] /\ pc \in Pc
            /\ request' = [request EXCEPT ![q] = [@ EXCEPT !.pc = pc, !.seen = row.id]]
        BY <1>1, <1>4 DEF TypeOK, Pc
      <3> HIDE DEF pc
      <3>2. [request[q] EXCEPT !.pc = pc, !.seen = row.id] \in Request
        BY <2>1, <3>1, ZenonT(60) DEF Request
      <3>3. /\ request'[q] = [request[q] EXCEPT !.pc = pc, !.seen = row.id]
            /\ request' \in [Requests -> Request]
            /\ \A p \in Requests \ {q} : request'[p] = request[p]
        BY <3>1, <3>2
      <3>4. request'[q].pc = pc /\ request'[q].key = k /\ request'[q].seen = row.id
        BY <3>1, <3>3, SMTT(60) DEF Request
      <3> QED BY <3>3, <3>4 DEF pc
    <2>3. TypeOK'
      BY <1>1, <2>2 DEF TypeOK
    <2>4. ASSUME NEW j \in Keys PROVE RowTellsEffect(j)'
      <3>1. RowTellsEffect(j)
        BY DEF IInv
      <3>2. op[j].status # "absent" => op[j].id # q
        BY <1>1, <3>1 DEF RowTellsEffect, Holding, Finished
      <3>3. Active(q)
        BY <1>1 DEF Active
      <3> QED BY <1>1, <2>2, <3>1, <3>2, <3>3 DEF RowTellsEffect, Active
    <2>5. ASSUME NEW p \in Requests PROVE HasKey(p)' /\ OwnsRow(p)' /\ SawSettledRow(p)'
      <3>1. CASE p = q
        <4>1. request'[row.id] = request[row.id]
          BY <2>1, <2>2
        <4> QED BY <1>1, <1>4, <2>1, <2>2, <3>1, <4>1
                DEF HasKey, OwnsRow, SawSettledRow, Holding, row
      <3>2. CASE p # q
        <4>1. request'[p] = request[p] /\ HasKey(p) /\ OwnsRow(p) /\ SawSettledRow(p)
          BY <2>2, <3>2 DEF IInv
        <4>2. request[p].pc \in {"delete", "expire"} => request[p].seen # q
          BY <1>1, <4>1 DEF SawSettledRow, Finished
        <4> QED BY <1>1, <2>2, <4>1, <4>2 DEF HasKey, OwnsRow, SawSettledRow
      <3> QED BY <3>1, <3>2
    <2> QED BY <2>3, <2>4, <2>5 DEF IInv
  <1>5. row.status \in Status
    BY <1>1 DEF TypeOK, Op
  <1>6. CachedAnswer(q, row) \in Answer
        /\ (CachedAnswer(q, row) = "none" => row.status \notin {"completed", "uncertain"})
    BY <1>5 DEF CachedAnswer, Answer
  <1> QED
    <2>1. \/ Goto(q, "insert")
          \/ Return(q, CachedAnswer(q, row)) \/ Return(q, "uncertain")
          \/ /\ row.status # "absent" /\ CachedAnswer(q, row) = "none"
             /\ row.status = "failed" \/ row.old
             /\ request' = [request EXCEPT ![q] =
                  [@ EXCEPT !.pc = IF row.status = "failed" THEN "delete" ELSE "expire",
                            !.seen = row.id]]
      BY DEF CheckOperation
    <2>2. "uncertain" \in Answer
      BY DEF Answer
    <2> HIDE DEF row
    <2> QED BY <1>2, <1>3, <1>4, <1>5, <1>6, <2>1, <2>2 DEF Status

LEMMA DeleteStepInv ==
  ASSUME IInv, NEW q \in Requests, DeleteFailed(q)
  PROVE  IInv'
  <1> DEFINE K == request[q].key
  <1>1. /\ TypeOK /\ K \in Keys /\ request[q].pc = "delete" /\ SawSettledRow(q)
        /\ RowTellsEffect(K)
        /\ UNCHANGED <<effects, faults, lease, dispatched, ended>>
    BY DEF DeleteFailed, RequestFrame, IInv, HasKey
  <1>2. /\ request' \in [Requests -> Request]
        /\ request'[q].pc = "insert" /\ request'[q].key = K
        /\ \A p \in Requests \ {q} : request'[p] = request[p]
    BY <1>1, GotoEffect DEF DeleteFailed, Pc
  <1>3. CASE op' = op
    <2>1. TypeOK'
      BY <1>1, <1>2, <1>3 DEF TypeOK
    <2> QED BY <1>1, <1>2, <1>3, <2>1, QuietStep DEF HasKey, Holding, Finished, Active
  <1>4. CASE op' # op
    <2>1. op' = [op EXCEPT ![K] = NoOp] /\ op[K].id = request[q].seen
      BY <1>4 DEF DeleteFailed, IsSeenRow
    <2>2. op[K].status = "failed" /\ effects[K] = 0 /\ op[K].id \in Requests
          /\ request[op[K].id].pc \in Finished
      BY <1>1, <2>1 DEF SawSettledRow, RowTellsEffect
    <2> HIDE DEF K
    <2>3. op'[K] = NoOp /\ \A j \in Keys \ {K} : op'[j] = op[j]
      BY <1>1, <2>1 DEF TypeOK
    <2>4. TypeOK'
      <3>1. NoOp \in Op
        BY DEF NoOp, Op, Status
      <3>2. op' \in [Keys -> Op]
        BY <1>1, <2>1, <3>1 DEF TypeOK
      <3> QED BY <1>1, <1>2, <3>2 DEF TypeOK
    <2>5. ASSUME NEW j \in Keys PROVE RowTellsEffect(j)'
      <3>1. CASE j = K
        BY <1>1, <2>2, <2>3, <3>1 DEF RowTellsEffect, NoOp
      <3>2. CASE j # K
        <4>1. RowTellsEffect(j) /\ op'[j] = op[j]
          BY <2>3, <3>2 DEF IInv
        <4>2. op[j].status # "absent" => op[j].id # q
          BY <1>1, <4>1 DEF RowTellsEffect, Holding, Finished
        <4>3. Active(q)
          BY <1>1 DEF Active
        <4> QED BY <1>1, <1>2, <4>1, <4>2, <4>3 DEF RowTellsEffect, Active
      <3> QED BY <3>1, <3>2
    <2>6. ASSUME NEW p \in Requests PROVE HasKey(p)' /\ OwnsRow(p)' /\ SawSettledRow(p)'
      <3>1. CASE p = q
        BY <1>1, <1>2, <3>1 DEF HasKey, OwnsRow, SawSettledRow, Holding, K
      <3>2. CASE p # q
        <4>1. request'[p] = request[p] /\ HasKey(p) /\ OwnsRow(p) /\ SawSettledRow(p)
          BY <1>2, <3>2 DEF IInv
        <4>2. request[p].pc \in Holding => request[p].key # K
          BY <2>2, <4>1 DEF OwnsRow, Holding, Finished
        <4>3. request[p].pc \in Holding \cup {"delete", "expire"} => request[p].key \in Keys
          BY <4>1 DEF HasKey, Holding
        <4>4. OwnsRow(p)'
          BY <1>1, <2>3, <4>1, <4>2, <4>3 DEF OwnsRow
        <4>5. SawSettledRow(p)'
          <5>1. request[p].pc \in {"delete", "expire"} =>
                  /\ request'[request[p].seen] = request[request[p].seen]
                  /\ request[p].seen # None
            BY <1>1, <1>2, <4>1, NoneAssumption DEF SawSettledRow, Finished
          <5> QED BY <2>3, <4>1, <4>3, <5>1 DEF SawSettledRow, NoOp
        <4> QED BY <4>1, <4>4, <4>5 DEF HasKey
      <3> QED BY <3>1, <3>2
    <2> QED BY <2>4, <2>5, <2>6 DEF IInv
  <1> QED BY <1>3, <1>4

LEMMA ExpireStepInv ==
  ASSUME IInv, NEW q \in Requests, ExpirePending(q)
  PROVE  IInv'
  <1> DEFINE K == request[q].key
  <1>1. /\ TypeOK /\ K \in Keys /\ request[q].pc = "expire" /\ SawSettledRow(q)
        /\ RowTellsEffect(K)
        /\ UNCHANGED <<effects, faults, lease, dispatched, ended>>
    BY DEF ExpirePending, RequestFrame, IInv, HasKey
  <1>2. /\ request' \in [Requests -> Request]
        /\ request'[q].pc = "done" /\ request'[q].key = K
        /\ \A p \in Requests \ {q} : request'[p] = request[p]
    BY <1>1, ReturnEffect DEF ExpirePending, Answer
  <1>3. CASE op' = op
    <2>1. TypeOK'
      BY <1>1, <1>2, <1>3 DEF TypeOK
    <2> QED BY <1>1, <1>2, <1>3, <2>1, QuietStep DEF HasKey, Holding, Finished, Active
  <1>4. CASE op' # op
    <2>1. op' = [op EXCEPT ![K].status = "uncertain"] /\ op[K].id = request[q].seen
      BY <1>4 DEF ExpirePending, IsSeenRow
    <2>2. op[K].status \in {"pending", "uncertain"} /\ op[K].id \in Requests
          /\ request[op[K].id].pc \in Finished
      BY <1>1, <2>1 DEF SawSettledRow
    <2> HIDE DEF K
    <2>3. /\ op'[K].status = "uncertain" /\ op'[K].id = op[K].id
          /\ op' \in [Keys -> Op]
          /\ \A j \in Keys \ {K} : op'[j] = op[j]
      BY <1>1, <2>1 DEF TypeOK, Op, Status
    <2>4. TypeOK'
      BY <1>1, <1>2, <2>3 DEF TypeOK
    <2>5. ASSUME NEW j \in Keys PROVE RowTellsEffect(j)'
      <3>1. RowTellsEffect(j)
        BY DEF IInv
      <3>2. op[j].status # "absent" => op[j].id # q
        BY <1>1, <3>1 DEF RowTellsEffect, Holding, Finished
      <3>3. CASE j = K
        BY <1>1, <1>2, <2>2, <2>3, <3>1, <3>2, <3>3 DEF RowTellsEffect
      <3>4. CASE j # K
        <4>1. op'[j] = op[j] /\ Active(q)
          BY <1>1, <2>3, <3>4 DEF Active
        <4> QED BY <1>1, <1>2, <3>1, <3>2, <4>1 DEF RowTellsEffect, Active
      <3> QED BY <3>3, <3>4
    <2>6. ASSUME NEW p \in Requests PROVE HasKey(p)' /\ OwnsRow(p)' /\ SawSettledRow(p)'
      <3>1. CASE p = q
        BY <1>1, <1>2, <3>1 DEF HasKey, OwnsRow, SawSettledRow, Holding, K
      <3>2. CASE p # q
        <4>1. request'[p] = request[p] /\ HasKey(p) /\ OwnsRow(p) /\ SawSettledRow(p)
          BY <1>2, <3>2 DEF IInv
        <4>2. request[p].pc \in Holding => request[p].key # K
          BY <2>2, <4>1 DEF OwnsRow, Holding, Finished
        <4>3. request[p].pc \in Holding \cup {"delete", "expire"} => request[p].key \in Keys
          BY <4>1 DEF HasKey, Holding
        <4>4. OwnsRow(p)'
          BY <1>1, <2>3, <4>1, <4>2, <4>3 DEF OwnsRow
        <4>5. SawSettledRow(p)'
          <5>1. request[p].pc \in {"delete", "expire"} =>
                  request'[request[p].seen] = request[request[p].seen]
            BY <1>1, <1>2, <4>1 DEF SawSettledRow, Finished
          <5>2. request[p].pc = "delete" /\ request[p].key = K =>
                  op[K].id # request[p].seen
            BY <2>2, <4>1 DEF SawSettledRow
          <5> QED BY <2>3, <4>1, <4>3, <5>1, <5>2 DEF SawSettledRow
        <4> QED BY <4>1, <4>4, <4>5 DEF HasKey
      <3> QED BY <3>1, <3>2
    <2> QED BY <2>4, <2>5, <2>6 DEF IInv
  <1> QED BY <1>3, <1>4

LEMMA InsertStepInv ==
  ASSUME IInv, NEW q \in Requests, InsertPending(q)
  PROVE  IInv'
  <1> DEFINE K == request[q].key
  <1>1. /\ TypeOK /\ K \in Keys /\ request[q].pc = "insert" /\ RowTellsEffect(K)
        /\ UNCHANGED <<effects, faults, lease, dispatched, ended>>
    BY DEF InsertPending, RequestFrame, IInv, HasKey
  <1>2. CASE op[K].status # "absent"
    <2>1. op' = op /\ TypeOK' /\ request'[q].pc = "recheck" /\ request'[q].key = K
          /\ \A p \in Requests \ {q} : request'[p] = request[p]
      BY <1>1, <1>2, GotoEffect DEF InsertPending, TypeOK, Pc
    <2> QED BY <1>1, <2>1, QuietStep DEF HasKey, Holding, Finished, Active
  <1>3. CASE op[K].status = "absent"
    <2> DEFINE new == [status |-> "pending", id |-> q, tool |-> request[q].tool,
                       old |-> FALSE]
    <2>1. effects[K] = 0
      BY <1>1, <1>3 DEF RowTellsEffect, Active
    <2>2. /\ request' \in [Requests -> Request]
          /\ request'[q].pc = "run" /\ request'[q].key = K
          /\ \A p \in Requests \ {q} : request'[p] = request[p]
      BY <1>1, <1>3, GotoEffect DEF InsertPending, Pc
    <2>3. op' = [op EXCEPT ![K] = new]
      BY <1>3 DEF InsertPending
    <2>4. new \in Op
      BY <1>1 DEF TypeOK, Request, Op, Status
    <2> HIDE DEF K
    <2>5. op' \in [Keys -> Op] /\ op'[K] = new /\ \A j \in Keys \ {K} : op'[j] = op[j]
      <3> HIDE DEF new
      <3> QED BY <1>1, <2>3, <2>4 DEF TypeOK
    <2>6. TypeOK'
      BY <1>1, <2>2, <2>5 DEF TypeOK
    <2>7. ASSUME NEW j \in Keys PROVE RowTellsEffect(j)'
      <3>1. CASE j = K
        BY <1>1, <2>1, <2>2, <2>5, <3>1 DEF RowTellsEffect, Holding
      <3>2. CASE j # K
        <4>1. RowTellsEffect(j) /\ op'[j] = op[j]
          BY <2>5, <3>2 DEF IInv
        <4>2. op[j].status # "absent" => op[j].id # q
          BY <1>1, <4>1 DEF RowTellsEffect, Holding, Finished
        <4>3. Active(q)
          BY <1>1 DEF Active
        <4> QED BY <1>1, <2>2, <4>1, <4>2, <4>3 DEF RowTellsEffect, Active
      <3> QED BY <3>1, <3>2
    <2>8. ASSUME NEW p \in Requests PROVE HasKey(p)' /\ OwnsRow(p)' /\ SawSettledRow(p)'
      <3>1. CASE p = q
        BY <1>1, <2>1, <2>2, <2>5, <3>1 DEF HasKey, OwnsRow, SawSettledRow, Holding
      <3>2. CASE p # q
        <4>1. request'[p] = request[p] /\ HasKey(p) /\ OwnsRow(p) /\ SawSettledRow(p)
          BY <2>2, <3>2 DEF IInv
        <4>2. request[p].pc \in Holding => request[p].key # K
          BY <1>3, <4>1 DEF OwnsRow
        <4>3. request[p].pc \in Holding \cup {"delete", "expire"} => request[p].key \in Keys
          BY <4>1 DEF HasKey, Holding
        <4>4. OwnsRow(p)'
          BY <1>1, <2>5, <4>1, <4>2, <4>3 DEF OwnsRow
        <4>5. SawSettledRow(p)'
          <5>1. request[p].pc \in {"delete", "expire"} =>
                  /\ request'[request[p].seen] = request[request[p].seen]
                  /\ request[p].seen # q
            BY <1>1, <2>2, <4>1 DEF SawSettledRow, Finished
          <5> QED BY <2>5, <4>1, <4>3, <5>1 DEF SawSettledRow
        <4> QED BY <4>1, <4>4, <4>5 DEF HasKey
      <3> QED BY <3>1, <3>2
    <2> QED BY <2>6, <2>7, <2>8 DEF IInv
  <1> QED BY <1>2, <1>3

LEMMA HandlerStepInv ==
  ASSUME IInv, NEW q \in Requests, RunHandler(q)
  PROVE  IInv'
  <1> DEFINE K == request[q].key
  <1>1. /\ TypeOK /\ K \in Keys /\ request[q].pc = "run" /\ RowTellsEffect(K)
        /\ OwnsRow(q)
        /\ UNCHANGED <<op, faults, lease, dispatched, ended>>
    BY DEF RunHandler, RequestFrame, IInv, HasKey
  <1>2. /\ effects[K] = 0 /\ op[K].id = q
        /\ op[K].status \in {"pending", "uncertain"}
    BY <1>1 DEF OwnsRow, Holding
  <1>3. PICK next \in {"record", "recordError", "recordUncertain"},
             happened \in {0, 1} :
               /\ next = "recordError" => happened = 0
               /\ Goto(q, next)
               /\ effects' = [effects EXCEPT ![K] = @ + happened]
    BY DEF RunHandler
  <1>4. /\ request' \in [Requests -> Request]
        /\ request'[q].pc = next /\ request'[q].key = K
        /\ \A p \in Requests \ {q} : request'[p] = request[p]
    BY <1>1, <1>3, GotoEffect DEF Pc
  <1> HIDE DEF K
  <1>5. /\ effects' \in [Keys -> Nat] /\ effects'[K] = happened
        /\ \A j \in Keys \ {K} : effects'[j] = effects[j]
    BY <1>1, <1>2, <1>3 DEF TypeOK
  <1>6. TypeOK'
    BY <1>1, <1>4, <1>5 DEF TypeOK
  <1>7. ASSUME NEW j \in Keys PROVE RowTellsEffect(j)'
    <2>1. RowTellsEffect(j)
      BY DEF IInv
    <2>2. CASE j = K
      BY <1>1, <1>2, <1>4, <1>5, <2>1, <2>2 DEF RowTellsEffect, Holding, Finished
    <2>3. CASE j # K
      <3>1. Active(q) /\ effects'[j] = effects[j]
        BY <1>1, <1>5, <2>3 DEF Active
      <3>2. op[j].id = q => op[j].status # "failed" /\ ~(op[j].status = "pending" /\ op[j].old)
        BY <1>1, <2>1 DEF RowTellsEffect, Finished
      <3> QED BY <1>1, <1>4, <2>1, <3>1, <3>2 DEF RowTellsEffect, Active, Holding
    <2> QED BY <2>2, <2>3
  <1>8. ASSUME NEW p \in Requests PROVE HasKey(p)' /\ OwnsRow(p)' /\ SawSettledRow(p)'
    <2>1. CASE p = q
      BY <1>1, <1>2, <1>3, <1>4, <1>5, <2>1 DEF HasKey, OwnsRow, SawSettledRow, Holding
    <2>2. CASE p # q
      <3>1. request'[p] = request[p] /\ HasKey(p) /\ OwnsRow(p) /\ SawSettledRow(p)
        BY <1>4, <2>2 DEF IInv
      <3>2. request[p].pc \in Holding => request[p].key \in Keys \ {K}
        BY <1>2, <2>2, <3>1 DEF OwnsRow, HasKey, Holding
      <3>3. request[p].pc \in {"delete", "expire"} =>
              request'[request[p].seen] = request[request[p].seen]
        BY <1>1, <1>4, <3>1 DEF SawSettledRow, Finished
      <3> QED BY <1>1, <1>5, <3>1, <3>2, <3>3 DEF HasKey, OwnsRow, SawSettledRow
    <2> QED BY <2>1, <2>2
  <1> QED BY <1>6, <1>7, <1>8 DEF IInv

LEMMA RequestStepInv ==
  ASSUME ~LostSuccess, IInv, RequestNext
  PROVE  IInv'
  <1>1. PICK q \in Requests :
          \/ \E k \in Keys, t \in Tools, v \in 1..MaxLease : CallTool(q, k, t, v)
          \/ RequestStep(q) \/ RecordSuccessThrows(q) \/ RecordThrows(q)
          \/ RequestDies(q)
    BY DEF RequestNext
  <1>2. TypeOK /\ HasKey(q)
    BY DEF IInv
  <1>3. ASSUME NEW k \in Keys, NEW t \in Tools, NEW v \in 1..MaxLease,
               CallTool(q, k, t, v)
        PROVE  IInv'
    <2>1. v \in 0..MaxLease
      BY BoundsAssumption
    <2>2. /\ request' \in [Requests -> Request]
          /\ request'[q].pc = "lease" /\ request'[q].key = k
          /\ \A p \in Requests \ {q} : request'[p] = request[p]
      BY <1>2, <1>3, <2>1, ZenonT(60) DEF CallTool, TypeOK, Request, Pc
    <2>3. TypeOK'
      BY <1>2, <1>3, <2>2 DEF CallTool, RequestFrame, TypeOK
    <2> QED BY <1>3, <2>2, <2>3, QuietStep
            DEF CallTool, RequestFrame, HasKey, Holding, Finished, Active
  <1>4. CASE EnsureRunLease(q)
    <2>1. CASE Goto(q, "check") /\ ~ended
      <3>1. request'[q].pc = "check" /\ request'[q].key = request[q].key
            /\ request' \in [Requests -> Request]
            /\ \A p \in Requests \ {q} : request'[p] = request[p]
        BY <1>2, <2>1, GotoEffect DEF Pc
      <3>2. TypeOK'
        BY <1>2, <1>4, <3>1 DEF EnsureRunLease, RequestFrame, TypeOK
      <3> QED BY <1>2, <1>4, <2>1, <3>1, <3>2, QuietStep
              DEF EnsureRunLease, RequestFrame, HasKey, Holding, Finished
    <2>2. CASE Return(q, "refused")
      <3>1. request'[q].pc = "done" /\ request'[q].key = request[q].key
            /\ request' \in [Requests -> Request]
            /\ \A p \in Requests \ {q} : request'[p] = request[p]
        BY <1>2, <2>2, ReturnEffect DEF Answer
      <3>2. TypeOK'
        BY <1>2, <1>4, <3>1 DEF EnsureRunLease, RequestFrame, TypeOK
      <3> QED BY <1>2, <1>4, <3>1, <3>2, QuietStep
              DEF EnsureRunLease, RequestFrame, HasKey, Holding, Finished, Active
    <2> QED BY <1>4, <2>1, <2>2 DEF EnsureRunLease, IsRunLease
  <1>5. CASE RaceCheck(q)
    <2>1. PICK a \in Answer : Return(q, a)
      BY <1>5 DEF RaceCheck, CachedAnswer, Answer
    <2>2. request'[q].pc = "done" /\ request'[q].key = request[q].key
          /\ request' \in [Requests -> Request]
          /\ \A p \in Requests \ {q} : request'[p] = request[p]
      BY <1>2, <2>1, ReturnEffect
    <2>3. TypeOK'
      BY <1>2, <1>5, <2>2 DEF RaceCheck, RequestFrame, TypeOK
    <2> QED BY <1>2, <1>5, <2>2, <2>3, QuietStep
            DEF RaceCheck, RequestFrame, HasKey, Holding, Finished, Active
  <1>6. CASE RecordThrows(q)
    <2>1. PICK a \in Answer : Return(q, a)
      BY <1>6 DEF RecordThrows, Answer
    <2>2. request'[q].pc = "done" /\ request'[q].key = request[q].key
          /\ request' \in [Requests -> Request]
          /\ \A p \in Requests \ {q} : request'[p] = request[p]
      BY <1>2, <2>1, ReturnEffect
    <2>3. TypeOK'
      BY <1>2, <1>6, <2>2, BoundsAssumption DEF RecordThrows, Fault, RequestFrame, TypeOK
    <2> QED BY <1>2, <1>6, <2>2, <2>3, QuietStep
            DEF RecordThrows, RequestFrame, HasKey, Holding, Finished, Active
  <1>7. CASE RequestDies(q)
    <2>1. request'[q].pc = "gone" /\ request'[q].key = request[q].key
          /\ request' \in [Requests -> Request]
          /\ \A p \in Requests \ {q} : request'[p] = request[p]
      BY <1>2, <1>7, GotoEffect DEF RequestDies, Pc
    <2>2. TypeOK'
      BY <1>2, <1>7, <2>1, BoundsAssumption DEF RequestDies, Fault, RequestFrame, TypeOK
    <2> QED BY <1>2, <1>7, <2>1, <2>2, QuietStep
            DEF RequestDies, RequestFrame, HasKey, Holding, Finished, Active
  <1>8. CASE RecordSuccess(q) \/ RecordUncertain(q) \/ RecordError(q)
    <2>1. PICK s \in {"completed", "failed", "uncertain"}, a \in Answer :
            /\ Settle(q, s) /\ Return(q, a) /\ request[q].pc \in Holding
            /\ s = "failed" => request[q].pc = "recordError"
      BY <1>8 DEF RecordSuccess, RecordUncertain, RecordError, Answer, Holding
    <2>2. request[q].key \in Keys
      BY <1>2, <2>1 DEF HasKey, Holding
    <2>3. request'[q].pc = "done" /\ request'[q].key = request[q].key
          /\ request' \in [Requests -> Request]
          /\ \A p \in Requests \ {q} : request'[p] = request[p]
      BY <1>2, <2>1, ReturnEffect
    <2>4. op' \in [Keys -> Op]
      BY <1>2, <2>1, <2>2, SettleEffect DEF Status
    <2>5. UNCHANGED <<effects, faults, lease, dispatched, ended>>
      BY <1>8 DEF RecordSuccess, RecordUncertain, RecordError, RequestFrame
    <2>6. TypeOK'
      BY <1>2, <2>3, <2>4, <2>5 DEF TypeOK
    <2> QED BY <2>1, <2>2, <2>3, <2>5, <2>6, SettleStep
  <1>9. CASE RecordSuccessThrows(q)
    <2>1. /\ Settle(q, "completed") /\ Goto(q, "recordError")
          /\ request[q].pc \in Holding
      BY <1>9 DEF RecordSuccessThrows, Holding
    <2>2. request[q].key \in Keys
      BY <1>2, <2>1 DEF HasKey, Holding
    <2>3. request'[q].pc = "recordError" /\ request'[q].key = request[q].key
          /\ request' \in [Requests -> Request]
          /\ \A p \in Requests \ {q} : request'[p] = request[p]
      BY <1>2, <2>1, GotoEffect DEF Pc
    <2>4. op' \in [Keys -> Op]
      BY <1>2, <2>1, <2>2, SettleEffect DEF Status
    <2>5. /\ UNCHANGED <<effects, lease, dispatched, ended>>
          /\ faults' \in 0..MaxFaults
      BY <1>2, <1>9, BoundsAssumption
      DEF RecordSuccessThrows, RequestFrame, Fault, TypeOK
    <2>6. TypeOK'
      BY <1>2, <2>3, <2>4, <2>5 DEF TypeOK
    <2> QED BY <2>1, <2>2, <2>3, <2>5, <2>6, SettleStep
  <1> QED BY <1>1, <1>3, <1>4, <1>5, <1>6, <1>7, <1>8, <1>9, CheckStepInv,
             DeleteStepInv, ExpireStepInv, InsertStepInv, HandlerStepInv
          DEF RequestStep

LEMMA ToolInvariance ==
  ASSUME ~LostSuccess
  PROVE  Spec => []IInv
  <1>1. IInv /\ [Next]_vars => IInv'
    <2>1. ASSUME IInv, UNCHANGED vars PROVE IInv'
      BY <2>1 DEF vars, IInv, TypeOK, RowTellsEffect, HasKey, OwnsRow,
                  SawSettledRow, Active
    <2> QED BY <2>1, RunStepInv, RequestStepInv DEF Next
  <1> QED BY <1>1, ToolInit, PTL DEF Spec

\* The effect of an operation key happens at most once, for any number of
\* duplicate or racing requests, takeovers, crashes and retries.
THEOREM AtMostOnce ==
  ASSUME ~LostSuccess
  PROVE  Spec => []AtMostOnceEffect
  <1>1. IInv => AtMostOnceEffect
    BY DEF IInv, RowTellsEffect, AtMostOnceEffect
  <1> QED BY <1>1, ToolInvariance, PTL

\* The ledger's rows, the requests at work on them and the lease they check keep
\* their types, whatever is cached, raced, fenced or cleaned up.
THEOREM ToolTypeCorrect ==
  ASSUME ~LostSuccess
  PROVE  Spec => []TypeOK
  <1>1. IInv => TypeOK
    BY DEF IInv
  <1> QED BY <1>1, ToolInvariance, PTL

(***************************************************************************)
(* What requests are told.  A success is known to a request in three        *)
(* places: in a row that says completed, in a request about to record its   *)
(* handler's return, and in an answer that was given.                       *)
(***************************************************************************)

Happened(k) == effects[k] > 0

KnownSuccess(q) ==
    /\ request[q].pc = "record" => Happened(request[q].key)
    /\ request[q].answer \in {"ok", "cached"} =>
         request[q].pc = "done" /\ Happened(request[q].key)

TruthInv ==
    /\ \A k \in Keys : op[k].status = "completed" => Happened(k)
    /\ \A q \in Requests : KnownSuccess(q)

\* Only the handler of a request whose row is its own has an effect, and no
\* step takes an effect back.
LEMMA EffectsGrow ==
  ASSUME IInv, Next, NEW k \in Keys, Happened(k)
  PROVE  Happened(k)'
  <1>1. effects \in [Keys -> Nat] /\ effects[k] \in Nat
    BY DEF IInv, TypeOK
  <1>2. CASE \E q \in Requests : RunHandler(q)
    <2>1. PICK q \in Requests : RunHandler(q)
      BY <1>2
    <2>2. PICK happened \in {0, 1} :
            effects' = [effects EXCEPT ![request[q].key] = @ + happened]
      BY <2>1 DEF RunHandler
    <2>3. effects'[k] = effects[k] \/ effects'[k] = effects[k] + happened
      BY <1>1, <2>2
    <2> QED BY <1>1, <2>3 DEF Happened
  <1>3. CASE ~\E q \in Requests : RunHandler(q)
    <2>1. UNCHANGED effects
      BY <1>3 DEF Next, RunNext, Claim, FenceAndDispatch, EndRun, CleanupOperation,
         PendingAges, RunFrame, RequestNext, CallTool, RequestStep, EnsureRunLease,
         CheckOperation, DeleteFailed, ExpirePending, InsertPending, RaceCheck,
         RecordSuccess, RecordUncertain, RecordError, RecordSuccessThrows,
         RecordThrows, RequestDies
    <2> QED BY <2>1 DEF Happened
  <1> QED BY <1>2, <1>3

\* What a step may do to the status of a row: settle it on behalf of the request
\* that ran the handler, declare it unknown, or remove it.
RowMoves(k) ==
    /\ op[k].status = "uncertain" =>
         \/ op'[k].status = "uncertain"
         \/ ended /\ op'[k].status = "absent"
    /\ op'[k].status = "completed" =>
         \/ op[k].status = "completed"
         \/ \E q \in Requests : request[q].pc = "record" /\ request[q].key = k

LEMMA RunMovesRows ==
  ASSUME IInv, RunNext, NEW k \in Keys
  PROVE  RowMoves(k)
  <1>1. op \in [Keys -> Op]
    BY DEF IInv, TypeOK
  <1>2. CASE Claim \/ EndRun
    BY <1>2 DEF Claim, EndRun, RowMoves
  <1>3. CASE FenceAndDispatch
    <2>1. op'[k] = IF op[k].status = "pending"
                   THEN [op[k] EXCEPT !.status = "uncertain"] ELSE op[k]
      BY <1>3 DEF FenceAndDispatch
    <2> QED BY <1>1, <2>1 DEF RowMoves, Op
  <1>4. ASSUME NEW j \in Keys, CleanupOperation(j) PROVE RowMoves(k)
    <2>1. op'[k] = op[k] \/ (op'[k].status = "absent" /\ ended)
      BY <1>1, <1>4 DEF CleanupOperation, NoOp
    <2> QED BY <2>1 DEF RowMoves
  <1>5. ASSUME NEW j \in Keys, PendingAges(j) PROVE RowMoves(k)
    <2>1. op'[k].status = op[k].status
      BY <1>1, <1>5 DEF PendingAges, Op
    <2> QED BY <2>1 DEF RowMoves
  <1> QED BY <1>2, <1>3, <1>4, <1>5 DEF RunNext

LEMMA RequestMovesRows ==
  ASSUME ~LostSuccess, IInv, RequestNext, NEW k \in Keys
  PROVE  RowMoves(k)
  <1>1. PICK q \in Requests :
          \/ \E j \in Keys, t \in Tools, v \in 1..MaxLease : CallTool(q, j, t, v)
          \/ RequestStep(q) \/ RecordSuccessThrows(q) \/ RecordThrows(q)
          \/ RequestDies(q)
    BY DEF RequestNext
  <1>2. op \in [Keys -> Op] /\ HasKey(q) /\ SawSettledRow(q)
    BY DEF IInv, TypeOK
  <1>3. CASE DeleteFailed(q)
    <2>1. op'[k] = op[k] \/ (op[k].status = "failed" /\ op'[k].status = "absent")
      <3> DEFINE K == request[q].key
      <3>1. \/ op' = op
            \/ op' = [op EXCEPT ![K] = NoOp] /\ IsSeenRow(q)
        BY <1>3 DEF DeleteFailed
      <3>2. IsSeenRow(q) => op[K].status = "failed"
        BY <1>2, <1>3 DEF DeleteFailed, IsSeenRow, SawSettledRow
      <3>3. NoOp.status = "absent"
        BY DEF NoOp
      <3> HIDE DEF K
      <3> QED BY <1>2, <3>1, <3>2, <3>3
    <2> QED BY <2>1 DEF RowMoves
  <1>4. CASE ExpirePending(q)
    <2>1. op'[k] = op[k] \/ op'[k].status = "uncertain"
      BY <1>2, <1>4 DEF ExpirePending, Op
    <2> QED BY <2>1 DEF RowMoves
  <1>5. CASE InsertPending(q)
    <2>1. op'[k] = op[k] \/ (op[k].status = "absent" /\ op'[k].status = "pending")
      <3> DEFINE K == request[q].key
                 new == [status |-> "pending", id |-> q, tool |-> request[q].tool,
                         old |-> FALSE]
      <3>1. \/ op' = op
            \/ op[K].status = "absent" /\ op' = [op EXCEPT ![K] = new]
        BY <1>5 DEF InsertPending
      <3>2. new.status = "pending"
        OBVIOUS
      <3> HIDE DEF K, new
      <3> QED BY <1>2, <3>1, <3>2
    <2> QED BY <2>1 DEF RowMoves
  <1>6. ASSUME NEW s \in {"completed", "failed", "uncertain"}, Settle(q, s),
               request[q].pc \in Holding, s = "completed" => request[q].pc = "record"
        PROVE  RowMoves(k)
    <2>1. request[q].key \in Keys /\ s \in Status
      BY <1>2, <1>6 DEF HasKey, Holding, Status
    <2>2. \/ op'[k] = op[k]
          \/ k = request[q].key /\ op[k].status = "pending" /\ op'[k].status = s
      BY <1>6, <2>1, SettleEffect DEF IInv
    <2> QED BY <1>6, <2>2 DEF RowMoves
  <1>7. CASE RecordSuccess(q) \/ RecordSuccessThrows(q)
    BY <1>6, <1>7 DEF RecordSuccess, RecordSuccessThrows, Holding
  <1>8. CASE RecordUncertain(q) \/ RecordError(q)
    BY <1>6, <1>8 DEF RecordUncertain, RecordError, Holding
  <1>9. CASE UNCHANGED op
    BY <1>9 DEF RowMoves
  <1> QED BY <1>1, <1>3, <1>4, <1>5, <1>7, <1>8, <1>9
          DEF CallTool, RequestStep, EnsureRunLease, CheckOperation, RaceCheck,
              RunHandler, RecordThrows, RequestDies

\* What a step of q may make it believe: that its handler has returned, or
\* that its operation succeeded.
Learns(q) ==
    /\ request[q].pc # "done"
    /\ request'[q].key = request[q].key \/ request[q].pc = "new"
    /\ request'[q].pc = "record" =>
         request[q].pc = "run" /\ effects'[request[q].key] = 1
    /\ request'[q].answer \in {"ok", "cached"} =>
         \/ request'[q].answer = request[q].answer
         \/ /\ request'[q].pc = "done" /\ request[q].pc # "new"
            /\ request[q].pc = "record" \/ op[request[q].key].status = "completed"

LEMMA ReturnLearns ==
  ASSUME TypeOK, NEW q \in Requests, NEW a \in Answer, Return(q, a),
         request[q].pc \notin {"new", "done"},
         a \in {"ok", "cached"} =>
           request[q].pc = "record" \/ op[request[q].key].status = "completed"
  PROVE  Learns(q)
  <1>1. request \in [Requests -> Request] /\ request[q] \in Request
    BY DEF TypeOK
  <1>2. PICK b \in {a, "refused"} :
          request' = [request EXCEPT ![q] = [@ EXCEPT !.pc = "done", !.answer = b]]
    BY DEF Return, LeaseLost
  <1>3. /\ request'[q].key = request[q].key /\ request'[q].pc = "done"
        /\ request'[q].answer = b
    BY <1>1, <1>2 DEF Request
  <1> QED BY <1>2, <1>3 DEF Learns

LEMMA GotoLearns ==
  ASSUME TypeOK, NEW q \in Requests, NEW pc \in Pc \ {"record"}, Goto(q, pc),
         request[q].pc # "done"
  PROVE  Learns(q)
  BY GotoEffect DEF Learns

\* Each step is one of at most one request.
LEMMA RequestsLearn ==
  ASSUME IInv, RequestNext
  PROVE  \E q \in Requests :
           Learns(q) /\ \A p \in Requests \ {q} : request'[p] = request[p]
  <1>1. PICK q \in Requests :
          \/ \E j \in Keys, t \in Tools, v \in 1..MaxLease : CallTool(q, j, t, v)
          \/ RequestStep(q) \/ RecordSuccessThrows(q) \/ RecordThrows(q)
          \/ RequestDies(q)
    BY DEF RequestNext
  <1>2. TypeOK /\ HasKey(q) /\ OwnsRow(q) /\ request \in [Requests -> Request]
    BY DEF IInv, TypeOK
  <1>3. \A p \in Requests \ {q} : request'[p] = request[p]
    BY <1>1, <1>2 DEF CallTool, RequestStep, EnsureRunLease, CheckOperation,
       DeleteFailed, ExpirePending, InsertPending, RaceCheck, RunHandler,
       RecordSuccess, RecordUncertain, RecordError, RecordSuccessThrows,
       RecordThrows, RequestDies, Goto, Return
  <1> SUFFICES Learns(q)
    BY <1>3
  <1>4. ASSUME NEW j \in Keys, NEW t \in Tools, NEW v \in 1..MaxLease,
               CallTool(q, j, t, v)
        PROVE  Learns(q)
    <2>1. request' = [request EXCEPT ![q] =
            [@ EXCEPT !.pc = "lease", !.key = j, !.tool = t, !.lease = v]]
          /\ request[q].pc = "new"
      BY <1>4 DEF CallTool
    <2>2. request'[q].pc = "lease" /\ request'[q].answer = request[q].answer
      BY <1>2, <2>1 DEF Request
    <2> QED BY <2>1, <2>2 DEF Learns
  <1>5. CASE EnsureRunLease(q)
    BY <1>2, <1>5, GotoLearns, ReturnLearns DEF EnsureRunLease, Pc, Answer
  <1>6. CASE CheckOperation(q)
    <2> DEFINE row == op[request[q].key]
    <2>1. /\ CachedAnswer(q, row) \in Answer
          /\ CachedAnswer(q, row) \in {"ok", "cached"} => row.status = "completed"
      BY DEF CachedAnswer, Answer
    <2>2. /\ request[q].pc = "check"
          /\ \/ Goto(q, "insert") \/ Return(q, CachedAnswer(q, row))
             \/ Return(q, "uncertain")
             \/ \E pc \in {"delete", "expire"} :
                  request' = [request EXCEPT ![q] = [@ EXCEPT !.pc = pc, !.seen = row.id]]
      BY <1>6 DEF CheckOperation
    <2>3. ASSUME NEW pc \in {"delete", "expire"},
                 request' = [request EXCEPT ![q] = [@ EXCEPT !.pc = pc, !.seen = row.id]]
          PROVE  Learns(q)
      <3>1. /\ request'[q].pc = pc /\ request'[q].key = request[q].key
            /\ request'[q].answer = request[q].answer
        BY <1>2, <2>3 DEF Request
      <3> QED BY <2>2, <3>1 DEF Learns
    <2> HIDE DEF row
    <2>4. CASE Goto(q, "insert")
      BY <1>2, <2>2, <2>4, GotoLearns DEF Pc
    <2>5. CASE Return(q, "uncertain")
      BY <1>2, <2>2, <2>5, ReturnLearns DEF Answer
    <2>6. CASE Return(q, CachedAnswer(q, row))
      <3> DEFINE a == CachedAnswer(q, row)
      <3>1. a \in Answer /\ Return(q, a) /\ (a \in {"ok", "cached"} => row.status = "completed")
        BY <2>1, <2>6
      <3> HIDE DEF a
      <3> QED BY <1>2, <2>2, <3>1, ReturnLearns DEF row
    <2> QED BY <2>2, <2>3, <2>4, <2>5, <2>6
  <1>7. CASE DeleteFailed(q) \/ InsertPending(q) \/ RequestDies(q)
             \/ RecordSuccessThrows(q)
    BY <1>2, <1>7, GotoLearns
    DEF DeleteFailed, InsertPending, RequestDies, RecordSuccessThrows, Active, Pc
  <1>8. CASE ExpirePending(q) \/ RecordUncertain(q) \/ RecordError(q) \/ RecordThrows(q)
    <2>1. PICK a \in {"error", "uncertain"} : Return(q, a)
      BY <1>8 DEF ExpirePending, RecordUncertain, RecordError, RecordThrows
    <2>2. request[q].pc \notin {"new", "done"}
      BY <1>8 DEF ExpirePending, RecordUncertain, RecordError, RecordThrows
    <2> QED BY <1>2, <2>1, <2>2, ReturnLearns DEF Answer
  <1>9. CASE RaceCheck(q)
    <2> DEFINE row == op[request[q].key]
               a == IF row.status # "absent" /\ CachedAnswer(q, row) # "none"
                    THEN CachedAnswer(q, row) ELSE "uncertain"
    <2>1. a \in Answer /\ (a \in {"ok", "cached"} => row.status = "completed")
      BY DEF CachedAnswer, Answer
    <2>2. Return(q, a) /\ request[q].pc = "recheck"
      BY <1>9 DEF RaceCheck
    <2> HIDE DEF a
    <2> QED BY <1>2, <2>1, <2>2, ReturnLearns
  <1>10. CASE RecordSuccess(q)
    BY <1>2, <1>10, ReturnLearns DEF RecordSuccess, Answer
  <1>11. CASE RunHandler(q)
    <2>1. PICK next \in {"record", "recordError", "recordUncertain"},
               happened \in {0, 1} :
                 /\ next = "record" => happened = 1
                 /\ Goto(q, next)
                 /\ effects' = [effects EXCEPT ![request[q].key] = @ + happened]
      BY <1>11 DEF RunHandler
    <2>2. request[q].pc = "run" /\ request[q].key \in Keys /\ effects[request[q].key] = 0
          /\ effects \in [Keys -> Nat]
      BY <1>2, <1>11 DEF RunHandler, OwnsRow, HasKey, Holding, TypeOK
    <2>3. effects'[request[q].key] = happened
      BY <2>1, <2>2
    <2>4. request'[q].pc = next /\ request'[q].key = request[q].key
          /\ request'[q].answer = request[q].answer
      BY <1>2, <2>1, GotoEffect DEF Pc
    <2> QED BY <2>1, <2>2, <2>3, <2>4 DEF Learns
  <1> QED BY <1>1, <1>4, <1>5, <1>6, <1>7, <1>8, <1>9, <1>10, <1>11 DEF RequestStep

LEMMA TruthStep ==
  ASSUME ~LostSuccess, IInv, TruthInv, Next
  PROVE  TruthInv'
  <1>1. \A k \in Keys : RowMoves(k)
    BY RunMovesRows, RequestMovesRows DEF Next
  <1>2. \A k \in Keys : Happened(k) => Happened(k)'
    BY EffectsGrow
  <1>3. \A q \in Requests : HasKey(q) /\ KnownSuccess(q)
    BY DEF IInv, TruthInv
  <1>4. ASSUME NEW k \in Keys, op'[k].status = "completed" PROVE Happened(k)'
    <2>1. CASE op[k].status = "completed"
      BY <1>2, <2>1 DEF TruthInv
    <2>2. ASSUME NEW q \in Requests, request[q].pc = "record", request[q].key = k
          PROVE  Happened(k)'
      BY <1>2, <1>3, <2>2 DEF KnownSuccess
    <2> QED BY <1>1, <1>4, <2>1, <2>2 DEF RowMoves
  <1>5. ASSUME NEW q \in Requests, request'[q] = request[q] PROVE KnownSuccess(q)'
    <2>1. request[q].pc \in {"record", "done"} => request[q].key \in Keys
      BY <1>3 DEF HasKey
    <2>2. CASE request[q].answer \in {"ok", "cached"} \/ request[q].pc = "record"
      BY <1>2, <1>3, <1>5, <2>1, <2>2 DEF KnownSuccess
    <2> QED BY <1>5, <2>2 DEF KnownSuccess
  <1>6. ASSUME NEW q \in Requests, Learns(q) PROVE KnownSuccess(q)'
    <2>1. ASSUME request'[q].pc = "record" PROVE effects'[request'[q].key] > 0
      BY <1>6, <2>1 DEF Learns
    <2>2. ASSUME request'[q].answer \in {"ok", "cached"}
          PROVE  request'[q].pc = "done" /\ effects'[request'[q].key] > 0
      <3>1. CASE request'[q].answer = request[q].answer
        BY <1>3, <1>6, <2>2, <3>1 DEF Learns, KnownSuccess
      <3>2. CASE request'[q].answer # request[q].answer
        <4>1. /\ request'[q].pc = "done" /\ request'[q].key = request[q].key
              /\ request[q].key \in Keys
              /\ request[q].pc = "record" \/ op[request[q].key].status = "completed"
          BY <1>3, <1>6, <2>2, <3>2 DEF Learns, HasKey
        <4> QED BY <1>2, <1>3, <4>1 DEF KnownSuccess, TruthInv, Happened
      <3> QED BY <3>1, <3>2
    <2> QED BY <2>1, <2>2 DEF KnownSuccess, Happened
  <1>7. CASE RunNext
    BY <1>4, <1>5, <1>7 DEF TruthInv, RunNext, Claim, FenceAndDispatch, EndRun,
       CleanupOperation, PendingAges, RunFrame
  <1>8. CASE RequestNext
    BY <1>4, <1>5, <1>6, <1>8, RequestsLearn DEF TruthInv
  <1> QED BY <1>7, <1>8 DEF Next

\* What a request is told of its operation is true: an answer that says the tool
\* succeeded, fresh or from the ledger, follows its effect, and a row that says
\* failed, which allows a new attempt, belongs to an effect still to come.
THEOREM AnswersTellOutcomes ==
  ASSUME ~LostSuccess
  PROVE  Spec => []OutcomesAreTrue
  <1>1. Init => TruthInv
    BY DEF Init, TruthInv, KnownSuccess, NoOp
  <1>2. IInv /\ TruthInv /\ [Next]_vars => TruthInv'
    <2>1. TruthInv /\ UNCHANGED vars => TruthInv'
      BY DEF vars, TruthInv, KnownSuccess, Happened
    <2> QED BY <2>1, TruthStep
  <1>3. IInv /\ TruthInv => OutcomesAreTrue
    BY DEF IInv, RowTellsEffect, TruthInv, KnownSuccess, Happened, OutcomesAreTrue
  <1> QED BY <1>1, <1>2, <1>3, ToolInvariance, PTL DEF Spec

\* A row declared uncertain stays so: no late completion of the request that
\* wrote it, no reader that saw it pending, and no newer lease settles it again.
THEOREM UncertainStays ==
  ASSUME ~LostSuccess
  PROVE  Spec => UncertainIsKept
  <1> DEFINE Kept == \A k \in Keys : op[k].status = "uncertain" =>
                       \/ op'[k].status = "uncertain"
                       \/ ended /\ op'[k].status = "absent"
  <1>1. IInv /\ [Next]_vars => [Kept]_vars
    <2>1. ASSUME IInv, Next PROVE Kept
      BY <2>1, RunMovesRows, RequestMovesRows DEF Next, RowMoves
    <2> QED BY <2>1
  <1> QED BY <1>1, ToolInvariance, PTL DEF Spec, UncertainIsKept
=============================================================================

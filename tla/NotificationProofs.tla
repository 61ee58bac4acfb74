------------------------- MODULE NotificationProofs -------------------------
(***************************************************************************)
(* The theorems about NotificationDelivery, for any number of dispatchers,  *)
(* sweepers, messages, retries and faults, and, in the second half, about   *)
(* the event stream of a run (RunEvents) and its reader (RunEventReader).   *)
(*                                                                         *)
(* That the outboxes implement Announcement rests on what an invocation     *)
(* knows at each of its statements (ProcOK, MsgOK): it is about to settle   *)
(* only after the gateway has answered or the user has declined.  All of it *)
(* is stable: rows appear and never vanish, answers only grow, a wish is    *)
(* only withdrawn (Grows).                                                 *)
(*                                                                         *)
(* That a delivery without faults posts once rests on the post having one   *)
(* bearer at a time (OneBearer): the free row of the push outbox, the       *)
(* invocation that has claimed it, or the queue message it was handed to.   *)
(***************************************************************************)
EXTENDS NotificationDelivery, RunEventReader, Integers, FiniteSetTheorems,
        SequenceTheorems, TLAPS

\* Where an invocation has the row of the push outbox before it.
PushPcs == {"pushSelect", "pushClaim", "pushSend", "pushFinalize", "pushRevert",
            "pushStatus", "sync", "syncDone"}

Answered == posts > 0

ProcOK(x) ==
    /\ proc[x].pc # "idle" => out.status # "none"
    /\ proc[x].pc \in PushPcs => push.status # "none"
    /\ proc[x].pc = "syncDone" => Answered
    /\ proc[x].pc = "insert" /\ proc[x].seen # "queued" => ~wants
    /\ proc[x].pc = "finish" => push.status # "none" \/ ~wants

MsgOK(m) ==
    /\ msg[m].pc # "free" => push.status # "none"
    /\ msg[m].pc = "done" => Answered \/ ~wants

RowsOK ==
    /\ push.status # "none" => out.status # "none"
    /\ Answered => push.status # "none"
    /\ out.status = "done" /\ push.status = "none" => ~wants

EmittedOnce == emitted <= 1 /\ (~inbox => emitted = 0)

Known ==
    /\ RowsOK /\ EmittedOnce
    /\ \A x \in Procs : ProcOK(x)
    /\ \A m \in Msgs : MsgOK(m)

IInv == TypeOK /\ Known

(***************************************************************************)
(* What every step but the commit and the opt-out may do to the rows.      *)
(***************************************************************************)

OutGrows ==
    /\ out.status = "none" <=> out'.status = "none"
    /\ out.status = "done" => out'.status = "done"
    /\ out'.status = "done" => out.status = "done" \/ push.status # "none" \/ ~wants

PushGrows ==
    /\ push.status # "none" => push'.status # "none"
    /\ push.status = "done" => push'.status = "done"
    /\ push'.status = "done" =>
          push.status = "done" \/ (push.status # "none" /\ (Answered \/ ~wants))
    /\ push'.status # "none" => push.status # "none" \/ out.status # "none"

\* A step changes one of the rows, or adds an answer.
Grows ==
    /\ UNCHANGED wants
    /\ \/ /\ OutGrows /\ UNCHANGED <<push, posts>>
       \/ /\ PushGrows /\ UNCHANGED <<out, posts>>
       \/ /\ posts' = posts + 1 /\ push.status # "none" /\ UNCHANGED <<out, push>>

\* The step of an invocation or of a message, and what it knows afterwards.
Moves ==
    /\ TypeOK' /\ EmittedOnce' /\ Grows
    /\ \A x \in Procs : proc'[x] = proc[x] \/ ProcOK(x)'
    /\ \A m \in Msgs : msg'[m] = msg[m] \/ MsgOK(m)'

LEMMA GrowsIsStable ==
  ASSUME IInv, Grows
  PROVE  /\ out.status # "none" => out'.status # "none"
         /\ push.status # "none" => push'.status # "none"
         /\ Answered => Answered'
         /\ ~wants => ~wants'
  <1>1. posts \in Nat
    BY DEF IInv, TypeOK
  <1> QED BY <1>1 DEF Grows, OutGrows, PushGrows, Answered

LEMMA MovesKeeps ==
  ASSUME IInv, Moves
  PROVE  IInv'
  <1>1. TypeOK /\ Known /\ posts \in Nat
    BY DEF IInv, TypeOK
  <1>2. Grows
    BY DEF Moves
  <1>3. \A x \in Procs : ProcOK(x)'
    <2> SUFFICES ASSUME NEW x \in Procs, proc'[x] = proc[x] PROVE ProcOK(x)'
      BY DEF Moves
    <2> QED BY <1>1, <1>2, GrowsIsStable DEF Known, ProcOK
  <1>4. \A m \in Msgs : MsgOK(m)'
    <2> SUFFICES ASSUME NEW m \in Msgs, msg'[m] = msg[m] PROVE MsgOK(m)'
      BY DEF Moves
    <2> QED BY <1>1, <1>2, GrowsIsStable DEF Known, MsgOK
  <1>5. RowsOK'
    <2>1. CASE OutGrows /\ UNCHANGED <<push, posts, wants>>
      BY <1>1, <2>1 DEF Known, RowsOK, OutGrows, Answered
    <2>2. CASE PushGrows /\ UNCHANGED <<out, posts, wants>>
      BY <1>1, <2>2 DEF Known, RowsOK, PushGrows, Answered
    <2>3. CASE posts' = posts + 1 /\ push.status # "none" /\ UNCHANGED <<out, push, wants>>
      BY <1>1, <2>3 DEF Known, RowsOK, Answered
    <2> QED BY <1>2, <2>1, <2>2, <2>3 DEF Grows
  <1> QED BY <1>3, <1>4, <1>5 DEF Moves, IInv, Known

(***************************************************************************)
(* Every such step is one of Announcement, or changes nothing of it.       *)
(***************************************************************************)

LEMMA DebtIs ==
  /\ out.status = "none" => Debt = "none"
  /\ out.status # "none" /\ Settled => Debt = "settled"
  /\ out.status # "none" /\ ~Settled => Debt = "owed"
  BY DEF Debt

LEMMA DebtIsNext ==
  /\ out'.status = "none" => Debt' = "none"
  /\ out'.status # "none" /\ Settled' => Debt' = "settled"
  /\ out'.status # "none" /\ ~Settled' => Debt' = "owed"
  BY DEF Debt

LEMMA GrowsRefines ==
  ASSUME IInv, Grows
  PROVE  [Promise!Next]_(Promise!vars)
  <1>1. TypeOK /\ Known /\ posts \in Nat
    BY DEF IInv, TypeOK
  <1>2. (~wants)' = ~wants
    BY DEF Grows
  <1>3. CASE posts' = posts + 1 /\ push.status # "none" /\ UNCHANGED <<out, push>>
    <2>1. Debt' = Debt /\ Debt # "none"
      BY <1>1, <1>3, DebtIs DEF Known, RowsOK, Debt, Settled
    <2>2. posts' > 0
      BY <1>1, <1>3
    <2>3. CASE posts > 0
      <3>1. (posts > 0)' = (posts > 0)
        BY <2>2, <2>3
      <3> QED BY <1>2, <2>1, <3>1 DEF Promise!vars
    <2>4. CASE ~(posts > 0)
      BY <1>2, <2>1, <2>2 DEF Promise!Next, Promise!Deliver
    <2> QED BY <2>3, <2>4
  <1>4. CASE UNCHANGED posts /\ ((OutGrows /\ UNCHANGED push) \/ (PushGrows /\ UNCHANGED out))
    <2>1. (posts > 0)' = (posts > 0)
      BY <1>4
    <2>2. out.status = "none" <=> out'.status = "none"
      BY <1>4 DEF OutGrows
    <2>3. CASE out.status = "none"
      BY <1>2, <2>1, <2>2, <2>3, DebtIs, DebtIsNext DEF Promise!vars
    <2>4. CASE out.status # "none" /\ (Settled <=> Settled')
      <3>1. Debt' = Debt
        BY <2>2, <2>4, DebtIs, DebtIsNext
      <3> QED BY <1>2, <2>1, <3>1 DEF Promise!vars
    <2>5. CASE out.status # "none" /\ ~Settled /\ Settled'
      <3>1. Debt = "owed" /\ Debt' = "settled"
        BY <2>2, <2>5, DebtIs, DebtIsNext
      <3>2. posts > 0 \/ ~wants
        BY <1>4, <2>5 DEF Settled, OutGrows, PushGrows, Answered
      <3> QED BY <1>2, <2>1, <3>1, <3>2 DEF Promise!Next, Promise!Settle
    <2>6. CASE out.status # "none" /\ Settled /\ ~Settled'
      <3>1. Debt = "settled" /\ Debt' = "owed"
        BY <2>2, <2>6, DebtIs, DebtIsNext
      <3>2. push.status = "none" /\ out.status = "done"
        BY <1>4, <2>6 DEF Settled, OutGrows, PushGrows
      <3>3. ~wants /\ ~(posts > 0)
        BY <1>1, <3>2 DEF Known, RowsOK, Answered
      <3> QED BY <1>2, <2>1, <3>1, <3>3 DEF Promise!Next, Promise!Resume
    <2> QED BY <2>3, <2>4, <2>5, <2>6
  <1> QED BY <1>3, <1>4 DEF Grows

(***************************************************************************)
(* Steps by their shape.                                                   *)
(***************************************************************************)

\* What an invocation must know to go on at pc.
KnowsAt(pc, seen) ==
    /\ pc # "idle" => out'.status # "none"
    /\ pc \in PushPcs => push'.status # "none"
    /\ pc = "syncDone" => posts' > 0
    /\ pc = "insert" /\ seen # "queued" => ~wants'
    /\ pc = "finish" => push'.status # "none" \/ ~wants'

RowTypes ==
    /\ out' \in OutRow /\ push' \in PushRow /\ wants' \in BOOLEAN
    /\ posts' \in Nat /\ faults' \in 0..MaxFaults

Quiet == UNCHANGED <<inbox, emitted>>

LEMMA QuietEmission ==
  ASSUME IInv, Quiet
  PROVE  EmittedOnce' /\ inbox' \in BOOLEAN /\ emitted' \in Nat
  BY DEF IInv, TypeOK, Known, EmittedOnce, Quiet

LEMMA ProcMoves ==
  ASSUME IInv, NEW x \in Procs, NEW pc \in Pc, NEW seen \in PushStatus,
         GotoSeen(x, pc, seen), KnowsAt(pc, seen), Grows, RowTypes,
         EmittedOnce', inbox' \in BOOLEAN, emitted' \in Nat,
         msg' \in [Msgs -> Msg], \A m \in Msgs : msg'[m] = msg[m] \/ MsgOK(m)'
  PROVE  Moves
  <1>1. proc \in [Procs -> Proc] /\ [pc |-> pc, seen |-> seen] \in Proc
    BY DEF IInv, TypeOK, Proc
  <1>2. proc' = [proc EXCEPT ![x] = [pc |-> pc, seen |-> seen]]
    BY DEF GotoSeen
  <1>3. /\ proc' \in [Procs -> Proc] /\ proc'[x].pc = pc /\ proc'[x].seen = seen
        /\ \A y \in Procs \ {x} : proc'[y] = proc[y]
    BY <1>1, <1>2
  <1>4. TypeOK'
    BY <1>3 DEF TypeOK, RowTypes
  <1>5. ProcOK(x)'
    BY <1>3 DEF ProcOK, KnowsAt, Answered
  <1> QED BY <1>3, <1>4, <1>5 DEF Moves

\* The rows stay as they are.
SameRows == UNCHANGED <<out, push, wants, posts>>

LEMMA SameRowsGrow ==
  ASSUME IInv, SameRows
  PROVE  /\ Grows /\ out' \in OutRow /\ push' \in PushRow /\ wants' \in BOOLEAN
         /\ posts' \in Nat
  BY DEF IInv, TypeOK, SameRows, Grows, OutGrows

LEMMA GotoIs ==
  ASSUME NEW x, NEW pc, Goto(x, pc)
  PROVE  GotoSeen(x, pc, "none")
  BY DEF Goto, GotoSeen

LEMMA FaultType ==
  ASSUME TypeOK, Fault
  PROVE  faults' \in 0..MaxFaults
  BY DeliveryAssumption DEF TypeOK, Fault

LEMMA SetOutType ==
  ASSUME NEW status \in {"queued", "dispatching", "done"},
         NEW token \in Procs \cup {None}, SetOut(status, token)
  PROVE  out' \in OutRow /\ out'.status = status
  BY DEF SetOut, OutRow

LEMMA SetPushType ==
  ASSUME NEW status \in PushStatus, NEW token \in Procs \cup {None},
         SetPush(status, token)
  PROVE  push' \in PushRow /\ push'.status = status
  BY DEF SetPush, PushRow

\* An invocation moves within the same rows.
LEMMA ProcMovesOnly ==
  ASSUME IInv, NEW x \in Procs, NEW pc \in Pc, NEW seen \in PushStatus,
         GotoSeen(x, pc, seen), KnowsAt(pc, seen), SameRows, Quiet,
         UNCHANGED msg, faults' \in 0..MaxFaults
  PROVE  Moves
  BY SameRowsGrow, QuietEmission, ProcMoves DEF RowTypes, IInv, TypeOK

\* An invocation that stops.
LEMMA ProcToIdle ==
  ASSUME IInv, NEW x \in Procs, Goto(x, "idle"), SameRows, Quiet, UNCHANGED msg,
         faults' \in 0..MaxFaults
  PROVE  Moves
  <1>1. KnowsAt("idle", "none") /\ "idle" \in Pc /\ "none" \in PushStatus
    BY DEF KnowsAt, PushPcs, Pc, PushStatus
  <1> QED BY <1>1, GotoIs, ProcMovesOnly

\* An invocation changes the row of the run outbox.
LEMMA OutMoves ==
  ASSUME IInv, NEW x \in Procs, NEW pc \in {"create", "idle", "revert"}, Goto(x, pc),
         out' \in OutRow, OutGrows, out.status # "none",
         UNCHANGED <<push, posts, wants, msg>>, Quiet, faults' \in 0..MaxFaults
  PROVE  Moves
  <1>1. Grows /\ RowTypes
    BY DEF Grows, RowTypes, IInv, TypeOK
  <1>2. KnowsAt(pc, "none") /\ pc \in Pc /\ "none" \in PushStatus
    BY DEF KnowsAt, PushPcs, Pc, PushStatus, OutGrows
  <1>3. msg' \in [Msgs -> Msg]
    BY DEF IInv, TypeOK
  <1> QED BY <1>1, <1>2, <1>3, GotoIs, QuietEmission, ProcMoves

(***************************************************************************)
(* dispatchRunNotificationOutbox.                                          *)
(***************************************************************************)

LEMMA OutcomeMoves ==
  ASSUME IInv, NEW x \in Procs,
         \/ SelectOutcome(x) \/ ClaimOutcome(x) \/ FinishOutcome(x)
         \/ FinishThrows(x) \/ RevertOutcome(x)
  PROVE  Moves
  <1>1. /\ TypeOK /\ Known /\ ProcOK(x) /\ faults \in 0..MaxFaults /\ out \in OutRow
        /\ None \in Procs \cup {None} /\ x \in Procs \cup {None}
    BY DEF IInv, TypeOK, Known
  <1>2. UNCHANGED <<push, posts, wants, msg>> /\ Quiet
    BY DEF SelectOutcome, ClaimOutcome, FinishOutcome, FinishThrows, RevertOutcome,
           OutFrame, Quiet
  <1>3. CASE SelectOutcome(x)
    <2>1. PICK status \in {"queued", "dispatching"} :
             out.status = status /\ GotoSeen(x, "claim", status)
      BY <1>3 DEF SelectOutcome, OutDispatchable
    <2>2. UNCHANGED <<out, faults>>
      BY <1>3 DEF SelectOutcome
    <2>3. KnowsAt("claim", status) /\ "claim" \in Pc /\ status \in PushStatus
      BY <2>1, <2>2 DEF KnowsAt, PushPcs, Pc, PushStatus
    <2> QED BY <1>1, <1>2, <2>1, <2>2, <2>3, ProcMovesOnly DEF SameRows
  <1>4. CASE ClaimOutcome(x)
    <2>1. faults' = faults
      BY <1>4 DEF ClaimOutcome
    <2>2. CASE OutDispatchable(x, proc[x].seen)
      <3>1. SetOut("dispatching", x) /\ Goto(x, "create")
        BY <1>4, <2>2 DEF ClaimOutcome
      <3>2. out' \in OutRow /\ out'.status = "dispatching"
        BY <1>1, <3>1, SetOutType
      <3>3. OutGrows /\ out.status # "none"
        BY <2>2, <3>2 DEF OutDispatchable, OutGrows
      <3> QED BY <1>1, <1>2, <2>1, <3>1, <3>2, <3>3, OutMoves
    <2>3. CASE ~OutDispatchable(x, proc[x].seen)
      BY <1>1, <1>2, <1>4, <2>1, <2>3, ProcToIdle DEF ClaimOutcome, SameRows
    <2> QED BY <2>2, <2>3
  <1>5. CASE FinishOutcome(x) \/ FinishThrows(x)
    <2>1. /\ faults' \in 0..MaxFaults
          /\ \E pc \in {"idle", "revert"} : Goto(x, pc)
      BY <1>1, <1>5, FaultType DEF FinishOutcome, FinishThrows, ProcOK
    <2>2. PICK pc \in {"idle", "revert"} : Goto(x, pc)
      BY <2>1
    <2>3. out.status # "none"
      BY <1>1, <1>5 DEF FinishOutcome, FinishThrows, ProcOK
    <2>4. CASE UNCHANGED out
      BY <1>1, <1>2, <2>1, <2>2, <2>3, <2>4, OutMoves DEF OutGrows
    <2>5. CASE HoldsOutcome(x) /\ SetOut("done", None)
      <3>1. out' \in OutRow /\ out'.status = "done" /\ out.status = "dispatching"
        BY <1>1, <2>5, SetOutType DEF HoldsOutcome
      <3>2. push.status # "none" \/ ~wants
        BY <1>1, <1>5 DEF FinishOutcome, FinishThrows, ProcOK
      <3>3. OutGrows
        BY <3>1, <3>2 DEF OutGrows
      <3> QED BY <1>2, <2>1, <2>2, <2>3, <3>1, <3>3, OutMoves
    <2> QED BY <1>5, <2>4, <2>5 DEF FinishOutcome, FinishThrows
  <1>6. CASE RevertOutcome(x)
    <2>1. out.status # "none" /\ faults' = faults /\ Goto(x, "idle")
      BY <1>1, <1>6 DEF RevertOutcome, ProcOK
    <2>2. CASE HoldsOutcome(x)
      <3>1. out' \in OutRow /\ out'.status = "queued" /\ out.status = "dispatching"
        BY <1>1, <1>6, <2>2, SetOutType DEF HoldsOutcome, RevertOutcome
      <3>2. OutGrows
        BY <3>1 DEF OutGrows
      <3> QED BY <1>1, <1>2, <2>1, <3>1, <3>2, OutMoves
    <2>3. CASE ~HoldsOutcome(x)
      BY <1>1, <1>2, <1>6, <2>1, <2>3, ProcToIdle DEF RevertOutcome, SameRows
    <2> QED BY <2>2, <2>3
  <1> QED BY <1>3, <1>4, <1>5, <1>6

(***************************************************************************)
(* createNotification.                                                     *)
(***************************************************************************)

LEMMA CreateMoves ==
  ASSUME IInv, NEW x \in Procs,
         \/ ReadPreferences(x) \/ InsertNotification(x) \/ ReadPushStatus(x)
         \/ DeliverNow(x) \/ DeliverNowFails(x)
  PROVE  Moves
  <1>1. /\ TypeOK /\ Known /\ ProcOK(x) /\ faults \in 0..MaxFaults
        /\ msg \in [Msgs -> Msg] /\ posts \in Nat /\ emitted \in Nat
    BY DEF IInv, TypeOK, Known
  <1>2. UNCHANGED <<out, push, wants, msg>>
    BY DEF ReadPreferences, InsertNotification, ReadPushStatus, DeliverNow,
           DeliverNowFails, CreateFrame
  <1>3. CASE ReadPreferences(x)
    <2>1. PICK seen \in {"queued", "none"} :
             GotoSeen(x, "insert", seen) /\ (seen # "queued" => ~wants)
      BY <1>3 DEF ReadPreferences
    <2>2. /\ UNCHANGED <<posts, faults>> /\ Quiet /\ out.status # "none"
      BY <1>1, <1>3 DEF ReadPreferences, Quiet, ProcOK
    <2>3. KnowsAt("insert", seen) /\ "insert" \in Pc /\ seen \in PushStatus
      BY <1>2, <2>1, <2>2 DEF KnowsAt, PushPcs, Pc, PushStatus
    <2> QED BY <1>1, <1>2, <2>1, <2>2, <2>3, ProcMovesOnly DEF SameRows
  <1>4. CASE InsertNotification(x)
    <2>1. PICK pc \in {"ensure", "finish"} :
             Goto(x, pc) /\ (pc = "finish" => proc[x].seen # "queued")
      BY <1>4 DEF InsertNotification
    <2>2. /\ UNCHANGED posts /\ faults' \in 0..MaxFaults /\ inbox' = TRUE
          /\ proc[x].pc = "insert"
      BY <1>1, <1>4, FaultType DEF InsertNotification
    <2>3. EmittedOnce' /\ emitted' \in Nat
      BY <1>1, <1>4, <2>2 DEF InsertNotification, Known, EmittedOnce
    <2>4. KnowsAt(pc, "none") /\ pc \in Pc /\ "none" \in PushStatus
      BY <1>1, <1>2, <2>1, <2>2 DEF KnowsAt, PushPcs, Pc, PushStatus, ProcOK
    <2>5. Grows /\ RowTypes
      BY <1>2, <2>2, SameRowsGrow DEF SameRows, RowTypes
    <2> QED BY <1>1, <1>2, <2>1, <2>2, <2>3, <2>4, <2>5, GotoIs, ProcMoves
  <1>5. CASE ReadPushStatus(x)
    <2>1. PICK pc \in {"finish", "sync"} : Goto(x, pc)
      BY <1>5 DEF ReadPushStatus
    <2>2. /\ UNCHANGED <<posts, faults>> /\ Quiet
          /\ out.status # "none" /\ push.status # "none"
      BY <1>1, <1>5 DEF ReadPushStatus, Quiet, ProcOK, PushPcs
    <2>3. KnowsAt(pc, "none") /\ pc \in Pc /\ "none" \in PushStatus
      BY <1>2, <2>1, <2>2 DEF KnowsAt, PushPcs, Pc, PushStatus
    <2> QED BY <1>1, <1>2, <2>1, <2>2, <2>3, GotoIs, ProcMovesOnly DEF SameRows
  <1>6. CASE DeliverNow(x) \/ DeliverNowFails(x)
    <2>1. PICK pc \in {"syncDone", "revert"} : Goto(x, pc) /\ (pc = "syncDone" => posts' = posts + 1)
      BY <1>6 DEF DeliverNow, DeliverNowFails
    <2>2. /\ posts' = posts + 1 \/ posts' = posts
          /\ faults' \in 0..MaxFaults /\ Quiet
          /\ out.status # "none" /\ push.status # "none"
      BY <1>1, <1>6, FaultType DEF DeliverNow, DeliverNowFails, Quiet, ProcOK, PushPcs
    <2>3. KnowsAt(pc, "none") /\ pc \in Pc /\ "none" \in PushStatus
      BY <1>1, <1>2, <2>1, <2>2 DEF KnowsAt, PushPcs, Pc, PushStatus
    <2>4. Grows
      BY <1>1, <1>2, <2>2 DEF Grows, OutGrows
    <2>5. RowTypes
      BY <1>1, <1>2, <2>2 DEF RowTypes, TypeOK
    <2> QED BY <1>1, <1>2, <2>1, <2>2, <2>3, <2>4, <2>5, GotoIs, QuietEmission, ProcMoves
  <1> QED BY <1>3, <1>4, <1>5, <1>6

\* An invocation changes the row of the push outbox.
LEMMA PushMoves ==
  ASSUME IInv, NEW x \in Procs, NEW pc \in Pc \ {"syncDone", "insert"}, Goto(x, pc),
         push' \in PushRow, PushGrows, push'.status # "none", out.status # "none",
         UNCHANGED <<out, posts, wants, msg>>, Quiet, faults' \in 0..MaxFaults
  PROVE  Moves
  <1>1. Grows /\ RowTypes
    BY DEF Grows, RowTypes, IInv, TypeOK
  <1>2. KnowsAt(pc, "none") /\ "none" \in PushStatus
    BY DEF KnowsAt, PushStatus
  <1>3. msg' \in [Msgs -> Msg]
    BY DEF IInv, TypeOK
  <1> QED BY <1>1, <1>2, <1>3, GotoIs, QuietEmission, ProcMoves

\* The row of the push outbox stays or is done, by one who may say so.
LEMMA MarkDoneGrows ==
  ASSUME IInv, MarkDone, push.status # "none", Answered \/ ~wants
  PROVE  push' \in PushRow /\ PushGrows /\ push'.status # "none"
  <1>1. push' \in PushRow /\ push'.status = "done"
    BY SetPushType DEF MarkDone, PushStatus
  <1> QED BY <1>1 DEF PushGrows

LEMMA SamePush ==
  ASSUME IInv, UNCHANGED push, push.status # "none"
  PROVE  push' \in PushRow /\ PushGrows /\ push'.status # "none"
  BY DEF IInv, TypeOK, PushGrows

LEMMA DeliveredMoves ==
  ASSUME IInv, NEW x \in Procs,
         EnsurePush(x) \/ DeliveredNow(x) \/ DeliveredNowThrows(x)
  PROVE  Moves
  <1>1. /\ TypeOK /\ Known /\ ProcOK(x) /\ faults \in 0..MaxFaults
    BY DEF IInv, TypeOK, Known
  <1>2. /\ UNCHANGED <<out, posts, wants, msg>> /\ Quiet /\ faults' \in 0..MaxFaults
        /\ out.status # "none"
    BY <1>1, FaultType
       DEF EnsurePush, DeliveredNow, DeliveredNowThrows, CreateFrame, Quiet, ProcOK
  <1>3. PICK pc \in {"pushSelect", "finish", "revert"} : Goto(x, pc)
    BY DEF EnsurePush, DeliveredNow, DeliveredNowThrows
  <1>4. pc \in Pc \ {"syncDone", "insert"}
    BY DEF Pc
  <1>5. push' \in PushRow /\ PushGrows /\ push'.status # "none"
    <2>1. CASE EnsurePush(x) /\ push.status = "none"
      <3>1. push' \in PushRow /\ push'.status = "queued"
        BY <2>1, SetPushType DEF EnsurePush, PushStatus
      <3> QED BY <1>2, <2>1, <3>1 DEF PushGrows
    <2>2. CASE EnsurePush(x) /\ push.status # "none"
      BY <2>2, SamePush DEF EnsurePush
    <2>3. CASE DeliveredNow(x) \/ DeliveredNowThrows(x)
      <3>1. Answered /\ push.status # "none"
        BY <1>1, <2>3 DEF DeliveredNow, DeliveredNowThrows, ProcOK, PushPcs
      <3> QED BY <2>3, <3>1, MarkDoneGrows, SamePush DEF DeliveredNow, DeliveredNowThrows
    <2> QED BY <2>1, <2>2, <2>3
  <1> QED BY <1>2, <1>3, <1>4, <1>5, PushMoves

LEMMA CreateThrowsMoves ==
  ASSUME IInv, NEW x \in Procs, CreateThrows(x)
  PROVE  Moves
  <1>1. /\ TypeOK /\ Known /\ ProcOK(x) /\ msg \in [Msgs -> Msg]
        /\ inbox \in BOOLEAN /\ emitted \in Nat /\ push \in PushRow
    BY DEF IInv, TypeOK, Known
  <1>2. /\ UNCHANGED <<out, wants, msg, posts, emitted>> /\ faults' \in 0..MaxFaults
        /\ out.status # "none" /\ Goto(x, "revert")
    BY <1>1, FaultType DEF CreateThrows, CreateFrame, ProcOK
  <1>3. /\ inbox' \in BOOLEAN /\ emitted' \in Nat /\ EmittedOnce'
    BY <1>1, <1>2 DEF CreateThrows, Known, EmittedOnce
  <1>4. push' \in PushRow /\ PushGrows
    <2>1. CASE UNCHANGED push
      BY <1>1, <2>1 DEF PushGrows
    <2>2. CASE push.status = "none" /\ SetPush("queued", None)
      <3>1. push' \in PushRow /\ push'.status = "queued"
        BY <2>2, SetPushType DEF PushStatus
      <3> QED BY <1>2, <2>2, <3>1 DEF PushGrows
    <2> QED BY <2>1, <2>2 DEF CreateThrows
  <1>5. Grows /\ RowTypes
    BY <1>1, <1>2, <1>4 DEF Grows, RowTypes, TypeOK
  <1>6. KnowsAt("revert", "none") /\ "revert" \in Pc /\ "none" \in PushStatus
    BY <1>2 DEF KnowsAt, PushPcs, Pc, PushStatus
  <1> QED BY <1>1, <1>2, <1>3, <1>5, <1>6, GotoIs, ProcMoves

(***************************************************************************)
(* dispatchNotificationPushOutbox.                                         *)
(***************************************************************************)

LEMMA ReturnGoes ==
  ASSUME NEW x, NEW went \in BOOLEAN, Return(x, went)
  PROVE  \E pc \in {"idle", "finish", "pushStatus"} : Goto(x, pc)
  BY DEF Return

LEMMA PushStepMoves ==
  ASSUME IInv, NEW x \in Procs,
         \/ SelectPush(x) \/ ClaimPush(x) \/ HandoffThrows(x)
         \/ FinalizePush(x) \/ FinalizePushThrows(x) \/ RevertPush(x)
         \/ RevertPushThrows(x) \/ ProcStops(x)
  PROVE  Moves
  <1>1. /\ TypeOK /\ Known /\ ProcOK(x) /\ faults \in 0..MaxFaults
        /\ push \in PushRow /\ x \in Procs \cup {None} /\ None \in Procs \cup {None}
    BY DEF IInv, TypeOK, Known
  <1>2. /\ UNCHANGED <<out, posts, wants, msg>> /\ Quiet /\ faults' \in 0..MaxFaults
    BY <1>1, FaultType
       DEF SelectPush, ClaimPush, HandoffThrows, FinalizePush, FinalizePushThrows,
           RevertPush, RevertPushThrows, ProcStops, PushFrame, Quiet
  <1>3. CASE ProcStops(x)
    BY <1>2, <1>3, ProcToIdle DEF ProcStops, SameRows
  <1>4. CASE SelectPush(x)
    <2>1. push.status # "none" /\ push' = push
      BY <1>1, <1>4 DEF SelectPush, ProcOK, PushPcs
    <2>2. out.status # "none"
      BY <1>1, <2>1 DEF Known, RowsOK
    <2>3. CASE Return(x, FALSE)
      <3>1. PICK pc \in {"idle", "finish", "pushStatus"} : Goto(x, pc)
        BY <2>3, ReturnGoes
      <3>2. pc \in Pc \ {"syncDone", "insert"}
        BY DEF Pc
      <3> QED BY <1>2, <2>1, <2>2, <3>1, <3>2, SamePush, PushMoves
    <2>4. CASE GotoSeen(x, "pushClaim", push.status)
      <3>1. KnowsAt("pushClaim", push.status) /\ "pushClaim" \in Pc /\ push.status \in PushStatus
        BY <1>1, <1>2, <2>1, <2>2 DEF KnowsAt, Pc, PushRow
      <3> QED BY <1>2, <2>1, <2>4, <3>1, ProcMovesOnly DEF SameRows
    <2> QED BY <1>4, <2>3, <2>4 DEF SelectPush
  <1>5. CASE /\ proc[x].pc \in PushPcs
             /\ \E pc \in {"idle", "finish", "pushStatus", "pushSend", "sync"} : Goto(x, pc)
             /\ \/ UNCHANGED push
                \/ PushDispatchable(x, proc[x].seen) /\ SetPush("dispatching", x)
                \/ Enqueued(x)
                \/ HoldsPush(x) /\ SetPush("queued", None)
    <2>1. push.status # "none" /\ out.status # "none"
      BY <1>1, <1>5 DEF ProcOK, PushPcs
    <2>2. PICK pc \in {"idle", "finish", "pushStatus", "pushSend", "sync"} : Goto(x, pc)
      BY <1>5
    <2>3. pc \in Pc \ {"syncDone", "insert"}
      BY DEF Pc
    <2>4. push' \in PushRow /\ PushGrows /\ push'.status # "none"
      <3>1. CASE UNCHANGED push
        BY <2>1, <3>1, SamePush
      <3>2. CASE PushDispatchable(x, proc[x].seen) /\ SetPush("dispatching", x)
        <4>1. push' \in PushRow /\ push'.status = "dispatching"
          BY <1>1, <3>2, SetPushType DEF PushStatus
        <4>2. push.status # "done"
          BY <3>2 DEF PushDispatchable
        <4> QED BY <2>1, <4>1, <4>2 DEF PushGrows
      <3>3. CASE HoldsPush(x) /\ Enqueued(x)
        <4>1. push' \in PushRow /\ push'.status = "enqueued"
          BY <1>1, <3>3 DEF Enqueued, PushRow, PushStatus
        <4> QED BY <2>1, <3>3, <4>1 DEF PushGrows, HoldsPush
      <3>4. CASE ~HoldsPush(x) /\ Enqueued(x)
        BY <2>1, <3>4, SamePush DEF Enqueued
      <3>5. CASE HoldsPush(x) /\ SetPush("queued", None)
        <4>1. push' \in PushRow /\ push'.status = "queued"
          BY <1>1, <3>5, SetPushType DEF PushStatus
        <4> QED BY <2>1, <3>5, <4>1 DEF PushGrows, HoldsPush
      <3> QED BY <1>5, <3>1, <3>2, <3>3, <3>4, <3>5
    <2> QED BY <1>2, <2>1, <2>2, <2>3, <2>4, PushMoves
  <1>6. CASE ClaimPush(x) \/ HandoffThrows(x)
    BY <1>5, <1>6, ReturnGoes DEF ClaimPush, HandoffThrows, PushPcs
  <1>7. CASE FinalizePush(x) \/ FinalizePushThrows(x) \/ RevertPush(x) \/ RevertPushThrows(x)
    BY <1>5, <1>7, ReturnGoes
       DEF FinalizePush, FinalizePushThrows, RevertPush, RevertPushThrows, PushPcs
  <1> QED BY <1>3, <1>4, <1>6, <1>7

\* A message that the queue accepts is known to the outbox.
LEMMA AcceptedOK ==
  ASSUME IInv, Accept, UNCHANGED push, push.status # "none"
  PROVE  msg' \in [Msgs -> Msg] /\ \A m \in Msgs : msg'[m] = msg[m] \/ MsgOK(m)'
  <1>1. PICK m \in Msgs : msg' = [msg EXCEPT ![m].pc = "waiting"]
    BY DEF Accept
  <1>2. msg \in [Msgs -> Msg] /\ msg[m] \in Msg
    BY DEF IInv, TypeOK
  <1>3. [msg[m] EXCEPT !.pc = "waiting"] \in Msg /\ [msg[m] EXCEPT !.pc = "waiting"].pc = "waiting"
    BY <1>2 DEF Msg, MsgPc
  <1>4. /\ msg' \in [Msgs -> Msg] /\ msg'[m].pc = "waiting"
        /\ \A n \in Msgs \ {m} : msg'[n] = msg[n]
    BY <1>1, <1>2, <1>3
  <1>5. MsgOK(m)'
    BY <1>4 DEF MsgOK
  <1> QED BY <1>4, <1>5

LEMMA SendMoves ==
  ASSUME IInv, NEW x \in Procs, SendPush(x) \/ SendPushThrows(x)
  PROVE  Moves
  <1>1. TypeOK /\ Known /\ ProcOK(x) /\ faults \in 0..MaxFaults /\ msg \in [Msgs -> Msg]
    BY DEF IInv, TypeOK, Known
  <1>2. /\ SameRows /\ Quiet /\ faults' \in 0..MaxFaults
        /\ out.status # "none" /\ push.status # "none"
    BY <1>1, FaultType DEF SendPush, SendPushThrows, PushFrame, SameRows, Quiet, ProcOK, PushPcs
  <1>3. PICK pc \in {"pushFinalize", "pushRevert"} : Goto(x, pc)
    BY DEF SendPush, SendPushThrows
  <1>4. KnowsAt(pc, "none") /\ pc \in Pc /\ "none" \in PushStatus
    BY <1>2 DEF KnowsAt, Pc, PushStatus, SameRows
  <1>5. Grows /\ RowTypes
    BY <1>2, SameRowsGrow DEF RowTypes
  <1>6. msg' \in [Msgs -> Msg] /\ \A m \in Msgs : msg'[m] = msg[m] \/ MsgOK(m)'
    <2>1. CASE Accept
      BY <1>2, <2>1, AcceptedOK DEF SameRows
    <2>2. CASE UNCHANGED msg
      BY <1>1, <2>2
    <2> QED BY <2>1, <2>2 DEF SendPush, SendPushThrows
  <1> QED BY <1>2, <1>3, <1>4, <1>5, <1>6, GotoIs, QuietEmission, ProcMoves

(***************************************************************************)
(* The messages.                                                           *)
(***************************************************************************)

LEMMA MsgMoves ==
  ASSUME IInv, NEW m \in Msgs, NEW new \in Msg, msg' = [msg EXCEPT ![m] = new],
         new.pc # "free" => push'.status # "none",
         new.pc = "done" => posts' > 0 \/ ~wants',
         Grows, RowTypes, Quiet, UNCHANGED proc
  PROVE  Moves
  <1>1. msg \in [Msgs -> Msg] /\ proc \in [Procs -> Proc]
    BY DEF IInv, TypeOK
  <1>2. /\ msg' \in [Msgs -> Msg] /\ msg'[m] = new
        /\ \A n \in Msgs \ {m} : msg'[n] = msg[n]
    BY <1>1
  <1>3. TypeOK'
    BY <1>1, <1>2, QuietEmission DEF TypeOK, RowTypes
  <1>4. MsgOK(m)'
    BY <1>2 DEF MsgOK, Answered
  <1> QED BY <1>2, <1>3, <1>4, QuietEmission DEF Moves

LEMMA ToIs ==
  ASSUME TypeOK, NEW m \in Msgs, NEW pc \in MsgPc, To(m, pc)
  PROVE  \E new \in Msg : new.pc = pc /\ msg' = [msg EXCEPT ![m] = new]
  <1>1. msg[m] \in Msg /\ msg' = [msg EXCEPT ![m] = [msg[m] EXCEPT !.pc = pc]]
    BY DEF TypeOK, To
  <1>2. [msg[m] EXCEPT !.pc = pc] \in Msg /\ [msg[m] EXCEPT !.pc = pc].pc = pc
    BY <1>1 DEF Msg
  <1> QED BY <1>1, <1>2

LEMMA AckIs ==
  ASSUME NEW m \in Msgs, Ack(m)
  PROVE  \E new \in Msg : new.pc = "free" /\ msg' = [msg EXCEPT ![m] = new]
  <1>1. Free \in Msg /\ Free.pc = "free"
    BY DeliveryAssumption DEF Free, Msg, MsgPc
  <1> QED BY <1>1 DEF Ack

LEMMA RetryIs ==
  ASSUME TypeOK, NEW m \in Msgs, Retry(m)
  PROVE  \E new \in Msg : new.pc \in {"waiting", "dead"} /\ msg' = [msg EXCEPT ![m] = new]
  <1> DEFINE again == [pc |-> "waiting", tries |-> msg[m].tries + 1]
             over == [pc |-> "dead", tries |-> 0]
  <1>1. msg[m].tries \in 0..MaxRetries
    BY DEF TypeOK, Msg
  <1>2. over \in Msg /\ over.pc = "dead" /\ again.pc = "waiting"
    BY DeliveryAssumption DEF Msg, MsgPc
  <1>3. CASE msg[m].tries < MaxRetries
    <2>1. again \in Msg
      BY <1>1, <1>3, DeliveryAssumption DEF Msg, MsgPc
    <2>2. msg' = [msg EXCEPT ![m] = again]
      BY <1>3 DEF Retry
    <2> HIDE DEF again, over
    <2> QED BY <1>2, <2>1, <2>2
  <1>4. CASE ~(msg[m].tries < MaxRetries)
    <2>1. msg' = [msg EXCEPT ![m] = over]
      BY <1>4 DEF Retry
    <2> HIDE DEF again, over
    <2> QED BY <1>2, <2>1
  <1> QED BY <1>3, <1>4

\* A consumer within the same rows.
LEMMA MsgMovesOnly ==
  ASSUME IInv, NEW m \in Msgs, NEW new \in Msg, msg' = [msg EXCEPT ![m] = new],
         new.pc \in {"record", "deliver", "done", "waiting", "dead", "free"},
         msg[m].pc # "free", new.pc = "done" => Answered \/ ~wants,
         SameRows, Quiet, UNCHANGED proc, faults' \in 0..MaxFaults
  PROVE  Moves
  <1>1. push.status # "none"
    BY DEF IInv, Known, MsgOK
  <1>2. Grows /\ RowTypes
    BY SameRowsGrow DEF RowTypes
  <1> QED BY <1>1, <1>2, MsgMoves DEF SameRows, Answered

LEMMA ConsumerMoves ==
  ASSUME IInv, NEW m \in Msgs,
         \/ ReceivePush(m) \/ RereadPreferences(m) \/ GatewayDown(m)
         \/ ConsumerStops(m) \/ DeadLetterDropped(m)
  PROVE  Moves
  <1>1. TypeOK /\ faults \in 0..MaxFaults
    BY DEF IInv, TypeOK
  <1>2. /\ SameRows /\ Quiet /\ UNCHANGED proc /\ faults' \in 0..MaxFaults
        /\ msg[m].pc # "free"
    BY <1>1, FaultType
       DEF ReceivePush, RereadPreferences, GatewayDown, ConsumerStops, DeadLetterDropped,
           ConsumerFrame,
           SameRows, Quiet
  <1>3. PICK new \in Msg :
          /\ new.pc \in {"record", "deliver", "done", "waiting", "dead", "free"}
          /\ new.pc = "done" => ~wants
          /\ msg' = [msg EXCEPT ![m] = new]
    <2>1. CASE ReceivePush(m)
      BY <1>1, <2>1, ToIs DEF ReceivePush, MsgPc
    <2>2. CASE RereadPreferences(m)
      <3>1. PICK pc \in {"deliver", "done"} : To(m, pc) /\ (pc = "done" => ~wants)
        BY <2>2 DEF RereadPreferences
      <3> QED BY <1>1, <3>1, ToIs DEF MsgPc
    <2>3. CASE ConsumerStops(m)
      BY <1>1, <2>3, RetryIs DEF ConsumerStops
    <2>4. CASE DeadLetterDropped(m)
      BY <2>4, AckIs DEF DeadLetterDropped
    <2>5. CASE GatewayDown(m)
      BY <1>1, <2>5, ToIs DEF GatewayDown, MsgPc
    <2> QED BY <2>1, <2>2, <2>3, <2>4, <2>5
  <1> QED BY <1>2, <1>3, MsgMovesOnly

LEMMA DeliverMoves ==
  ASSUME IInv, NEW m \in Msgs, Deliver(m) \/ DeliverFails(m)
  PROVE  Moves
  <1>1. TypeOK /\ Known /\ MsgOK(m) /\ faults \in 0..MaxFaults /\ posts \in Nat
    BY DEF IInv, TypeOK, Known
  <1>2. /\ posts' = posts + 1 \/ posts' = posts
        /\ UNCHANGED <<out, push, wants, proc>> /\ Quiet /\ faults' \in 0..MaxFaults
        /\ push.status # "none"
    BY <1>1, FaultType DEF Deliver, DeliverFails, ConsumerFrame, Quiet, MsgOK
  <1>3. PICK new \in Msg : /\ new.pc = "done" => posts' = posts + 1
                           /\ msg' = [msg EXCEPT ![m] = new]
    BY <1>1, ToIs, RetryIs DEF Deliver, DeliverFails, MsgPc
  <1>4. Grows
    BY <1>2 DEF Grows, OutGrows
  <1>5. RowTypes
    BY <1>1, <1>2 DEF RowTypes, TypeOK
  <1>6. new.pc = "done" => posts' > 0
    BY <1>1, <1>3
  <1> QED BY <1>2, <1>3, <1>4, <1>5, <1>6, MsgMoves

LEMMA RecordMoves ==
  ASSUME IInv, NEW m \in Msgs, RecordEnqueued(m) \/ Delivered(m) \/ ReopenFromDlq(m)
  PROVE  Moves
  <1>1. TypeOK /\ Known /\ MsgOK(m) /\ faults \in 0..MaxFaults /\ None \in Procs \cup {None}
    BY DEF IInv, TypeOK, Known
  <1>2. /\ UNCHANGED <<out, posts, wants, proc, faults>> /\ Quiet
        /\ push.status # "none"
    BY <1>1 DEF RecordEnqueued, Delivered, ReopenFromDlq, ConsumerFrame, Quiet, MsgOK
  <1>3. PICK new \in Msg : new.pc \in {"prefs", "free"} /\ msg' = [msg EXCEPT ![m] = new]
    BY <1>1, ToIs, AckIs DEF RecordEnqueued, Delivered, ReopenFromDlq, MsgPc
  <1>4. push' \in PushRow /\ PushGrows /\ push'.status # "none"
    <2>1. CASE UNCHANGED push
      BY <1>2, <2>1, SamePush
    <2>2. CASE MarkDone /\ Delivered(m)
      BY <1>1, <1>2, <2>2, MarkDoneGrows DEF Delivered, MsgOK
    <2>3. CASE push.status # "done" /\ (SetPush("enqueued", None) \/ SetPush("queued", None))
      <3>1. push' \in PushRow /\ push'.status \in {"enqueued", "queued"}
        BY <1>1, <2>3, SetPushType DEF PushStatus
      <3> QED BY <1>2, <2>3, <3>1 DEF PushGrows
    <2> QED BY <2>1, <2>2, <2>3 DEF RecordEnqueued, Delivered, ReopenFromDlq
  <1>5. Grows /\ RowTypes
    BY <1>1, <1>2, <1>4 DEF Grows, RowTypes, TypeOK
  <1> QED BY <1>2, <1>3, <1>4, <1>5, MsgMoves

(***************************************************************************)
(* Time and the queue.                                                     *)
(***************************************************************************)

LEMMA TimeMoves ==
  ASSUME IInv, OutElapses \/ PushElapses \/ Delay \/ Duplicate
  PROVE  Moves
  <1>1. /\ TypeOK /\ Known /\ faults \in 0..MaxFaults /\ out \in OutRow /\ push \in PushRow
        /\ msg \in [Msgs -> Msg] /\ proc \in [Procs -> Proc]
    BY DEF IInv, TypeOK
  <1>2. /\ UNCHANGED <<wants, proc, posts>> /\ Quiet /\ faults' \in 0..MaxFaults
    BY <1>1, FaultType DEF OutElapses, PushElapses, Delay, Duplicate, TimeFrame, Quiet
  <1>3. /\ out' \in OutRow /\ out'.status = out.status
        /\ push' \in PushRow /\ push'.status = push.status
        /\ out' = out \/ push' = push
    <2>1. CASE out' = [out EXCEPT !.stale = TRUE] /\ push' = push
      BY <1>1, <2>1 DEF OutRow
    <2>2. CASE push' = [push EXCEPT !.stale = TRUE] /\ out' = out
      BY <1>1, <2>2 DEF PushRow
    <2>3. CASE push' = push /\ out' = out
      BY <1>1, <2>3
    <2> QED BY <2>1, <2>2, <2>3 DEF OutElapses, PushElapses, Delay, Duplicate
  <1>4. Grows /\ RowTypes
    BY <1>1, <1>2, <1>3 DEF Grows, OutGrows, PushGrows, RowTypes, TypeOK
  <1>5. msg' \in [Msgs -> Msg] /\ \A m \in Msgs : msg'[m] = msg[m] \/ MsgOK(m)'
    <2>1. CASE Duplicate
      <3>1. push.status # "none"
        BY <1>1, <2>1 DEF Duplicate, Known, MsgOK
      <3> QED BY <2>1, <3>1, AcceptedOK DEF Duplicate
    <2>2. CASE OutElapses \/ PushElapses \/ Delay
      BY <1>1, <2>2 DEF OutElapses, PushElapses, Delay
    <2> QED BY <2>1, <2>2
  <1>6. TypeOK'
    BY <1>1, <1>2, <1>4, <1>5, QuietEmission DEF TypeOK, RowTypes
  <1> QED BY <1>2, <1>4, <1>5, <1>6, QuietEmission DEF Moves

(***************************************************************************)
(* The theorems.                                                           *)
(***************************************************************************)

LEMMA CommitKeeps ==
  ASSUME IInv, CommitOutcome
  PROVE  IInv' /\ Promise!Next
  <1>1. TypeOK /\ Known /\ None \in Procs \cup {None}
    BY DEF IInv
  <1>2. /\ out.status = "none" /\ SetOut("queued", None)
        /\ UNCHANGED <<push, inbox, emitted, wants, proc, msg, posts, faults>>
    BY DEF CommitOutcome
  <1>3. out' \in OutRow /\ out'.status = "queued"
    BY <1>1, <1>2, SetOutType
  <1>4. push.status = "none"
    BY <1>1, <1>2 DEF Known, RowsOK
  <1>5. IInv'
    BY <1>1, <1>2, <1>3
       DEF IInv, TypeOK, Known, RowsOK, EmittedOnce, ProcOK, MsgOK, Answered
  <1>6. Debt = "none" /\ Debt' = "owed"
    BY <1>2, <1>3, <1>4, DebtIs, DebtIsNext DEF Settled
  <1> QED BY <1>2, <1>5, <1>6 DEF Promise!Next, Promise!Commit

LEMMA OptOutKeeps ==
  ASSUME IInv, OptOut
  PROVE  IInv' /\ Promise!Next
  <1>1. TypeOK /\ Known
    BY DEF IInv
  <1>2. /\ wants' = FALSE
        /\ UNCHANGED <<out, push, inbox, emitted, proc, msg, posts, faults>>
    BY DEF OptOut
  <1>3. IInv'
    BY <1>1, <1>2
       DEF IInv, TypeOK, Known, RowsOK, EmittedOnce, ProcOK, MsgOK, Answered
  <1>4. Debt' = Debt
    BY <1>2 DEF Debt, Settled
  <1> QED BY <1>2, <1>3, <1>4 DEF Promise!Next, Promise!Decline

LEMMA StepIs ==
  ASSUME IInv, Next
  PROVE  CommitOutcome \/ OptOut \/ Moves
  <1>1. ASSUME NEW x \in Dispatchers, SelectOutcome(x)
        PROVE  Moves
    BY <1>1, OutcomeMoves DEF Procs
  <1>2. ASSUME NEW x \in Procs, SelectPush(x) \/ ProcStep(x) \/ ProcFault(x)
        PROVE  Moves
    BY <1>2, OutcomeMoves, CreateMoves, CreateThrowsMoves, DeliveredMoves, PushStepMoves,
       SendMoves DEF ProcStep, ProcFault
  <1>3. ASSUME NEW m \in Msgs, MsgStep(m) \/ MsgFault(m)
        PROVE  Moves
    BY <1>3, ConsumerMoves, DeliverMoves, RecordMoves DEF MsgStep, MsgFault
  <1> QED BY <1>1, <1>2, <1>3, TimeMoves DEF Next

LEMMA InitIInv == Init => IInv
  <1> SUFFICES ASSUME Init PROVE IInv
    OBVIOUS
  <1>1. /\ Idle \in Proc /\ Free \in Msg /\ NoRow \in OutRow /\ NoRow \in PushRow
        /\ NoRow.status = "none" /\ Idle.pc = "idle" /\ Free.pc = "free"
    BY DeliveryAssumption
       DEF Idle, Proc, Pc, PushStatus, Free, Msg, MsgPc, NoRow, OutRow, PushRow
  <1>2. /\ \A x \in Procs : proc[x] = Idle
        /\ \A m \in Msgs : msg[m] = Free
        /\ out.status = "none" /\ push.status = "none" /\ posts = 0 /\ emitted = 0
    BY <1>1 DEF Init
  <1>3. TypeOK
    <2>1. proc \in [Procs -> Proc] /\ msg \in [Msgs -> Msg]
      BY <1>1 DEF Init
    <2>2. /\ inbox \in BOOLEAN /\ wants \in BOOLEAN /\ emitted \in Nat /\ posts \in Nat
          /\ out \in OutRow /\ push \in PushRow
      BY <1>1 DEF Init
    <2>3. faults \in 0..MaxFaults
      BY DeliveryAssumption DEF Init
    <2> QED BY <2>1, <2>2, <2>3 DEF TypeOK
  <1>4. Known
    BY <1>1, <1>2 DEF Known, RowsOK, EmittedOnce, ProcOK, MsgOK, PushPcs, Answered
  <1> QED BY <1>3, <1>4 DEF IInv

LEMMA NextIInv == IInv /\ [Next]_vars => IInv'
  <1> SUFFICES ASSUME IInv, [Next]_vars PROVE IInv'
    OBVIOUS
  <1>1. CASE Next
    BY <1>1, StepIs, CommitKeeps, OptOutKeeps, MovesKeeps
  <1>2. CASE UNCHANGED vars
    BY <1>2 DEF vars, IInv, TypeOK, Known, RowsOK, EmittedOnce, ProcOK, MsgOK, Answered
  <1> QED BY <1>1, <1>2

THEOREM SpecIInv == Spec => []IInv
  BY InitIInv, NextIInv, PTL DEF Spec

\* Every variable of the delivery keeps its type.
THEOREM DeliveryTypeCorrect == Spec => []TypeOK
  <1>1. IInv => TypeOK
    BY DEF IInv
  <1> QED BY SpecIInv, <1>1, PTL

\* However often the outcome is dispatched, the user's notifier hears of it at
\* most once.
THEOREM EmissionIsUnique == Spec => []OneEmission
  <1>1. IInv => OneEmission
    BY DEF IInv, Known, EmittedOnce, OneEmission
  <1> QED BY SpecIInv, <1>1, PTL

\* The outboxes implement Announcement: the debt is settled only after an
\* answer of the gateway or a refusal of the user, and an answered one stays
\* settled.
THEOREM DeliveryKeepsPromise == Spec => KeepsPromise
  <1>1. Init => Promise!Init
    <2> SUFFICES ASSUME Init PROVE Promise!Init
      OBVIOUS
    <2>1. out.status = "none" /\ posts = 0 /\ wants = TRUE
      BY DEF Init, NoRow
    <2>2. Debt = "none"
      BY <2>1, DebtIs
    <2> QED BY <2>1, <2>2 DEF Promise!Init
  <1>2. IInv /\ [Next]_vars => [Promise!Next]_(Promise!vars)
    <2> SUFFICES ASSUME IInv, [Next]_vars PROVE [Promise!Next]_(Promise!vars)
      OBVIOUS
    <2>1. CASE Next
      BY <2>1, StepIs, CommitKeeps, OptOutKeeps, GrowsRefines DEF Moves
    <2>2. CASE UNCHANGED vars
      BY <2>2 DEF vars, Promise!vars, Debt, Settled
    <2> QED BY <2>1, <2>2
  <1> QED BY SpecIInv, <1>1, <1>2, PTL DEF Spec, KeepsPromise, Promise!Spec

(***************************************************************************)
(* Without a fault the event has one bearer at a time: the invocation that  *)
(* claimed the row and has not sent, then one message, then nobody.         *)
(***************************************************************************)

QueueIsEmpty == \A m \in Msgs : msg[m].pc = "free"

Handed == {"dispatching", "enqueued", "done"}

SenderOK(x) ==
    /\ proc[x].pc \notin {"sync", "syncDone", "pushRevert"}
    /\ proc[x].pc = "pushClaim" => x \in Sweepers \/ proc[x].seen = "queued"
    /\ proc[x].pc = "pushStatus" => push.status \in Handed
    /\ proc[x].pc = "pushSend" =>
         /\ push.status = "dispatching" /\ push.token = x
         /\ QueueIsEmpty /\ posts = 0

OnlyMsg(m) ==
    /\ \A n \in Msgs \ {m} : msg[n].pc = "free"
    /\ \/ msg[m].pc \in {"waiting", "record"}
       \/ msg[m].pc \in {"prefs", "deliver", "done"} /\ push.status = "enqueued"
    /\ push.status \in {"dispatching", "enqueued"}
    /\ msg[m].pc # "done" => posts = 0

PushOK ==
    /\ ~push.stale
    /\ push.status \in {"none", "queued"} => QueueIsEmpty /\ posts = 0
    /\ push.status = "dispatching" =>
         /\ posts = 0 /\ push.token \in Procs
         /\ \/ proc[push.token].pc = "pushSend"
            \/ proc[push.token].pc = "pushFinalize" /\ ~QueueIsEmpty
    /\ push.status = "enqueued" => ~QueueIsEmpty
    /\ posts <= 1

OneBearer ==
    /\ PushOK
    /\ \A x \in Procs : SenderOK(x)
    /\ \A m \in Msgs : msg[m].pc # "free" => OnlyMsg(m)

\* What the statements of an invocation do to its program counter.
LEMMA GoesTo ==
  ASSUME TypeOK, NEW x \in Procs, NEW pc, NEW seen, GotoSeen(x, pc, seen)
  PROVE  /\ proc'[x].pc = pc /\ proc'[x].seen = seen
         /\ \A y \in Procs \ {x} : proc'[y] = proc[y]
  BY DEF TypeOK, GotoSeen

\* An invocation that is neither sending nor has just sent moves on.
LEMMA OthersMove ==
  ASSUME TypeOK, OneBearer, NEW x \in Procs, NEW pc, NEW seen, GotoSeen(x, pc, seen),
         UNCHANGED <<push, msg, posts>>,
         proc[x].pc \notin {"pushSend", "pushFinalize"},
         pc \notin {"sync", "syncDone", "pushRevert", "pushSend"},
         pc = "pushClaim" => x \in Sweepers \/ seen = "queued",
         pc = "pushStatus" => push.status \in Handed
  PROVE  OneBearer'
  <1>1. /\ proc'[x].pc = pc /\ proc'[x].seen = seen
        /\ \A y \in Procs \ {x} : proc'[y] = proc[y]
    BY GoesTo
  <1>2. PushOK'
    BY <1>1 DEF OneBearer, PushOK, QueueIsEmpty
  <1>3. \A y \in Procs : SenderOK(y)'
    BY <1>1 DEF OneBearer, SenderOK, QueueIsEmpty
  <1>4. \A m \in Msgs : msg'[m].pc # "free" => OnlyMsg(m)'
    BY DEF OneBearer, OnlyMsg
  <1> QED BY <1>2, <1>3, <1>4 DEF OneBearer

\* The row appears.
LEMMA EnsureKeepsBearer ==
  ASSUME TypeOK, OneBearer, NEW x \in Procs, EnsurePush(x), push.status = "none"
  PROVE  OneBearer'
  <1>1. push'.status = "queued" /\ ~push'.stale /\ UNCHANGED <<msg, posts>>
    BY DEF EnsurePush, SetPush, CreateFrame
  <1>2. proc'[x].pc = "pushSelect" /\ \A y \in Procs \ {x} : proc'[y] = proc[y]
    BY GotoIs, GoesTo DEF EnsurePush
  <1>3. QueueIsEmpty /\ posts = 0
    BY DEF OneBearer, PushOK
  <1>4. PushOK'
    BY <1>1, <1>3 DEF PushOK, QueueIsEmpty
  <1>5. \A y \in Procs : SenderOK(y)'
    BY <1>1, <1>2 DEF OneBearer, SenderOK, Handed
  <1>6. QueueIsEmpty'
    BY <1>1, <1>3 DEF QueueIsEmpty
  <1> QED BY <1>4, <1>5, <1>6 DEF OneBearer, QueueIsEmpty

\* A queued row is claimed: nobody else is sending.
LEMMA ClaimKeepsBearer ==
  ASSUME TypeOK, OneBearer, NEW x \in Procs, push.status = "queued",
         SetPush("dispatching", x), Goto(x, "pushSend"), UNCHANGED <<msg, posts>>
  PROVE  OneBearer'
  <1>1. push'.status = "dispatching" /\ push'.token = x /\ ~push'.stale
    BY DEF SetPush
  <1>2. proc'[x].pc = "pushSend" /\ \A y \in Procs \ {x} : proc'[y] = proc[y]
    BY GotoIs, GoesTo
  <1>3. QueueIsEmpty' /\ posts' = 0
    BY DEF OneBearer, PushOK, QueueIsEmpty
  <1>4. PushOK'
    BY <1>1, <1>2, <1>3 DEF PushOK
  <1>5. \A y \in Procs : SenderOK(y)'
    BY <1>1, <1>2, <1>3 DEF OneBearer, SenderOK, Handed
  <1> QED BY <1>3, <1>4, <1>5 DEF OneBearer, QueueIsEmpty

\* The claimant's send puts the only message into the queue.
LEMMA SendKeepsBearer ==
  ASSUME TypeOK, OneBearer, NEW x \in Procs, SendPush(x)
  PROVE  OneBearer'
  <1>1. push.status = "dispatching" /\ push.token = x /\ QueueIsEmpty /\ posts = 0
    BY DEF SendPush, OneBearer, SenderOK
  <1>2. UNCHANGED <<push, posts>>
    BY DEF SendPush, PushFrame
  <1>3. proc'[x].pc = "pushFinalize" /\ \A y \in Procs \ {x} : proc'[y] = proc[y]
    BY GotoIs, GoesTo DEF SendPush
  <1>4. PICK m \in Msgs : msg' = [msg EXCEPT ![m].pc = "waiting"]
    BY DEF SendPush, Accept
  <1>5. msg'[m].pc = "waiting" /\ \A n \in Msgs \ {m} : msg'[n] = msg[n]
    BY <1>4 DEF TypeOK, Msg
  <1>6. ~QueueIsEmpty'
    BY <1>5 DEF QueueIsEmpty
  <1>7. PushOK'
    BY <1>1, <1>2, <1>3, <1>6 DEF OneBearer, PushOK
  <1>8. \A y \in Procs : SenderOK(y)'
    BY <1>1, <1>2, <1>3 DEF OneBearer, SenderOK
  <1>9. \A n \in Msgs : msg'[n].pc # "free" => OnlyMsg(n)'
    BY <1>1, <1>2, <1>5 DEF OnlyMsg, QueueIsEmpty
  <1> QED BY <1>7, <1>8, <1>9 DEF OneBearer

\* The sender records that the queue has the event, if the consumer has not.
LEMMA FinalizeKeepsBearer ==
  ASSUME TypeOK, OneBearer, NEW x \in Procs, FinalizePush(x)
  PROVE  OneBearer'
  <1>1. UNCHANGED <<msg, posts>> /\ proc[x].pc = "pushFinalize" /\ push \in PushRow
    BY DEF FinalizePush, PushFrame, TypeOK
  <1>2. PICK pc \in {"idle", "finish"} : Goto(x, pc)
    BY DEF FinalizePush, Return
  <1>3. proc'[x].pc = pc /\ \A y \in Procs \ {x} : proc'[y] = proc[y]
    BY <1>2, GotoIs, GoesTo
  <1>4. CASE HoldsPush(x)
    <2>1. ~QueueIsEmpty
      BY <1>1, <1>4 DEF HoldsPush, OneBearer, PushOK
    <2>2. push'.status = "enqueued" /\ push'.stale = push.stale
      BY <1>1, <1>4 DEF FinalizePush, Enqueued, PushRow
    <2>3. PushOK'
      BY <1>1, <1>4, <2>1, <2>2 DEF OneBearer, PushOK, QueueIsEmpty, HoldsPush
    <2>4. \A y \in Procs : SenderOK(y)'
      <3>1. \A y \in Procs : proc[y].pc # "pushSend"
        BY <2>1 DEF OneBearer, SenderOK
      <3> QED BY <1>3, <2>2, <3>1 DEF OneBearer, SenderOK, Handed
    <2>5. \A m \in Msgs : msg'[m].pc # "free" => OnlyMsg(m)'
      BY <1>1, <2>2 DEF OneBearer, OnlyMsg
    <2> QED BY <2>3, <2>4, <2>5 DEF OneBearer
  <1>5. CASE ~HoldsPush(x)
    <2>1. UNCHANGED push
      BY <1>5 DEF FinalizePush, Enqueued
    <2>2. PushOK'
      BY <1>1, <1>3, <1>5, <2>1 DEF OneBearer, PushOK, QueueIsEmpty, HoldsPush
    <2>3. \A y \in Procs : SenderOK(y)'
      BY <1>1, <1>3, <2>1 DEF OneBearer, SenderOK, QueueIsEmpty
    <2>4. \A m \in Msgs : msg'[m].pc # "free" => OnlyMsg(m)'
      BY <1>1, <2>1 DEF OneBearer, OnlyMsg
    <2> QED BY <2>2, <2>3, <2>4 DEF OneBearer
  <1> QED BY <1>4, <1>5

\* The statements of the only message's consumer.
LEMMA ConsumerKeepsBearer ==
  ASSUME TypeOK, OneBearer, NEW m \in Msgs, MsgStep(m)
  PROVE  OneBearer'
  <1>1. /\ msg \in [Msgs -> Msg] /\ push \in PushRow /\ posts \in Nat
        /\ UNCHANGED proc
    BY DEF TypeOK, MsgStep, ReceivePush, RecordEnqueued, RereadPreferences, Deliver,
       Delivered, ReopenFromDlq, ConsumerFrame
  <1>2. msg[m].pc # "free" /\ OnlyMsg(m) /\ ~QueueIsEmpty
    BY DEF MsgStep, ReceivePush, RecordEnqueued, RereadPreferences, Deliver, Delivered,
       ReopenFromDlq, OneBearer, QueueIsEmpty
  <1>3. \A x \in Procs : proc[x].pc # "pushSend" /\ SenderOK(x)
    BY <1>2 DEF OneBearer, SenderOK
  <1>4. PushOK /\ push.status \in {"dispatching", "enqueued"}
    BY <1>2 DEF OneBearer, OnlyMsg
  <1>5. ASSUME NEW pc \in {"record", "prefs", "deliver", "done"}, To(m, pc),
               \/ UNCHANGED push
               \/ push' = [status |-> "enqueued", token |-> None, stale |-> FALSE],
               pc = "record" \/ push'.status = "enqueued",
               posts' <= 1, push'.status = "dispatching" \/ pc # "done" => posts' = 0
        PROVE  OneBearer'
    <2>1. msg'[m].pc = pc /\ \A n \in Msgs \ {m} : msg'[n] = msg[n]
      BY <1>1, <1>5 DEF To, Msg
    <2>2. ~QueueIsEmpty'
      BY <2>1 DEF QueueIsEmpty
    <2>3. /\ push'.status \in {"dispatching", "enqueued"} /\ ~push'.stale
          /\ push'.status = "dispatching" => UNCHANGED push
      BY <1>4, <1>5 DEF PushOK
    <2>4. PushOK'
      BY <1>1, <1>3, <1>4, <1>5, <2>2, <2>3 DEF PushOK
    <2>5. \A x \in Procs : SenderOK(x)'
      BY <1>1, <1>3, <2>3 DEF SenderOK, Handed
    <2>6. \A n \in Msgs : msg'[n].pc # "free" => OnlyMsg(n)'
      BY <1>2, <1>5, <2>1, <2>3 DEF OnlyMsg
    <2> QED BY <2>4, <2>5, <2>6 DEF OneBearer
  <1>6. CASE ReceivePush(m)
    BY <1>2, <1>4, <1>5, <1>6 DEF ReceivePush, OnlyMsg, PushOK
  <1>7. CASE RecordEnqueued(m)
    <2>1. push' = [status |-> "enqueued", token |-> None, stale |-> FALSE]
          /\ To(m, "prefs")
      BY <1>4, <1>7 DEF RecordEnqueued, SetPush
    <2>2. push'.status = "enqueued" /\ posts' = 0
      BY <1>2, <1>7, <2>1 DEF RecordEnqueued, OnlyMsg
    <2> QED BY <1>5, <2>1, <2>2
  <1>8. CASE RereadPreferences(m)
    <2>1. /\ push.status = "enqueued" /\ posts = 0 /\ UNCHANGED <<push, posts>>
          /\ To(m, "deliver") \/ To(m, "done")
      BY <1>2, <1>8 DEF RereadPreferences, OnlyMsg
    <2> QED BY <1>5, <2>1
  <1>9. CASE Deliver(m)
    <2>1. /\ push.status = "enqueued" /\ posts = 0 /\ UNCHANGED push
          /\ posts' = posts + 1 /\ To(m, "done")
      BY <1>2, <1>9 DEF Deliver, OnlyMsg
    <2> QED BY <1>5, <2>1
  <1>10. CASE Delivered(m)
    <2>1. push'.status = "done" /\ ~push'.stale /\ UNCHANGED posts
      BY <1>4, <1>10 DEF Delivered, MarkDone, SetPush
    <2>2. msg' = [msg EXCEPT ![m] = Free] /\ Free.pc = "free"
      BY <1>10 DEF Delivered, Ack, Free
    <2>3. \A n \in Msgs : msg'[n].pc = "free"
      BY <1>1, <1>2, <2>2 DEF OnlyMsg
    <2>4. PushOK'
      BY <1>4, <2>1 DEF PushOK
    <2>5. \A x \in Procs : SenderOK(x)'
      BY <1>1, <1>3, <2>1 DEF SenderOK, Handed
    <2> QED BY <2>3, <2>4, <2>5 DEF OneBearer
  <1>11. ~ReopenFromDlq(m)
    BY <1>2 DEF ReopenFromDlq, OnlyMsg
  <1> QED BY <1>6, <1>7, <1>8, <1>9, <1>10, <1>11 DEF MsgStep

\* The statements of dispatchers and sweepers.
LEMMA ProcKeepsBearer ==
  ASSUME IInv, OneBearer, NEW x \in Procs, SelectPush(x) \/ ProcStep(x)
  PROVE  OneBearer'
  <1>1. TypeOK /\ ProcOK(x) /\ SenderOK(x) /\ PushOK /\ push \in PushRow
    BY DEF IInv, Known, OneBearer, TypeOK
  <1>2. ASSUME UNCHANGED <<push, msg, posts>>,
               proc[x].pc \notin {"pushSend", "pushFinalize"},
               NEW pc \in Pc \ {"sync", "syncDone", "pushRevert", "pushSend"}, NEW seen,
               GotoSeen(x, pc, seen), pc = "pushStatus" => push.status \in Handed,
               pc = "pushClaim" => x \in Sweepers \/ seen = "queued"
        PROVE  OneBearer'
    BY <1>1, <1>2, OthersMove
  <1>3. CASE \/ ClaimOutcome(x) \/ FinishOutcome(x) \/ RevertOutcome(x)
             \/ ReadPreferences(x) \/ InsertNotification(x)
    <2>1. UNCHANGED <<push, msg, posts>> /\ proc[x].pc \notin {"pushSend", "pushFinalize"}
      BY <1>3 DEF ClaimOutcome, FinishOutcome, RevertOutcome, ReadPreferences,
         InsertNotification, OutFrame, CreateFrame
    <2>2. \E pc \in {"create", "idle", "insert", "ensure", "finish"} : \E seen :
            GotoSeen(x, pc, seen)
      BY <1>3, GotoIs DEF ClaimOutcome, FinishOutcome, RevertOutcome, ReadPreferences,
         InsertNotification
    <2> QED BY <1>2, <2>1, <2>2 DEF Pc
  <1>4. CASE EnsurePush(x)
    <2>1. CASE push.status # "none"
      <3>1. /\ UNCHANGED <<push, msg, posts>> /\ GotoSeen(x, "pushSelect", "none")
            /\ proc[x].pc = "ensure"
        BY <1>4, <2>1, GotoIs DEF EnsurePush, CreateFrame
      <3> QED BY <1>2, <3>1 DEF Pc
    <2> QED BY <1>1, <1>4, <2>1, EnsureKeepsBearer
  <1>5. ASSUME Return(x, FALSE), UNCHANGED <<push, msg, posts>>,
               proc[x].pc \notin {"pushSend", "pushFinalize"},
               x \notin Sweepers => push.status \in Handed
        PROVE  OneBearer'
    <2>1. PICK pc \in {"idle", "pushStatus"} :
            GotoSeen(x, pc, "none") /\ (pc = "pushStatus" => x \notin Sweepers)
      BY <1>5, GotoIs DEF Return
    <2> QED BY <1>2, <1>5, <2>1 DEF Pc
  <1>6. push.status # "none" => push.status \in Handed \/ push.status = "queued"
    BY <1>1 DEF PushRow, PushStatus, Handed
  <1>7. CASE SelectPush(x)
    <2>1. /\ UNCHANGED <<push, msg, posts>> /\ proc[x].pc \in {"idle", "pushSelect"}
          /\ x \notin Sweepers => proc[x].pc = "pushSelect"
          /\ \/ /\ GotoSeen(x, "pushClaim", push.status)
                /\ x \in Sweepers \/ push.status = "queued"
             \/ Return(x, FALSE) /\ x \notin Sweepers /\ ~PushDispatchable(x, "queued")
             \/ Return(x, FALSE) /\ x \notin Sweepers /\ push.status # "queued"
      BY <1>7 DEF SelectPush, PushFrame, PushDispatchable
    <2>2. CASE /\ GotoSeen(x, "pushClaim", push.status)
               /\ x \in Sweepers \/ push.status = "queued"
      BY <1>2, <2>1, <2>2 DEF Pc
    <2>3. CASE Return(x, FALSE) /\ x \notin Sweepers /\ push.status # "queued"
      <3>1. push.status # "none"
        BY <1>1, <2>1, <2>3 DEF ProcOK, PushPcs
      <3> QED BY <1>5, <1>6, <2>1, <2>3, <3>1
    <2> QED BY <2>1, <2>2, <2>3 DEF PushDispatchable
  <1>8. CASE ClaimPush(x)
    <2>1. proc[x].pc = "pushClaim" /\ UNCHANGED <<msg, posts>> /\ push.status # "none"
      BY <1>1, <1>8 DEF ClaimPush, PushFrame, ProcOK, PushPcs
    <2>2. CASE PushDispatchable(x, proc[x].seen)
      <3>1. push.status = "queued"
        BY <1>1, <2>2 DEF PushDispatchable, PushOK
      <3> QED BY <1>1, <1>8, <2>1, <2>2, <3>1, ClaimKeepsBearer DEF ClaimPush
    <2>3. CASE ~PushDispatchable(x, proc[x].seen)
      <3>1. Return(x, FALSE) /\ UNCHANGED push
        BY <1>8, <2>3 DEF ClaimPush
      <3>2. x \notin Sweepers => push.status \in Handed
        BY <1>1, <1>6, <2>1, <2>3 DEF PushDispatchable, SenderOK
      <3> QED BY <1>5, <2>1, <3>1, <3>2
    <2> QED BY <2>2, <2>3
  <1>9. CASE ReadPushStatus(x)
    <2>1. /\ UNCHANGED <<push, msg, posts>> /\ GotoSeen(x, "finish", "none")
          /\ proc[x].pc = "pushStatus"
      BY <1>1, <1>9, GotoIs DEF ReadPushStatus, CreateFrame, SenderOK, Handed
    <2> QED BY <1>2, <2>1 DEF Pc
  <1>10. ~DeliverNow(x) /\ ~DeliveredNow(x) /\ ~RevertPush(x)
    BY <1>1 DEF DeliverNow, DeliveredNow, RevertPush, SenderOK
  <1> QED BY <1>1, <1>3, <1>4, <1>7, <1>8, <1>9, <1>10, SendKeepsBearer,
             FinalizeKeepsBearer DEF ProcStep

LEMMA BearerStep ==
  ASSUME IInv, faults = 0 => OneBearer, Next
  PROVE  faults' = 0 => OneBearer'
  <1> SUFFICES ASSUME faults' = 0 PROVE OneBearer'
    OBVIOUS
  <1>1. TypeOK /\ faults \in Nat
    BY DeliveryAssumption DEF IInv, TypeOK
  <1>2. ~Fault
    BY <1>1 DEF Fault
  <1>3. /\ \A x \in Procs : ~ProcFault(x)
        /\ \A m \in Msgs : ~MsgFault(m)
        /\ ~Delay /\ ~Duplicate
    BY <1>2 DEF ProcFault, MsgFault, FinishThrows, CreateThrows, HandoffThrows,
       DeliverNowFails, DeliveredNowThrows, SendPushThrows, FinalizePushThrows,
       RevertPushThrows, ProcStops, DeliverFails, GatewayDown, ConsumerStops,
       DeadLetterDropped, Delay, Duplicate
  <1>4. OneBearer
    <2>1. UNCHANGED faults
      BY <1>2, <1>3 DEF Next, CommitOutcome, OptOut, SelectOutcome, SelectPush, ProcStep,
         ClaimOutcome, ReadPreferences, InsertNotification, EnsurePush, ClaimPush,
         SendPush, FinalizePush, RevertPush, ReadPushStatus, DeliverNow, DeliveredNow,
         FinishOutcome, RevertOutcome, MsgStep, ReceivePush, RecordEnqueued,
         RereadPreferences, Deliver, Delivered, ReopenFromDlq, OutElapses, PushElapses
    <2> QED BY <2>1
  <1>5. CASE CommitOutcome \/ OptOut \/ OutElapses
    <2>1. UNCHANGED <<push, proc, msg, posts>>
      BY <1>5 DEF CommitOutcome, OptOut, OutElapses, TimeFrame
    <2> QED BY <1>4, <2>1 DEF OneBearer, PushOK, SenderOK, OnlyMsg, QueueIsEmpty
  <1>6. ASSUME NEW x \in Dispatchers, SelectOutcome(x) PROVE OneBearer'
    <2>1. /\ x \in Procs /\ UNCHANGED <<push, msg, posts>> /\ proc[x].pc = "idle"
          /\ \E seen : GotoSeen(x, "claim", seen)
      BY <1>6 DEF SelectOutcome, OutFrame, Procs
    <2> QED BY <1>1, <1>4, <2>1, OthersMove
  <1>7. ~PushElapses
    <2> SUFFICES ASSUME PushElapses PROVE FALSE
      OBVIOUS
    <2>1. QueueIsEmpty /\ push.status = "dispatching"
      BY <1>4 DEF PushElapses, PushOwned, QueueIsEmpty, OneBearer, PushOK
    <2>2. push.token \in Procs /\ proc[push.token].pc = "pushSend"
      BY <1>4, <2>1 DEF OneBearer, PushOK
    <2>3. push.token # None
      BY <2>2, DeliveryAssumption DEF Procs
    <2> QED BY <2>2, <2>3 DEF PushElapses, PushOwned
  <1> QED BY <1>1, <1>3, <1>4, <1>5, <1>6, <1>7, ProcKeepsBearer, ConsumerKeepsBearer
          DEF Next

\* Flush, cron and sweep share the event: as long as nothing fails, the claim of
\* the push outbox and the queue's ownership of the row keep the gateway from
\* hearing of an outcome twice, for any number of dispatchers, sweepers and
\* messages.
THEOREM PostIsUnique == Spec => []OnePostWithoutFaults
  <1> DEFINE Inv == faults = 0 => OneBearer
  <1>1. ASSUME Init PROVE Inv
    <2>1. /\ push.status = "none" /\ ~push.stale /\ posts = 0
          /\ \A x \in Procs : proc[x].pc = "idle"
          /\ \A m \in Msgs : msg[m].pc = "free"
      BY <1>1 DEF Init, NoRow, Idle, Free
    <2> QED BY <2>1 DEF OneBearer, PushOK, SenderOK, QueueIsEmpty
  <1>2. IInv /\ Inv /\ [Next]_vars => Inv'
    <2>1. Inv /\ UNCHANGED vars => Inv'
      BY DEF vars, OneBearer, PushOK, SenderOK, OnlyMsg, QueueIsEmpty
    <2> QED BY <2>1, BearerStep
  <1>3. Inv => OnePostWithoutFaults
    BY DEF OneBearer, PushOK, OnePostWithoutFaults
  <1> HIDE DEF Inv
  <1> QED BY <1>1, <1>2, <1>3, SpecIInv, PTL DEF Spec

(***************************************************************************)
(* The event stream (module RunEvents), for every size of its segments,     *)
(* ring, buffer and set of keys, any steps, ids and faults.  It shares no   *)
(* variable with the outboxes above.                                        *)
(*                                                                         *)
(* As long as the notifier reads its state (StreamInv): ids are counted     *)
(* (Numbered); what is written is never ahead of the counter, and only an   *)
(* event that ends a stream closes a segment early (SegmentsClosed); the     *)
(* buffer is behind what is written (BufferWaits), so a write replaces      *)
(* nothing that is kept (AllKept), also when the object then dies; while no *)
(* write fails the buffer is the end of the ring, because a segment has no  *)
(* more events than ids (RingCovers); and a key is forgotten only after     *)
(* MaxKeys later ones (KeysRemembered).                                     *)
(***************************************************************************)

(***************************************************************************)
(* The operators: segments, bounded buffers, ranges.                        *)
(***************************************************************************)

LEMMA EvSizes ==
  /\ SegmentSize \in Nat \ {0} /\ RingSize \in Nat \ {0}
  /\ MaxBuffer \in Nat \ {0} /\ MaxKeys \in Nat \ {0}
  /\ RingSize >= SegmentSize /\ MaxBuffer >= SegmentSize
  BY EventAssumption

\* segmentIndexForEventId grows with the id, strictly behind a full segment.
LEMMA SegmentFacts ==
  ASSUME SegmentSize \in Nat \ {0}, NEW a \in Nat \ {0}, NEW b \in Nat \ {0}
  PROVE  /\ Segment(a) \in Nat \ {0}
         /\ a <= b => Segment(a) <= Segment(b)
         /\ a < b /\ a % SegmentSize = 0 => Segment(a) < Segment(b)
         /\ (Segment(a) - 1) * SegmentSize + 1 <= a
         /\ a <= (Segment(a) - 1) * SegmentSize + SegmentSize
  <1>1. Segment(a) \in Nat \ {0}
    BY SMTT(30) DEF Segment
  <1>2. a <= b => Segment(a) <= Segment(b)
    BY SMTT(30) DEF Segment
  <1>3. a < b /\ a % SegmentSize = 0 => Segment(a) < Segment(b)
    BY SMTT(30) DEF Segment
  <1>4. /\ (Segment(a) - 1) * SegmentSize + 1 <= a
        /\ a <= (Segment(a) - 1) * SegmentSize + SegmentSize
    BY SMTT(30) DEF Segment
  <1> QED BY <1>1, <1>2, <1>3, <1>4

LEMMA MaxOfTwo ==
  ASSUME NEW a \in Int, NEW b \in Int
  PROVE  Max({a, b}) = IF a <= b THEN b ELSE a
  BY DEF Max

\* A bounded buffer keeps its last elements, all of them while it has room.
LEMMA NewestFacts ==
  ASSUME NEW S, NEW s \in Seq(S), NEW k \in Nat \ {0}
  PROVE  /\ Newest(s, k) \in Seq(S)
         /\ Len(Newest(s, k)) = IF Len(s) <= k THEN Len(s) ELSE k
         /\ \A i \in 1..Len(Newest(s, k)) :
              Newest(s, k)[i] = s[Len(s) - Len(Newest(s, k)) + i]
         /\ Len(s) <= k => Newest(s, k) = s
  <1>1. Newest(s, k) = IF Len(s) <= k THEN SubSeq(s, 1, Len(s))
                                         ELSE SubSeq(s, Len(s) - k + 1, Len(s))
    BY MaxOfTwo DEF Newest
  <1>2. CASE Len(s) <= k
    <2>1. Newest(s, k) = SubSeq(s, 1, Len(s))
      BY <1>1, <1>2
    <2>2. SubSeq(s, 1, Len(s)) \in Seq(S) /\ Len(SubSeq(s, 1, Len(s))) = Len(s)
      OBVIOUS
    <2>3. \A i \in 1..Len(s) : SubSeq(s, 1, Len(s))[i] = s[i]
      OBVIOUS
    <2>4. SubSeq(s, 1, Len(s)) = s
      BY <2>2, <2>3, SeqEqual
    <2>5. Newest(s, k) = s
      BY <2>1, <2>4
    <2> QED BY <1>2, <2>5
  <1>3. CASE ~(Len(s) <= k)
    <2>1. Newest(s, k) = SubSeq(s, Len(s) - k + 1, Len(s))
      BY <1>1, <1>3
    <2>2. Len(Newest(s, k)) = k /\ Newest(s, k) \in Seq(S)
      BY <1>3, <2>1
    <2> QED BY <1>3, <2>1, <2>2
  <1> QED BY <1>2, <1>3

LEMMA NewestAt ==
  ASSUME NEW S, NEW s \in Seq(S), NEW k \in Nat \ {0}, NEW i \in 1..Len(Newest(s, k))
  PROVE  Newest(s, k)[i] = s[Len(s) - Len(Newest(s, k)) + i]
  BY NewestFacts

LEMMA NewestBound ==
  ASSUME NEW S, NEW s \in Seq(S), NEW k \in Nat \ {0}
  PROVE  Newest(s, k) \in Seq(S) /\ Len(Newest(s, k)) <= k
  <1>1. Newest(s, k) \in Seq(S)
    BY NewestFacts
  <1>2. Len(Newest(s, k)) = IF Len(s) <= k THEN Len(s) ELSE k
    BY NewestFacts
  <1>3. Len(s) \in Nat
    OBVIOUS
  <1> QED BY <1>1, <1>2, <1>3

LEMMA NewestOfNone ==
  ASSUME NEW k \in Nat \ {0}
  PROVE  Newest(<<>>, k) = <<>>
  <1>1. Newest(<<>>, k) = SubSeq(<<>>, 1, 0)
    BY MaxOfTwo DEF Newest
  <1> QED BY <1>1

LEMMA RangeFacts ==
  ASSUME NEW S, NEW s \in Seq(S), NEW e \in S, NEW k \in Nat \ {0}
  PROVE  /\ Range(s) = {s[i] : i \in 1..Len(s)} /\ Range(s) \subseteq S
         /\ Range(<<>>) = {}
         /\ Range(Append(s, e)) = Range(s) \cup {e}
         /\ Range(Newest(s, k)) \subseteq Range(s)
  <1>1. Range(s) = {s[i] : i \in 1..Len(s)} /\ Range(s) \subseteq S
    BY DEF Range
  <1>2. Range(<<>>) = {}
    BY DEF Range
  <1>3. Range(Append(s, e)) = Range(s) \cup {e}
    BY DEF Range
  <1>4. Range(Newest(s, k)) \subseteq Range(s)
    <2>1. /\ Newest(s, k) \in Seq(S) /\ Len(Newest(s, k)) <= Len(s) /\ Len(s) \in Nat
          /\ Len(Newest(s, k)) \in Nat
      BY NewestFacts
    <2>2. Range(Newest(s, k)) = {Newest(s, k)[i] : i \in 1..Len(Newest(s, k))}
      BY <2>1 DEF Range
    <2>3. ASSUME NEW i \in 1..Len(Newest(s, k))
          PROVE  Newest(s, k)[i] \in Range(s)
      <3>1. Newest(s, k)[i] = s[Len(s) - Len(Newest(s, k)) + i]
        BY NewestAt
      <3>2. Len(s) - Len(Newest(s, k)) + i \in 1..Len(s)
        BY <2>1
      <3> QED BY <1>1, <3>1, <3>2
    <2> QED BY <2>2, <2>3
  <1> QED BY <1>1, <1>2, <1>3, <1>4

(***************************************************************************)
(* What a new event does to the saved state: after the roll (Mid...) and in  *)
(* the end.                                                                  *)
(***************************************************************************)

MidBuffer(e, ok) ==
    IF Segment(e.id) # notifier.index /\ ok THEN <<>> ELSE notifier.buffer

\* The roll writes the buffer of the last segment.
RollWrites(e, ok) ==
    /\ Segment(e.id) # notifier.index /\ ok
    /\ notifier.buffer # <<>> /\ notifier.index > notifier.flushed

MidFlushed(e, ok) == IF RollWrites(e, ok) THEN notifier.index ELSE notifier.flushed

Written(a, buffer, s) ==
    {x \in a : x.segment # s} \cup {[segment |-> s, event |-> b] : b \in Range(buffer)}

MidArchive(e, ok) ==
    IF RollWrites(e, ok) THEN Written(archive, notifier.buffer, notifier.index)
                         ELSE archive

\* The segment of the event is written at once.
CloseWrites(e, r, c) == AtBoundary(e) /\ c /\ Segment(e.id) > MidFlushed(e, r)

EndBuffer(e, r, c) ==
    IF AtBoundary(e) /\ c THEN <<>>
    ELSE Newest(Append(MidBuffer(e, r), e), MaxBuffer)

EndFlushed(e, r, c) ==
    IF CloseWrites(e, r, c) THEN Segment(e.id) ELSE MidFlushed(e, r)

EndIndex(e, r, c) ==
    IF AtBoundary(e) /\ c
    THEN Max({Segment(e.id + 1), EndFlushed(e, r, c) + 1})
    ELSE Segment(e.id)

EndArchive(e, r, c) ==
    IF CloseWrites(e, r, c)
    THEN Written(MidArchive(e, r), Append(MidBuffer(e, r), e), Segment(e.id))
    ELSE MidArchive(e, r)

EndState(e, r, c) ==
    [counter |-> e.id,
     ring |-> Newest(Append(notifier.ring, e), RingSize),
     keys |-> IF e.key = Notice THEN notifier.keys
              ELSE Newest(Append(notifier.keys, e.key), MaxKeys),
     index |-> EndIndex(e, r, c),
     buffer |-> EndBuffer(e, r, c),
     flushed |-> EndFlushed(e, r, c)]

EndLost(e, r, c) ==
    IF AtBoundary(e) /\ c THEN {}
    ELSE Range(Append(MidBuffer(e, r), e)) \ Range(EndBuffer(e, r, c))

\* A new event: archived as its writes allow, saved unless the object dies.
Accepts(e, r, c, crash) ==
    /\ e.id > notifier.counter
    /\ e.key = Notice \/ e.key \notin Range(notifier.keys)
    /\ archive' = EndArchive(e, r, c)
    /\ IF crash THEN UNCHANGED <<notifier, accepted, trimmed>>
       ELSE /\ notifier' = EndState(e, r, c)
            /\ accepted' = accepted \cup {e}
            /\ trimmed' = trimmed \cup EndLost(e, r, c)
    /\ failed' = (failed \/ ~r \/ ~c)
    /\ UNCHANGED forgot

LEMMA NotifierFields ==
  ASSUME EventTypeOK
  PROVE  /\ notifier \in Notifier
         /\ notifier.counter \in Nat /\ notifier.index \in Nat \ {0} /\ notifier.flushed \in Nat
         /\ notifier.ring \in Seq(Event) /\ notifier.buffer \in Seq(Event)
         /\ notifier.keys \in Seq(Keys \ {Notice})
         /\ Len(notifier.buffer) <= MaxBuffer
         /\ notifier = [counter |-> notifier.counter, ring |-> notifier.ring,
                        keys |-> notifier.keys, index |-> notifier.index,
                        buffer |-> notifier.buffer, flushed |-> notifier.flushed]
  BY DEF EventTypeOK, Notifier

LEMMA NewId ==
  ASSUME EventTypeOK, NEW k \in Keys, NEW p \in Nat
  PROVE  /\ NextId(notifier, p) \in Nat \ {0}
         /\ NextId(notifier, p) > notifier.counter
         /\ [id |-> NextId(notifier, p), key |-> k] \in Event
  <1>1. notifier.counter \in Nat
    BY NotifierFields
  <1>2. NextId(notifier, p) \in Nat \ {0} /\ NextId(notifier, p) > notifier.counter
    BY <1>1 DEF NextId
  <1> QED BY <1>2 DEF Event

LEMMA EmitEffect ==
  ASSUME EventTypeOK, NEW k \in Keys, NEW p \in Nat,
         NEW r \in BOOLEAN, NEW c \in BOOLEAN, NEW crash \in BOOLEAN,
         EmitNew(k, p, r, c, crash)
  PROVE  \E e \in Event : e.key = k /\ Accepts(e, r, c, crash)
  <1> DEFINE e == [id |-> NextId(notifier, p), key |-> k]
             n1 == Remember(notifier, e)
             m == Rolled(n1, e, r)
             n2 == Pushed(m, e)
             n4 == Closed(n2, e, c)
             n3 == Trim(n4)
             a1 == IF Segment(e.id) # n1.index THEN Put(archive, n1, n1.index, r) ELSE archive
             a2 == IF AtBoundary(e) THEN Put(a1, n2, n2.index, c) ELSE a1
             lost == IF n3.buffer = <<>> THEN {} ELSE Range(n2.buffer) \ Range(n3.buffer)
             ring == Newest(Append(notifier.ring, e), RingSize)
             keys == IF e.key = Notice THEN notifier.keys
                     ELSE Newest(Append(notifier.keys, e.key), MaxKeys)
  <1>1. e \in Event /\ e.id > notifier.counter /\ e.key = k
    BY NewId
  <1>2. /\ k = Notice \/ k \notin Range(notifier.keys)
        /\ archive' = a2
        /\ Save(e, n3, lost, crash)
        /\ failed' = (failed \/ ~r \/ ~c)
        /\ UNCHANGED forgot
        /\ r \/ (Segment(e.id) # n1.index /\ Writes(n1, n1.index))
        /\ c \/ (AtBoundary(e) /\ Writes(n2, n2.index))
    BY DEF EmitNew
  <1> HIDE DEF e
  <1> DEFINE N(i, b, f) == [counter |-> e.id, ring |-> ring, keys |-> keys, index |-> i,
                           buffer |-> b, flushed |-> f]
  <1>3. n1 = N(notifier.index, notifier.buffer, notifier.flushed)
    <2> DEFINE i == notifier.index
               b == notifier.buffer
               f == notifier.flushed
               C == notifier.counter
               R == notifier.ring
               K == notifier.keys
    <2>1. notifier = [counter |-> C, ring |-> R, keys |-> K, index |-> i, buffer |-> b, flushed |-> f]
      BY NotifierFields
    <2> DEFINE x == [notifier EXCEPT !.counter = e.id]
               y == [x EXCEPT !.ring = ring]
    <2>2. n1 = [y EXCEPT !.keys = keys]
      BY Zenon DEF Remember
    <2> HIDE DEF i, b, f, C, R, K, ring, keys, n1
    <2>3. x = [counter |-> e.id, ring |-> R, keys |-> K, index |-> i, buffer |-> b, flushed |-> f]
      BY <2>1
    <2> HIDE DEF x
    <2>4. y = [counter |-> e.id, ring |-> ring, keys |-> K, index |-> i, buffer |-> b, flushed |-> f]
      BY <2>3
    <2> HIDE DEF y
    <2>5. n1 = N(i, b, f)
      BY <2>2, <2>4
    <2> QED BY <2>5 DEF i, b, f
  <1> HIDE DEF ring, keys
  <1>4. /\ notifier.buffer \in Seq(Event) /\ Len(notifier.buffer) <= MaxBuffer
        /\ MaxBuffer \in Nat \ {0}
        /\ Newest(notifier.buffer, MaxBuffer) = notifier.buffer
    BY NotifierFields, EvSizes, NewestFacts
  <1>5. m = N(Segment(e.id), MidBuffer(e, r), MidFlushed(e, r))
    <2>1. CASE Segment(e.id) = notifier.index
      BY <1>3, <2>1 DEF Rolled, MidBuffer, MidFlushed, RollWrites
    <2>2. CASE Segment(e.id) # notifier.index /\ r
      <3>1. m = [Flushed(n1, n1.index, r) EXCEPT !.index = Segment(e.id)]
        BY <1>3, <2>2 DEF Rolled
      <3>2. Flushed(n1, n1.index, r) = N(notifier.index, <<>>, MidFlushed(e, r))
        <4>1. Flushed(n1, n1.index, r)
                = [n1 EXCEPT !.buffer = <<>>,
                             !.flushed = IF Writes(n1, n1.index) THEN n1.index ELSE n1.flushed]
          BY <2>2, Zenon DEF Flushed
        <4>2. (IF Writes(n1, n1.index) THEN n1.index ELSE n1.flushed) = MidFlushed(e, r)
          BY <1>3, <2>2 DEF Writes, MidFlushed, RollWrites
        <4> HIDE DEF n1
        <4> QED BY <4>1, <4>2, <1>3
      <3>3. MidBuffer(e, r) = <<>>
        BY <2>2 DEF MidBuffer
      <3>4. m = [N(notifier.index, <<>>, MidFlushed(e, r)) EXCEPT !.index = Segment(e.id)]
        BY <3>1, <3>2, Zenon
      <3> HIDE DEF m, n1
      <3> QED BY <3>3, <3>4, ZenonT(60)
    <2>3. CASE Segment(e.id) # notifier.index /\ ~r
      <3>1. m = [Flushed(n1, n1.index, r) EXCEPT !.index = Segment(e.id)]
        BY <1>3, <2>3 DEF Rolled
      <3>2. Flushed(n1, n1.index, r) = n1
        BY <1>3, <1>4, <2>3 DEF Flushed
      <3> QED BY <1>3, <3>1, <3>2, <2>3 DEF MidBuffer, MidFlushed, RollWrites
    <2> QED BY <2>1, <2>2, <2>3
  <1> DEFINE buf == Append(MidBuffer(e, r), e)
  <1>6. /\ MidBuffer(e, r) \in Seq(Event)
        /\ buf \in Seq(Event) /\ Len(buf) = Len(MidBuffer(e, r)) + 1 /\ buf # <<>>
    <2>1. MidBuffer(e, r) \in Seq(Event)
      BY <1>4 DEF MidBuffer
    <2> HIDE DEF m
    <2> QED BY <1>1, <2>1
  <1>7. n2 = N(Segment(e.id), buf, MidFlushed(e, r))
    <2>1. n2 = [m EXCEPT !.buffer = Append(m.buffer, e)]
      BY Zenon DEF Pushed
    <2> HIDE DEF m, n2
    <2> QED BY <1>5, <2>1
  <1> HIDE DEF buf, n1, m, n2
  <1>8. /\ Newest(buf, MaxBuffer) \in Seq(Event)
        /\ Newest(buf, MaxBuffer) # <<>>
        /\ Newest(Newest(buf, MaxBuffer), MaxBuffer) = Newest(buf, MaxBuffer)
    <2>1. /\ Newest(buf, MaxBuffer) \in Seq(Event)
          /\ Len(Newest(buf, MaxBuffer)) = IF Len(buf) <= MaxBuffer THEN Len(buf) ELSE MaxBuffer
      BY <1>4, <1>6, NewestFacts
    <2>2. Len(Newest(buf, MaxBuffer)) > 0 /\ Len(Newest(buf, MaxBuffer)) <= MaxBuffer
      BY <2>1, <1>4, <1>6
    <2>3. Newest(Newest(buf, MaxBuffer), MaxBuffer) = Newest(buf, MaxBuffer)
      BY <1>4, <2>1, <2>2, NewestFacts
    <2> QED BY <2>1, <2>2, <2>3
  <1> DEFINE nb == Newest(buf, MaxBuffer)
  <1> HIDE DEF nb
  <1>9. a1 = MidArchive(e, r)
    BY <1>3 DEF MidArchive, RollWrites, Written, Put, Writes
  <1> HIDE DEF a1
  <1>10. CASE AtBoundary(e) /\ c
    <2> DEFINE m3 == Flushed(n2, n2.index, c)
    <2>1. m3 = N(Segment(e.id), <<>>, EndFlushed(e, r, c))
      <3>1. m3 = [n2 EXCEPT !.buffer = <<>>,
                            !.flushed = IF Writes(n2, n2.index) THEN n2.index ELSE n2.flushed]
        BY <1>10, Zenon DEF Flushed
      <3>2. (IF Writes(n2, n2.index) THEN n2.index ELSE n2.flushed) = EndFlushed(e, r, c)
        BY <1>6, <1>7, <1>10 DEF Writes, EndFlushed, CloseWrites
      <3> HIDE DEF m3
      <3> QED BY <3>1, <3>2, <1>7
    <2>2. n4 = [m3 EXCEPT !.index = Max({Segment(e.id + 1), m3.flushed + 1})]
      BY <1>10, Zenon DEF Closed
    <2> HIDE DEF m3, n4
    <2>3. m3.flushed = EndFlushed(e, r, c)
      BY <2>1
    <2>4. EndIndex(e, r, c) = Max({Segment(e.id + 1), m3.flushed + 1})
      BY <1>10, <2>3 DEF EndIndex
    <2>5. n4 = N(EndIndex(e, r, c), <<>>, EndFlushed(e, r, c))
      BY <2>1, <2>2, <2>4
    <2>6. Newest(<<>>, MaxBuffer) = <<>>
      BY <1>4, NewestOfNone
    <2>7. n3 = N(EndIndex(e, r, c), <<>>, EndFlushed(e, r, c))
      BY <2>5, <2>6 DEF Trim
    <2>8. EndBuffer(e, r, c) = <<>>
      BY <1>10 DEF EndBuffer
    <2>9. n3 = EndState(e, r, c)
      BY <2>7, <2>8 DEF EndState, ring, keys
    <2>10. lost = EndLost(e, r, c)
      <3>1. n3.buffer = <<>>
        BY <2>7
      <3> HIDE DEF n3
      <3> QED BY <3>1, <1>10 DEF EndLost
    <2>11. a2 = EndArchive(e, r, c)
      <3>1. Writes(n2, n2.index) <=> Segment(e.id) > MidFlushed(e, r)
        BY <1>6, <1>7 DEF Writes
      <3>2. n2.index = Segment(e.id) /\ n2.buffer = buf
        BY <1>7
      <3>3. a2 = Put(MidArchive(e, r), n2, n2.index, c)
        BY <1>10, <1>9, Zenon
      <3> HIDE DEF a2
      <3> QED BY <3>1, <3>2, <3>3, <1>10 DEF EndArchive, CloseWrites, Written, Put, buf
    <2> HIDE DEF n3, a2, lost
    <2> QED BY <1>1, <1>2, <2>9, <2>10, <2>11 DEF Accepts, Save
  <1>11. CASE ~(AtBoundary(e) /\ c)
    <2>1. n4.buffer \in {buf, nb} /\ n4 = N(Segment(e.id), n4.buffer, MidFlushed(e, r))
      <3>1. CASE ~AtBoundary(e)
        BY <3>1, <1>7 DEF Closed
      <3>2. CASE AtBoundary(e) /\ ~c
        <4>1. n4 = [n2 EXCEPT !.buffer = Newest(n2.buffer, MaxBuffer)]
          BY <3>2, Zenon DEF Closed, Flushed
        <4>2. n4 = N(Segment(e.id), nb, MidFlushed(e, r))
          <5> HIDE DEF n4
          <5> QED BY <4>1, <1>7 DEF nb
        <4> HIDE DEF n4
        <4> QED BY <4>2
      <3> QED BY <3>1, <3>2, <1>11
    <2> HIDE DEF n4
    <2>2. Newest(n4.buffer, MaxBuffer) = nb
      BY <2>1, <1>8 DEF nb
    <2>3. n3 = N(Segment(e.id), nb, MidFlushed(e, r))
      <3>1. n3 = [n4 EXCEPT !.buffer = Newest(n4.buffer, MaxBuffer)]
        BY Zenon DEF Trim
      <3> HIDE DEF n3
      <3> QED BY <3>1, <2>1, <2>2
    <2>4. /\ EndBuffer(e, r, c) = nb /\ EndFlushed(e, r, c) = MidFlushed(e, r)
          /\ EndIndex(e, r, c) = Segment(e.id)
      BY <1>11 DEF EndBuffer, EndFlushed, EndIndex, CloseWrites, nb, buf
    <2>5. n3 = EndState(e, r, c)
      BY <2>3, <2>4, Zenon DEF EndState, ring, keys
    <2>6. lost = EndLost(e, r, c)
      <3>1. n3.buffer = nb /\ nb # <<>> /\ n2.buffer = buf
        BY <2>3, <1>7, <1>8 DEF nb
      <3> HIDE DEF n3
      <3> QED BY <3>1, <1>11, <2>4 DEF EndLost, buf
    <2>7. a2 = EndArchive(e, r, c)
      BY <1>9, <1>11 DEF EndArchive, CloseWrites, Put
    <2> HIDE DEF n3, a2, lost
    <2> QED BY <1>1, <1>2, <2>5, <2>6, <2>7 DEF Accepts, Save
  <1> QED BY <1>10, <1>11

(***************************************************************************)
(* The steps: a new event, an unreadable state, or nothing for the notifier. *)
(***************************************************************************)

SameStream == UNCHANGED <<notifier, archive, accepted, trimmed, failed, forgot>>

\* The part of the types that is not the notifier's.
Senders ==
    /\ flight \subseteq sent /\ sent \subseteq Steps
    /\ ender \in [pc : {"none", "final", "end", "notice", "over"},
                  id : TerminalIds \cup {0}, writer : {"none", "complete", "other"}]
    /\ ender.id = 0 <=> ender.pc = "none"
    /\ eventFaults \in 0..MaxEventFaults

LEMMA EmitSteps ==
  ASSUME EventTypeOK, NEW k \in Keys, NEW p \in Nat,
         NEW crash \in BOOLEAN, NEW other \in Nat, Emit(k, p, crash, other)
  PROVE  /\ \/ SameStream
            \/ \E e \in Event, r \in BOOLEAN, c \in BOOLEAN :
                  e.key = k /\ Accepts(e, r, c, crash)
         /\ eventFaults' \in 0..MaxEventFaults
  <1>1. \A n \in Nat : SpendFaults(n) => eventFaults' \in 0..MaxEventFaults
    BY EventAssumption DEF SpendFaults, EventTypeOK
  <1>2. CASE EmitDuplicate(k) /\ SpendFaults(other)
    BY <1>1, <1>2 DEF EmitDuplicate, SameStream
  <1>3. ASSUME NEW r \in BOOLEAN, NEW c \in BOOLEAN, EmitNew(k, p, r, c, crash),
               SpendFaults(Cost(~r) + Cost(~c) + Cost(crash) + other)
        PROVE  /\ \E e \in Event : e.key = k /\ Accepts(e, r, c, crash)
               /\ eventFaults' \in 0..MaxEventFaults
    <2>1. Cost(~r) + Cost(~c) + Cost(crash) + other \in Nat
      BY DEF Cost
    <2>2. eventFaults' \in 0..MaxEventFaults
      BY <1>1, <1>3, <2>1
    <2> QED BY <1>3, <2>2, EmitEffect
  <1> QED BY <1>2, <1>3, Zenon DEF Emit

\* A new event of a known writer.
NewEvent ==
    \E e \in Event, r \in BOOLEAN, c \in BOOLEAN, crash \in BOOLEAN :
        /\ Accepts(e, r, c, crash)
        /\ e.key = Notice => ender.pc = "notice" /\ ender'.pc = "over"

LEMMA WriterSteps ==
  ASSUME EventTypeOK, NEW k \in Keys, NEW p \in Nat,
         \E crash \in BOOLEAN, other \in Nat : Emit(k, p, crash, other),
         k = Notice => ender.pc = "notice" /\ ender'.pc = "over"
  PROVE  (SameStream \/ NewEvent) /\ eventFaults' \in 0..MaxEventFaults
  <1>1. PICK crash \in BOOLEAN, other \in Nat : Emit(k, p, crash, other)
    OBVIOUS
  <1>2. eventFaults' \in 0..MaxEventFaults
    BY <1>1, EmitSteps
  <1>3. \/ SameStream
        \/ \E e \in Event, r \in BOOLEAN, c \in BOOLEAN :
              e.key = k /\ Accepts(e, r, c, crash)
    BY <1>1, EmitSteps
  <1> QED BY <1>2, <1>3 DEF NewEvent

LEMMA StreamSteps ==
  ASSUME EventTypeOK, [EventNext]_eventVars
  PROVE  /\ SameStream \/ NewEvent \/ LoadFails
         /\ Senders'
         /\ ender'.pc \in {"none", "notice"} => ender.pc \in {"none", "notice"}
  <1> DEFINE Kinds == /\ SameStream \/ NewEvent \/ LoadFails
                      /\ Senders'
                      /\ ender'.pc \in {"none", "notice"} => ender.pc \in {"none", "notice"}
  <1>0. /\ Senders
        /\ ender = [pc |-> ender.pc, id |-> ender.id, writer |-> ender.writer]
        /\ TerminalIds \subseteq Nat \ {0} /\ ender.id \in Nat
        /\ Final # Notice /\ End # Notice
        /\ Keys = Steps \cup {Final, End, Notice}
        /\ Notice \notin Steps
    <2>1. Senders
      BY DEF EventTypeOK, Senders
    <2>2. ender = [pc |-> ender.pc, id |-> ender.id, writer |-> ender.writer]
      BY <2>1 DEF Senders
    <2>3. TerminalIds \subseteq Nat \ {0} /\ Notice \notin Steps
      BY EventAssumption
    <2>4. ender.id \in Nat
      <3>1. ender.id \in TerminalIds \cup {0}
        BY <2>1 DEF Senders
      <3>2. 0 \in Nat
        OBVIOUS
      <3> QED BY <3>1, <3>2, <2>3, Zenon
    <2>5. /\ Final # Notice /\ End # Notice
          /\ Keys = Steps \cup {Final, End, Notice}
      BY DEF Keys, Final, End, Notice
    <2> QED BY <2>1, <2>2, <2>3, <2>4, <2>5
  <1>1. ASSUME NEW k \in Steps, CheckLease(k) PROVE Kinds
    <2>1. SameStream /\ UNCHANGED <<ender, eventFaults>>
      BY <1>1 DEF CheckLease, SameStream
    <2>2. sent' = sent \cup {k} /\ flight' = flight \cup {k}
      BY <1>1 DEF CheckLease
    <2> QED BY <2>1, <2>2, <1>0 DEF Senders
  <1>2. ASSUME NEW k \in Steps, ForwardStep(k) PROVE Kinds
    <2>1. \E crash \in BOOLEAN, other \in Nat : Emit(k, 0, crash, other)
      BY <1>2 DEF ForwardStep, Cost
    <2>2. k \in Keys /\ k # Notice /\ 0 \in Nat
      BY <1>0
    <2>3. (SameStream \/ NewEvent) /\ eventFaults' \in 0..MaxEventFaults
      BY <2>1, <2>2, WriterSteps
    <2>4. flight' \subseteq flight /\ UNCHANGED <<sent, ender>>
      BY <1>2 DEF ForwardStep
    <2> QED BY <2>3, <2>4, <1>0 DEF Senders
  <1>3. CASE CommitEnd
    BY <1>0, <1>3 DEF CommitEnd, SameStream, Senders
  <1>4. CASE EmitFinal
    <2>1. \E crash \in BOOLEAN, other \in Nat : Emit(Final, 0, crash, other)
      BY <1>4 DEF EmitFinal, Cost
    <2>2. Final \in Keys /\ Final # Notice /\ 0 \in Nat
      BY <1>0
    <2>3. (SameStream \/ NewEvent) /\ eventFaults' \in 0..MaxEventFaults
      BY <2>1, <2>2, WriterSteps
    <2>4. /\ ender.pc = "final" /\ UNCHANGED <<flight, sent>>
          /\ ender' = [ender EXCEPT !.pc = "end"] \/ ender' = [ender EXCEPT !.pc = "over"]
      BY <1>4 DEF EmitFinal
    <2> QED BY <2>3, <2>4, <1>0 DEF Senders
  <1>5. CASE EmitEnd
    <2> DEFINE k == IF ender.pc = "end" THEN End ELSE Notice
    <2>1. /\ \E crash \in BOOLEAN : Emit(k, ender.id, crash, 0)
          /\ ender.pc \in {"end", "notice"} /\ UNCHANGED <<flight, sent>>
          /\ ender' = [ender EXCEPT !.pc = "over"]
      BY <1>5 DEF EmitEnd
    <2>2. ender'.pc = "over"
      BY <2>1, <1>0 DEF Senders
    <2>3. k \in Keys /\ (k = Notice => ender.pc = "notice")
      BY <2>1, <1>0
    <2> HIDE DEF k
    <2>4. \E crash \in BOOLEAN, other \in Nat : Emit(k, ender.id, crash, other)
      BY <2>1
    <2>5. (SameStream \/ NewEvent) /\ eventFaults' \in 0..MaxEventFaults
      BY <2>2, <2>3, <2>4, <1>0, WriterSteps
    <2> QED BY <2>1, <2>2, <2>5, <1>0 DEF Senders
  <1>6. CASE RetryComplete
    BY <1>0, <1>6, EventAssumption DEF RetryComplete, SameStream, Senders, SpendFaults
  <1>7. CASE LoadFails
    BY <1>0, <1>7, EventAssumption DEF LoadFails, Senders, SpendFaults
  <1>8. CASE UNCHANGED eventVars
    BY <1>0, <1>8 DEF eventVars, SameStream, Senders
  <1> QED BY <1>1, <1>2, <1>3, <1>4, <1>5, <1>6, <1>7, <1>8 DEF EventNext

(***************************************************************************)
(* Types.  That what the cap of the buffer throws away was accepted needs    *)
(* that the notifier holds accepted events only.                             *)
(***************************************************************************)

Held ==
    /\ Range(notifier.buffer) \subseteq accepted
    /\ Range(notifier.ring) \subseteq accepted

EventTypes == EventTypeOK /\ Held /\ IsFiniteSet(accepted)

LEMMA EndFacts ==
  ASSUME EventTypeOK, NEW e \in Event, NEW r \in BOOLEAN, NEW c \in BOOLEAN
  PROVE  /\ MidBuffer(e, r) \in Seq(Event)
         /\ Append(MidBuffer(e, r), e) \in Seq(Event)
         /\ Range(MidBuffer(e, r)) \subseteq Range(notifier.buffer)
         /\ Range(Append(MidBuffer(e, r), e)) = Range(MidBuffer(e, r)) \cup {e}
         /\ MidFlushed(e, r) \in Nat
         /\ EndBuffer(e, r, c) \in Seq(Event) /\ Len(EndBuffer(e, r, c)) <= MaxBuffer
         /\ Range(EndBuffer(e, r, c)) \subseteq Range(notifier.buffer) \cup {e}
         /\ Range(EndBuffer(e, r, c)) \subseteq Range(MidBuffer(e, r)) \cup {e}
         /\ EndFlushed(e, r, c) \in Nat /\ EndIndex(e, r, c) \in Nat \ {0}
         /\ Segment(e.id) \in Nat \ {0}
  <1>1. /\ notifier.index \in Nat \ {0} /\ notifier.flushed \in Nat
        /\ notifier.buffer \in Seq(Event) /\ Len(notifier.buffer) <= MaxBuffer
    BY NotifierFields
  <1>2. SegmentSize \in Nat \ {0} /\ MaxBuffer \in Nat \ {0}
    BY EvSizes
  <1>3. e.id \in Nat \ {0} /\ e.id + 1 \in Nat \ {0}
    BY DEF Event
  <1>4. Segment(e.id) \in Nat \ {0} /\ Segment(e.id + 1) \in Nat \ {0}
    BY <1>2, <1>3, SegmentFacts
  <1>5. MidBuffer(e, r) \in Seq(Event) /\ MidBuffer(e, r) \in {<<>>, notifier.buffer}
    BY <1>1 DEF MidBuffer
  <1>6. MidFlushed(e, r) \in Nat
    BY <1>1 DEF MidFlushed
  <1>7. Append(MidBuffer(e, r), e) \in Seq(Event)
    BY <1>5
  <1>8. Range(MidBuffer(e, r)) \subseteq Range(notifier.buffer)
    BY <1>1, <1>2, <1>5, RangeFacts
  <1>9. Range(Append(MidBuffer(e, r), e)) = Range(MidBuffer(e, r)) \cup {e}
    BY <1>2, <1>5, RangeFacts
  <1> DEFINE nb == Newest(Append(MidBuffer(e, r), e), MaxBuffer)
  <1>10. /\ nb \in Seq(Event) /\ Len(nb) <= MaxBuffer
         /\ Range(nb) \subseteq Range(Append(MidBuffer(e, r), e))
    <2>1. nb \in Seq(Event) /\ Len(nb) <= MaxBuffer
      BY <1>2, <1>7, NewestBound
    <2> QED BY <1>2, <1>7, <2>1, RangeFacts
  <1> HIDE DEF nb
  <1>11. <<>> \in Seq(Event) /\ Len(<<>>) = 0 /\ Range(<<>>) = {}
    BY <1>1, <1>2, RangeFacts
  <1>12. /\ EndBuffer(e, r, c) \in Seq(Event) /\ Len(EndBuffer(e, r, c)) <= MaxBuffer
         /\ Range(EndBuffer(e, r, c)) \subseteq Range(MidBuffer(e, r)) \cup {e}
    BY <1>2, <1>9, <1>10, <1>11 DEF EndBuffer, nb
  <1>13. EndFlushed(e, r, c) \in Nat
    BY <1>4, <1>6 DEF EndFlushed
  <1>14. EndIndex(e, r, c) \in Nat \ {0}
    <2>1. EndFlushed(e, r, c) + 1 \in Nat \ {0}
      BY <1>13
    <2>2. Max({Segment(e.id + 1), EndFlushed(e, r, c) + 1}) \in Nat \ {0}
      BY <1>4, <2>1, MaxOfTwo
    <2> QED BY <1>4, <2>2 DEF EndIndex
  <1> QED BY <1>4, <1>5, <1>6, <1>7, <1>8, <1>9, <1>12, <1>13, <1>14

LEMMA EndTypes ==
  ASSUME EventTypeOK, NEW e \in Event, NEW r \in BOOLEAN, NEW c \in BOOLEAN
  PROVE  /\ EndState(e, r, c) \in Notifier
         /\ Len(EndState(e, r, c).ring) <= RingSize
         /\ Len(EndState(e, r, c).keys) <= MaxKeys
         /\ Len(EndState(e, r, c).buffer) <= MaxBuffer
         /\ Range(EndState(e, r, c).ring) \subseteq Range(notifier.ring) \cup {e}
         /\ EndArchive(e, r, c) \subseteq [segment : Nat \ {0}, event : Event]
  <1>1. /\ notifier.ring \in Seq(Event) /\ notifier.keys \in Seq(Keys \ {Notice})
        /\ notifier.index \in Nat \ {0} /\ notifier.buffer \in Seq(Event)
    BY NotifierFields
  <1>2. RingSize \in Nat \ {0} /\ MaxKeys \in Nat \ {0}
    BY EvSizes
  <1>3. e.id \in Nat \ {0} /\ e.key \in Keys
    BY DEF Event
  <1> DEFINE ring == Newest(Append(notifier.ring, e), RingSize)
             keys == IF e.key = Notice THEN notifier.keys
                     ELSE Newest(Append(notifier.keys, e.key), MaxKeys)
  <1>4. /\ ring \in Seq(Event) /\ Len(ring) <= RingSize
        /\ Range(ring) \subseteq Range(notifier.ring) \cup {e}
    <2>1. Append(notifier.ring, e) \in Seq(Event)
      BY <1>1
    <2>2. ring \in Seq(Event) /\ Len(ring) <= RingSize
      BY <1>2, <2>1, NewestBound
    <2>3. Range(ring) \subseteq Range(Append(notifier.ring, e))
      BY <1>2, <2>1, RangeFacts
    <2>4. Range(Append(notifier.ring, e)) = Range(notifier.ring) \cup {e}
      BY <1>1, <1>2, RangeFacts
    <2> QED BY <2>2, <2>3, <2>4
  <1>5. keys \in Seq(Keys \ {Notice}) /\ Len(keys) <= MaxKeys
    <2>1. CASE e.key = Notice
      BY <1>1, <2>1 DEF EventTypeOK
    <2>2. CASE e.key # Notice
      <3>1. Append(notifier.keys, e.key) \in Seq(Keys \ {Notice})
        BY <1>1, <1>3, <2>2
      <3> QED BY <1>2, <2>2, <3>1, NewestBound
    <2> QED BY <2>1, <2>2
  <1> HIDE DEF ring, keys
  <1>6. EndState(e, r, c) = [counter |-> e.id, ring |-> ring, keys |-> keys,
                             index |-> EndIndex(e, r, c), buffer |-> EndBuffer(e, r, c),
                             flushed |-> EndFlushed(e, r, c)]
    BY Zenon DEF EndState, ring, keys
  <1>7. EndState(e, r, c) \in Notifier
    <2>1. e.id \in Nat
      BY <1>3
    <2> QED BY <1>4, <1>5, <1>6, <2>1, EndFacts DEF Notifier
  <1>8. EndArchive(e, r, c) \subseteq [segment : Nat \ {0}, event : Event]
    <2>1. ASSUME NEW a \in SUBSET [segment : Nat \ {0}, event : Event],
                 NEW b \in Seq(Event), NEW n \in Nat \ {0}
          PROVE  Written(a, b, n) \in SUBSET [segment : Nat \ {0}, event : Event]
      <3>1. Range(b) \subseteq Event
        BY <1>2, RangeFacts
      <3> QED BY <3>1 DEF Written
    <2>2. MidArchive(e, r) \in SUBSET [segment : Nat \ {0}, event : Event]
      <3>1. archive \in SUBSET [segment : Nat \ {0}, event : Event]
        BY DEF EventTypeOK
      <3> QED BY <1>1, <2>1, <3>1 DEF MidArchive
    <2>3. Append(MidBuffer(e, r), e) \in Seq(Event) /\ Segment(e.id) \in Nat \ {0}
      BY EndFacts
    <2> QED BY <2>1, <2>2, <2>3 DEF EndArchive
  <1>9. EndState(e, r, c).ring = ring /\ EndState(e, r, c).keys = keys
        /\ EndState(e, r, c).buffer = EndBuffer(e, r, c)
    BY <1>6
  <1> QED BY <1>4, <1>5, <1>7, <1>8, <1>9, EndFacts

LEMMA EventTypesStep ==
  ASSUME EventTypes, [EventNext]_eventVars
  PROVE  EventTypes'
  <1>1. EventTypeOK /\ Held /\ IsFiniteSet(accepted)
    BY DEF EventTypes
  <1>2. Senders'
    BY <1>1, StreamSteps
  <1> DEFINE Own == /\ notifier \in Notifier
                    /\ Len(notifier.ring) <= RingSize
                    /\ Len(notifier.keys) <= MaxKeys
                    /\ Len(notifier.buffer) <= MaxBuffer
                    /\ archive \subseteq [segment : Nat \ {0}, event : Event]
                    /\ accepted \subseteq Event /\ trimmed \subseteq accepted
                    /\ failed \in BOOLEAN /\ forgot \in BOOLEAN
                    /\ Held /\ IsFiniteSet(accepted)
  <1>3. Own
    BY <1>1 DEF EventTypeOK
  <1>4. SUFFICES Own'
    BY <1>2 DEF EventTypes, EventTypeOK, Senders
  <1>5. CASE SameStream
    BY <1>3, <1>5 DEF SameStream, Held
  <1>6. CASE LoadFails
    <2>1. notifier' = Fresh /\ forgot' = TRUE
          /\ UNCHANGED <<archive, accepted, trimmed, failed>>
      BY <1>6 DEF LoadFails
    <2>2. Fresh \in Notifier
      BY DEF Fresh, Notifier
    <2>3. /\ Len(Fresh.ring) = 0 /\ Len(Fresh.keys) = 0 /\ Len(Fresh.buffer) = 0
          /\ Fresh.ring = <<>> /\ Fresh.buffer = <<>>
      BY DEF Fresh
    <2>4. Range(<<>>) = {}
      BY DEF Range
    <2>5. Held'
      BY <2>1, <2>3, <2>4 DEF Held
    <2> QED BY <1>3, <2>1, <2>2, <2>3, <2>5, EvSizes
  <1>7. CASE NewEvent
    <2>1. PICK e \in Event, r \in BOOLEAN, c \in BOOLEAN, crash \in BOOLEAN :
                  Accepts(e, r, c, crash)
      BY <1>7 DEF NewEvent
    <2>2. /\ archive' \subseteq [segment : Nat \ {0}, event : Event]
          /\ failed' \in BOOLEAN /\ forgot' \in BOOLEAN
      BY <1>1, <1>3, <2>1, EndTypes DEF Accepts
    <2>3. CASE crash
      <3>1. UNCHANGED <<notifier, accepted, trimmed>>
        BY <2>1, <2>3 DEF Accepts
      <3> QED BY <1>3, <2>2, <3>1 DEF Held
    <2>4. CASE ~crash
      <3>1. /\ notifier' = EndState(e, r, c)
            /\ accepted' = accepted \cup {e}
            /\ trimmed' = trimmed \cup EndLost(e, r, c)
        BY <2>1, <2>4 DEF Accepts
      <3>2. /\ notifier' \in Notifier
            /\ Len(notifier'.ring) <= RingSize
            /\ Len(notifier'.keys) <= MaxKeys
            /\ Len(notifier'.buffer) <= MaxBuffer
            /\ Range(notifier'.ring) \subseteq Range(notifier.ring) \cup {e}
        BY <1>1, <3>1, EndTypes
      <3>3. notifier'.buffer = EndBuffer(e, r, c)
        BY <3>1 DEF EndState
      <3>4. /\ Range(EndBuffer(e, r, c)) \subseteq Range(notifier.buffer) \cup {e}
            /\ Range(Append(MidBuffer(e, r), e)) \subseteq Range(notifier.buffer) \cup {e}
        <4>1. /\ Range(EndBuffer(e, r, c)) \subseteq Range(notifier.buffer) \cup {e}
              /\ Range(MidBuffer(e, r)) \subseteq Range(notifier.buffer)
              /\ Range(Append(MidBuffer(e, r), e)) = Range(MidBuffer(e, r)) \cup {e}
          BY <1>1, EndFacts
        <4> QED BY <4>1
      <3>5. EndLost(e, r, c) \subseteq Range(notifier.buffer) \cup {e}
        BY <3>4 DEF EndLost
      <3>6. Held'
        <4>1. Range(notifier'.buffer) \subseteq accepted'
          BY <1>1, <3>1, <3>3, <3>4 DEF Held
        <4>2. Range(notifier'.ring) \subseteq accepted'
          BY <1>1, <3>1, <3>2 DEF Held
        <4> QED BY <4>1, <4>2 DEF Held
      <3>7. IsFiniteSet(accepted')
        BY <1>1, <3>1, FS_AddElement
      <3>8. accepted' \subseteq Event /\ trimmed' \subseteq accepted'
        BY <1>1, <1>3, <3>1, <3>5 DEF Held
      <3> QED BY <2>2, <3>2, <3>6, <3>7, <3>8
    <2> QED BY <2>3, <2>4
  <1> QED BY <1>1, <1>5, <1>6, <1>7, StreamSteps

LEMMA EventTypesInit ==
  ASSUME EventInit
  PROVE  EventTypes
  <1>1. /\ flight = {} /\ sent = {}
        /\ ender = [pc |-> "none", id |-> 0, writer |-> "none"]
        /\ notifier = Fresh
        /\ archive = {} /\ accepted = {} /\ trimmed = {}
        /\ failed = FALSE /\ forgot = FALSE /\ eventFaults = 0
    BY DEF EventInit
  <1>2. Fresh \in Notifier
    BY DEF Fresh, Notifier
  <1>3. /\ Len(Fresh.ring) = 0 /\ Len(Fresh.keys) = 0 /\ Len(Fresh.buffer) = 0
        /\ Fresh.ring = <<>> /\ Fresh.buffer = <<>>
    BY DEF Fresh
  <1>4. Range(<<>>) = {}
    BY DEF Range
  <1>5. Held
    BY <1>1, <1>3, <1>4 DEF Held
  <1>6. IsFiniteSet(accepted)
    BY <1>1, FS_EmptySet
  <1>7. eventFaults \in 0..MaxEventFaults
    BY <1>1, EventAssumption
  <1>8. EventTypeOK
    <2>1. /\ notifier \in Notifier /\ Len(notifier.ring) <= RingSize
          /\ Len(notifier.keys) <= MaxKeys /\ Len(notifier.buffer) <= MaxBuffer
      BY <1>1, <1>2, <1>3, EvSizes
    <2>2. /\ ender \in [pc : {"none", "final", "end", "notice", "over"},
                        id : TerminalIds \cup {0}, writer : {"none", "complete", "other"}]
          /\ ender.id = 0 <=> ender.pc = "none"
      BY <1>1
    <2> QED BY <1>1, <1>7, <2>1, <2>2 DEF EventTypeOK
  <1> QED BY <1>5, <1>6, <1>8 DEF EventTypes

(***************************************************************************)
(* The invariant of the stream, as long as the notifier reads its state.     *)
(***************************************************************************)

\* Ids are counted, and name their events.
Numbered ==
    /\ \A b \in accepted : b.id <= notifier.counter
    /\ \A b, c \in accepted : b.id = c.id => b = c

\* The segment written last is not behind the counter; only an event that ends
\* a stream has closed it before it was full.
SegmentsClosed ==
    /\ notifier.flushed > 0 =>
          notifier.counter > 0 /\ notifier.flushed <= Segment(notifier.counter)
    /\ (notifier.flushed > 0 /\ Segment(notifier.counter + 1) = notifier.flushed) =>
          \E x \in accepted : Ends(x.key) /\ Segment(x.id) = notifier.flushed

\* The buffer is for the segment of the last event, and behind what is written.
BufferWaits ==
    /\ notifier.buffer # <<>> =>
          notifier.counter > 0 /\ notifier.index = Segment(notifier.counter)
    /\ \A b \in Range(notifier.buffer) :
          /\ notifier.flushed <= Segment(b.id)
          /\ Segment(b.id) = notifier.flushed => Overtaken(b)

\* An event in the archive, where no later write replaces it and a reader looks.
KeptIn(b, a, f) ==
    \E x \in a : x.event = b /\ Segment(b.id) <= x.segment /\ x.segment <= f

AllKept ==
    \A b \in accepted :
        \/ KeptIn(b, archive, notifier.flushed)
        \/ b \in Range(notifier.buffer)
        \/ b \in trimmed
        \/ Overtaken(b)

EndsWith(s, q) ==
    Len(q) <= Len(s) /\ \A i \in 1..Len(q) : s[Len(s) - Len(q) + i] = q[i]

\* While no write fails the buffer is the end of the ring: it has no more
\* events than its segment has ids.
RingCovers ==
    failed \/
      /\ trimmed = {}
      /\ EndsWith(notifier.ring, notifier.buffer)
      /\ \A i \in 1..Len(notifier.buffer) :
           (notifier.index - 1) * SegmentSize + i <= notifier.buffer[i].id

Later(b) == {x \in accepted : x.key # Notice /\ b.id < x.id}

\* A key is forgotten only after MaxKeys later ones: it is no further from the
\* end of the keys than there are later events.
KeysRemembered ==
    \A b \in accepted : b.key # Notice =>
        \/ MaxKeys <= Cardinality(Later(b))
        \/ \E i \in 1..Len(notifier.keys) :
              notifier.keys[i] = b.key /\ Len(notifier.keys) - i <= Cardinality(Later(b))

StreamInv ==
    /\ Numbered /\ SegmentsClosed /\ BufferWaits /\ AllKept
    /\ RingCovers /\ KeysRemembered /\ OneEventPerRequest

\* The terminal event without a key is sent once.
NoticeOnce ==
    ender.pc \in {"none", "notice"} => \A b \in accepted : b.key # Notice

EventInv == EventTypes /\ NoticeOnce /\ (forgot \/ StreamInv)

(***************************************************************************)
(* Segments and the archive.                                                *)
(***************************************************************************)

LEMMA EventFields ==
  ASSUME NEW b \in Event
  PROVE  b.id \in Nat \ {0} /\ b.key \in Keys
  BY DEF Event

\* After the roll no event that waits is behind what is written, and one in the
\* segment written last is overtaken.
LEMMA MidSegments ==
  ASSUME EventTypes, Numbered, SegmentsClosed, BufferWaits,
         NEW e \in Event, e.id > notifier.counter, NEW r \in BOOLEAN,
         NEW b \in Range(MidBuffer(e, r)) \cup {e}
  PROVE  /\ MidFlushed(e, r) <= Segment(b.id)
         /\ Segment(b.id) <= Segment(e.id)
         /\ Segment(b.id) = MidFlushed(e, r) => Overtaken(b)
  <1>1. /\ EventTypeOK /\ Held /\ accepted \subseteq Event
    BY DEF EventTypes, EventTypeOK
  <1>2. /\ notifier.counter \in Nat /\ notifier.index \in Nat \ {0} /\ notifier.flushed \in Nat
    BY <1>1, NotifierFields
  <1>3. SegmentSize \in Nat \ {0}
    BY EvSizes
  <1>4. /\ e.id \in Nat \ {0} /\ Segment(e.id) \in Nat \ {0} /\ MidFlushed(e, r) \in Nat
    BY <1>1, EventFields, EndFacts
  <1>5. notifier.counter + 1 \in Nat \ {0} /\ notifier.counter + 1 <= e.id
    BY <1>2, <1>4
  <1>6. Segment(notifier.counter + 1) \in Nat /\ Segment(notifier.counter + 1) <= Segment(e.id)
    BY <1>3, <1>4, <1>5, SegmentFacts
  <1>7. notifier.counter > 0 =>
          /\ Segment(notifier.counter) \in Nat
          /\ Segment(notifier.counter) <= Segment(notifier.counter + 1)
    <2>1. SUFFICES ASSUME notifier.counter > 0
                   PROVE  /\ Segment(notifier.counter) \in Nat
                          /\ Segment(notifier.counter) <= Segment(notifier.counter + 1)
      OBVIOUS
    <2>2. notifier.counter \in Nat \ {0} /\ notifier.counter <= notifier.counter + 1
      BY <1>2, <2>1
    <2> QED BY <1>3, <1>5, <2>2, SegmentFacts
  <1>8. CASE RollWrites(e, r)
    <2>1. /\ MidFlushed(e, r) = notifier.index /\ notifier.buffer # <<>>
          /\ Segment(e.id) # notifier.index /\ MidBuffer(e, r) = <<>>
      BY <1>8 DEF RollWrites, MidFlushed, MidBuffer
    <2>2. b = e
      BY <2>1 DEF Range
    <2>3. notifier.index = Segment(notifier.counter) /\ notifier.counter > 0
      BY <2>1 DEF BufferWaits
    <2> QED BY <1>2, <1>4, <1>6, <1>7, <2>1, <2>2, <2>3
  <1>9. CASE ~RollWrites(e, r)
    <2>1. MidFlushed(e, r) = notifier.flushed
      BY <1>9 DEF MidFlushed
    <2>2. CASE b \in Range(MidBuffer(e, r))
      <3>1. b \in Range(notifier.buffer) /\ b \in accepted /\ b \in Event
        BY <1>1, <2>2, EndFacts DEF Held
      <3>2. b.id \in Nat \ {0} /\ b.id <= e.id
        <4>1. b.id <= notifier.counter /\ b.id \in Nat \ {0}
          BY <3>1, EventFields DEF Numbered
        <4> QED BY <4>1, <1>2, <1>4
      <3>3. Segment(b.id) <= Segment(e.id)
        BY <1>3, <1>4, <3>2, SegmentFacts
      <3> QED BY <2>1, <3>1, <3>3 DEF BufferWaits
    <2>3. CASE b = e
      <3>1. CASE notifier.flushed = 0
        BY <1>4, <2>1, <2>3, <3>1
      <3>2. CASE notifier.flushed > 0
        <4>1. notifier.counter > 0 /\ notifier.flushed <= Segment(notifier.counter)
          BY <3>2 DEF SegmentsClosed
        <4>2. notifier.flushed <= Segment(e.id)
          BY <1>2, <1>4, <1>6, <1>7, <4>1
        <4>3. ASSUME Segment(e.id) = notifier.flushed PROVE Overtaken(e)
          <5>1. Segment(notifier.counter + 1) = notifier.flushed
            BY <1>2, <1>4, <1>6, <1>7, <4>1, <4>3
          <5>2. PICK x \in accepted : Ends(x.key) /\ Segment(x.id) = notifier.flushed
            BY <3>2, <5>1 DEF SegmentsClosed
          <5>3. x.id < e.id
            <6>1. x.id <= notifier.counter
              BY <5>2 DEF Numbered
            <6>2. x \in Event
              BY <1>1, <5>2
            <6>3. x.id \in Nat
              BY <6>2, EventFields
            <6> QED BY <6>1, <6>3, <1>2, <1>4
          <5> QED BY <4>3, <5>2, <5>3 DEF Overtaken
        <4> QED BY <1>4, <2>1, <2>3, <4>2, <4>3
      <3> QED BY <1>2, <3>1, <3>2
    <2> QED BY <2>2, <2>3
  <1> QED BY <1>8, <1>9

\* A write to a segment behind what is written replaces nothing that is kept.
LEMMA WriteKeeps ==
  ASSUME NEW a \in SUBSET [segment : Nat \ {0}, event : Event], NEW f \in Nat, NEW b,
         NEW n \in Nat, n > f, NEW q
  PROVE  /\ KeptIn(b, a, f) => KeptIn(b, Written(a, q, n), f) /\ KeptIn(b, Written(a, q, n), n)
         /\ KeptIn(b, a, f) => KeptIn(b, a, n)
         /\ (b \in Range(q) /\ Segment(b.id) <= n) => KeptIn(b, Written(a, q, n), n)
  <1>1. ASSUME NEW x \in a, x.event = b, Segment(b.id) <= x.segment, x.segment <= f
        PROVE  x \in Written(a, q, n) /\ x.segment <= n
    <2>1. x.segment \in Nat
      OBVIOUS
    <2>2. x.segment # n /\ x.segment <= n
      BY <1>1, <2>1
    <2> QED BY <2>2 DEF Written
  <1>2. ASSUME b \in Range(q), Segment(b.id) <= n
        PROVE  KeptIn(b, Written(a, q, n), n)
    <2> DEFINE x == [segment |-> n, event |-> b]
    <2>1. x \in Written(a, q, n)
      BY <1>2, Zenon DEF Written
    <2>2. x.event = b /\ x.segment = n
      OBVIOUS
    <2> HIDE DEF x
    <2> QED BY <1>2, <2>1, <2>2 DEF KeptIn
  <1> QED BY <1>1, <1>2 DEF KeptIn

\* The two writes keep what they do not have to drop.
LEMMA EmitKeeps ==
  ASSUME EventTypes, Numbered, SegmentsClosed, BufferWaits,
         NEW e \in Event, e.id > notifier.counter, NEW r \in BOOLEAN, NEW c \in BOOLEAN,
         NEW b
  PROVE  /\ KeptIn(b, archive, notifier.flushed) =>
               /\ KeptIn(b, EndArchive(e, r, c), notifier.flushed)
               /\ KeptIn(b, EndArchive(e, r, c), EndFlushed(e, r, c))
         /\ b \in Range(notifier.buffer) \cup {e} =>
               \/ KeptIn(b, EndArchive(e, r, c), EndFlushed(e, r, c))
               \/ b \in Range(EndBuffer(e, r, c)) \cup EndLost(e, r, c)
               \/ Overtaken(b)
  <1> DEFINE A == SUBSET [segment : Nat \ {0}, event : Event]
             ma == MidArchive(e, r)
             mf == MidFlushed(e, r)
             s == Segment(e.id)
             q == Append(MidBuffer(e, r), e)
  <1>1. EventTypeOK /\ Held /\ archive \in A
    BY DEF EventTypes, EventTypeOK
  <1>2. notifier.index \in Nat \ {0} /\ notifier.flushed \in Nat
    BY <1>1, NotifierFields
  <1>3. /\ s \in Nat /\ mf \in Nat
        /\ q \in Seq(Event) /\ Range(q) = Range(MidBuffer(e, r)) \cup {e}
        /\ notifier.buffer \in Seq(Event)
    BY <1>1, EndFacts, NotifierFields
  <1>4. RollWrites(e, r) =>
           /\ ma = Written(archive, notifier.buffer, notifier.index)
           /\ mf = notifier.index /\ notifier.index > notifier.flushed
           /\ MidBuffer(e, r) = <<>>
    BY DEF RollWrites, MidArchive, MidFlushed, MidBuffer
  <1>5. ~RollWrites(e, r) => ma = archive /\ mf = notifier.flushed
    BY DEF MidArchive, MidFlushed
  <1>6. CloseWrites(e, r, c) =>
           /\ EndArchive(e, r, c) = Written(ma, q, s)
           /\ EndFlushed(e, r, c) = s /\ s > mf
    BY DEF CloseWrites, EndArchive, EndFlushed
  <1>7. ~CloseWrites(e, r, c) => EndArchive(e, r, c) = ma /\ EndFlushed(e, r, c) = mf
    BY DEF EndArchive, EndFlushed
  <1>8. ma \in A /\ mf >= notifier.flushed
    <2>1. Range(notifier.buffer) \subseteq Event
      BY <1>3, RangeFacts, EvSizes
    <2>2. Written(archive, notifier.buffer, notifier.index) \in A
      BY <1>1, <1>2, <2>1 DEF Written
    <2> QED BY <1>1, <1>2, <1>4, <1>5, <2>2
  <1> HIDE DEF ma, mf, s, q, A
  <1>9. KeptIn(b, archive, notifier.flushed) =>
           KeptIn(b, ma, notifier.flushed) /\ KeptIn(b, ma, mf)
    <2>1. CASE RollWrites(e, r)
      <3> DEFINE i == notifier.index
                 w == Written(archive, notifier.buffer, i)
                 f == notifier.flushed
      <3>1. i \in Nat /\ f \in Nat /\ i > f /\ archive \in A
        BY <1>1, <1>2, <1>4, <2>1
      <3>2. KeptIn(b, archive, f) => KeptIn(b, w, f) /\ KeptIn(b, w, i)
        <4> HIDE DEF i, f
        <4> QED BY <3>1, WriteKeeps DEF A
      <3> QED BY <1>4, <2>1, <3>2
    <2>2. CASE ~RollWrites(e, r)
      BY <1>5, <2>2
    <2> QED BY <2>1, <2>2
  <1>10. ASSUME NEW f \in {mf, notifier.flushed}, KeptIn(b, ma, f)
         PROVE  /\ KeptIn(b, EndArchive(e, r, c), f)
                /\ f = mf => KeptIn(b, EndArchive(e, r, c), EndFlushed(e, r, c))
    <2>1. f \in Nat /\ f <= mf
      BY <1>2, <1>3, <1>8
    <2>2. CASE CloseWrites(e, r, c)
      <3>1. s > f
        BY <1>3, <1>6, <2>1, <2>2
      <3>2. /\ KeptIn(b, Written(ma, q, s), f)
            /\ KeptIn(b, Written(ma, q, s), s)
        BY <1>3, <1>8, <1>10, <2>1, <3>1, WriteKeeps DEF A
      <3> QED BY <1>6, <2>2, <3>2
    <2>3. CASE ~CloseWrites(e, r, c)
      BY <1>7, <1>10, <2>3
    <2> QED BY <2>2, <2>3
  <1>11. ASSUME b \in Range(q)
         PROVE  \/ KeptIn(b, EndArchive(e, r, c), EndFlushed(e, r, c))
                \/ b \in Range(EndBuffer(e, r, c)) \cup EndLost(e, r, c)
                \/ Overtaken(b)
    <2>1. /\ mf <= Segment(b.id) /\ Segment(b.id) <= s
          /\ Segment(b.id) = mf => Overtaken(b)
      BY <1>3, <1>11, MidSegments DEF mf, s
    <2>2. CASE CloseWrites(e, r, c)
      <3>1. s \in Nat /\ mf \in Nat /\ s > mf /\ ma \in A
        BY <1>3, <1>6, <1>8, <2>2
      <3>2. KeptIn(b, Written(ma, q, s), s)
        BY <1>11, <2>1, <3>1, WriteKeeps DEF A
      <3> QED BY <1>6, <2>2, <3>2
    <2>3. CASE ~CloseWrites(e, r, c) /\ AtBoundary(e) /\ c
      <3>1. s <= mf
        BY <1>3, <2>3 DEF CloseWrites, s, mf
      <3>2. Segment(b.id) \in Nat
        <4>1. b \in Event
          BY <1>3, <1>11, EvSizes, RangeFacts
        <4> QED BY <4>1, EventFields, EvSizes, SegmentFacts
      <3> QED BY <1>3, <2>1, <3>1, <3>2
    <2>4. CASE ~(AtBoundary(e) /\ c)
      BY <1>11, <2>4 DEF EndLost, q
    <2> QED BY <2>2, <2>3, <2>4
  <1>12. ASSUME b \in Range(notifier.buffer)
         PROVE  \/ KeptIn(b, ma, mf) \/ b \in Range(q) \/ Overtaken(b)
    <2>1. CASE MidBuffer(e, r) = notifier.buffer
      BY <1>3, <1>12, <2>1
    <2>2. CASE MidBuffer(e, r) # notifier.buffer
      <3>1. Segment(e.id) # notifier.index /\ r
        BY <2>2 DEF MidBuffer
      <3>2. notifier.buffer # <<>>
        BY <1>12 DEF Range
      <3>3. /\ notifier.index = Segment(notifier.counter)
            /\ notifier.flushed <= Segment(b.id)
            /\ Segment(b.id) = notifier.flushed => Overtaken(b)
        BY <1>12, <3>2 DEF BufferWaits
      <3>4. Segment(b.id) \in Nat /\ Segment(b.id) <= notifier.index
        <4>1. b \in Event /\ b \in accepted
          BY <1>1, <1>12 DEF Held, EventTypeOK
        <4>2. b.id \in Nat \ {0} /\ b.id <= notifier.counter /\ notifier.counter \in Nat
          BY <1>1, <4>1, EventFields, NotifierFields DEF Numbered
        <4>3. notifier.counter \in Nat \ {0}
          BY <4>2
        <4> QED BY <3>3, <4>2, <4>3, EvSizes, SegmentFacts
      <3>5. CASE notifier.index > notifier.flushed
        <4>1. RollWrites(e, r)
          BY <3>1, <3>2, <3>5 DEF RollWrites
        <4> DEFINE i == notifier.index
                   f == notifier.flushed
        <4>2. i \in Nat /\ f \in Nat /\ i > f /\ archive \in A
          BY <1>1, <1>2, <3>5
        <4>3. Segment(b.id) <= i
          BY <3>4
        <4>4. KeptIn(b, Written(archive, notifier.buffer, i), i)
          <5> HIDE DEF i, f
          <5> QED BY <1>12, <4>2, <4>3, WriteKeeps DEF A
        <4> QED BY <1>4, <4>1, <4>4
      <3>6. CASE ~(notifier.index > notifier.flushed)
        BY <1>2, <3>3, <3>4, <3>6
      <3> QED BY <3>5, <3>6
    <2> QED BY <2>1, <2>2
  <1> QED BY <1>3, <1>9, <1>10, <1>11, <1>12

(***************************************************************************)
(* One new event, saved.                                                    *)
(***************************************************************************)

\* What the notifier saves with a new event.
Saved(e, r, c) ==
    /\ notifier'.counter = e.id
    /\ notifier'.ring = Newest(Append(notifier.ring, e), RingSize)
    /\ notifier'.keys = (IF e.key = Notice THEN notifier.keys
                         ELSE Newest(Append(notifier.keys, e.key), MaxKeys))
    /\ notifier'.index = EndIndex(e, r, c)
    /\ notifier'.buffer = EndBuffer(e, r, c)
    /\ notifier'.flushed = EndFlushed(e, r, c)
    /\ accepted' = accepted \cup {e}
    /\ trimmed' = trimmed \cup EndLost(e, r, c)
    /\ archive' = EndArchive(e, r, c)
    /\ e.id > notifier.counter

LEMMA SavedFields ==
  ASSUME NEW e, NEW r, NEW c, Accepts(e, r, c, FALSE)
  PROVE  Saved(e, r, c)
  <1>1. /\ notifier' = EndState(e, r, c)
        /\ accepted' = accepted \cup {e}
        /\ trimmed' = trimmed \cup EndLost(e, r, c)
        /\ archive' = EndArchive(e, r, c)
        /\ e.id > notifier.counter
    BY DEF Accepts
  <1> QED BY <1>1 DEF Saved, EndState

\* A new event has an id of its own, behind every other.
LEMMA NewestId ==
  ASSUME EventTypes, Numbered, NEW e \in Event, e.id > notifier.counter,
         NEW b \in accepted
  PROVE  b.id \in Nat /\ b.id < e.id /\ b # e /\ b \in Event
  <1>1. notifier.counter \in Nat /\ b \in Event
    BY NotifierFields DEF EventTypes, EventTypeOK
  <1>2. b.id \in Nat /\ e.id \in Nat
    BY <1>1, EventFields
  <1>3. b.id <= notifier.counter
    BY DEF Numbered
  <1> QED BY <1>1, <1>2, <1>3

LEMMA NumberedStep ==
  ASSUME EventTypes, Numbered, NEW e \in Event, NEW r \in BOOLEAN,
         NEW c \in BOOLEAN, Accepts(e, r, c, FALSE)
  PROVE  Numbered'
  <1>0. Saved(e, r, c)
    BY SavedFields
  <1>1. /\ notifier'.counter = e.id /\ accepted' = accepted \cup {e} /\ e.id > notifier.counter
    BY <1>0 DEF Saved
  <1>2. e.id \in Nat
    BY EventFields
  <1>3. \A b \in accepted : b.id \in Nat /\ b.id < e.id
    BY <1>1, NewestId
  <1>4. \A b \in accepted' : b.id <= notifier'.counter
    BY <1>1, <1>2, <1>3
  <1>5. \A b, d \in accepted' : b.id = d.id => b = d
    BY <1>1, <1>2, <1>3 DEF Numbered
  <1> QED BY <1>4, <1>5 DEF Numbered

LEMMA OvertakenStays ==
  ASSUME NEW b, NEW e, accepted' = accepted \cup {e}, Overtaken(b)
  PROVE  Overtaken(b)'
  BY DEF Overtaken

LEMMA SegmentsClosedStep ==
  ASSUME EventTypes, Numbered, SegmentsClosed, BufferWaits,
         NEW e \in Event, NEW r \in BOOLEAN, NEW c \in BOOLEAN, Accepts(e, r, c, FALSE)
  PROVE  SegmentsClosed'
  <1> DEFINE s == Segment(e.id)
             t == Segment(e.id + 1)
             mf == MidFlushed(e, r)
             f == EndFlushed(e, r, c)
  <1>0. Saved(e, r, c)
    BY SavedFields
  <1>1. /\ notifier'.counter = e.id /\ accepted' = accepted \cup {e} /\ e.id > notifier.counter
        /\ notifier'.flushed = f
    BY <1>0 DEF Saved
  <1>2. /\ e.id \in Nat \ {0} /\ e.id + 1 \in Nat \ {0} /\ e.id <= e.id + 1 /\ e.id < e.id + 1
    BY EventFields
  <1>3. /\ s \in Nat /\ t \in Nat /\ s <= t
        /\ e.id % SegmentSize = 0 => s < t
    BY <1>2, EvSizes, SegmentFacts
  <1>4. f \in Nat /\ mf \in Nat
    BY EndFacts DEF EventTypes
  <1>5. /\ mf <= s
        /\ s = mf => Overtaken(e)
    BY <1>1, MidSegments
  <1>6. f = s \/ f = mf
    BY DEF EndFlushed
  <1> HIDE DEF s, t, mf, f
  <1>7. f <= s
    BY <1>3, <1>4, <1>5, <1>6
  <1>8. ASSUME t = f PROVE \E x \in accepted' : Ends(x.key) /\ Segment(x.id) = f
    <2>1. f = s
      BY <1>3, <1>4, <1>7, <1>8
    <2>2. CASE Ends(e.key)
      BY <1>1, <2>1, <2>2 DEF s
    <2>3. CASE ~Ends(e.key)
      <3>1. ~CloseWrites(e, r, c)
        BY <1>3, <1>4, <1>8, <2>1, <2>3 DEF CloseWrites, AtBoundary
      <3>2. f = mf
        BY <3>1 DEF EndFlushed, f, mf
      <3>3. Overtaken(e)
        BY <1>5, <2>1, <3>2
      <3> QED BY <1>1, <2>1, <3>3 DEF Overtaken, s
    <2> QED BY <2>2, <2>3
  <1>9. e.id > 0 /\ f <= Segment(e.id)
    BY <1>2, <1>7 DEF s
  <1>10. t = Segment(e.id + 1)
    BY DEF t
  <1> QED BY <1>1, <1>8, <1>9, <1>10 DEF SegmentsClosed, Segment

LEMMA BufferWaitsStep ==
  ASSUME EventTypes, Numbered, SegmentsClosed, BufferWaits,
         NEW e \in Event, NEW r \in BOOLEAN, NEW c \in BOOLEAN, Accepts(e, r, c, FALSE)
  PROVE  BufferWaits'
  <1>0. Saved(e, r, c)
    BY SavedFields
  <1>1. /\ notifier'.counter = e.id /\ accepted' = accepted \cup {e} /\ e.id > notifier.counter
        /\ notifier'.flushed = EndFlushed(e, r, c) /\ notifier'.buffer = EndBuffer(e, r, c)
        /\ notifier'.index = EndIndex(e, r, c)
    BY <1>0 DEF Saved
  <1>2. e.id > 0
    BY EventFields
  <1>3. CASE AtBoundary(e) /\ c
    <2>1. notifier'.buffer = <<>>
      BY <1>1, <1>3 DEF EndBuffer
    <2>2. Range(<<>>) = {}
      BY DEF Range
    <2> QED BY <2>1, <2>2 DEF BufferWaits
  <1>4. CASE ~(AtBoundary(e) /\ c)
    <2>1. notifier'.index = Segment(e.id) /\ notifier'.flushed = MidFlushed(e, r)
      BY <1>1, <1>4 DEF EndIndex, EndFlushed, CloseWrites
    <2>2. ASSUME NEW b \in Range(notifier'.buffer)
          PROVE  /\ MidFlushed(e, r) <= Segment(b.id)
                 /\ Segment(b.id) = MidFlushed(e, r) => Overtaken(b)'
      <3>1. b \in Range(MidBuffer(e, r)) \cup {e}
        BY <1>1, EndFacts DEF EventTypes
      <3> QED BY <1>1, <3>1, MidSegments, OvertakenStays
    <2> QED BY <1>1, <1>2, <2>1, <2>2 DEF BufferWaits, Segment
  <1> QED BY <1>3, <1>4

LEMMA AllKeptStep ==
  ASSUME EventTypes, Numbered, SegmentsClosed, BufferWaits, AllKept,
         NEW e \in Event, NEW r \in BOOLEAN, NEW c \in BOOLEAN, Accepts(e, r, c, FALSE)
  PROVE  AllKept'
  <1>0. Saved(e, r, c)
    BY SavedFields
  <1>1. /\ accepted' = accepted \cup {e} /\ e.id > notifier.counter
        /\ notifier'.flushed = EndFlushed(e, r, c) /\ notifier'.buffer = EndBuffer(e, r, c)
        /\ archive' = EndArchive(e, r, c) /\ trimmed' = trimmed \cup EndLost(e, r, c)
    BY <1>0 DEF Saved
  <1>2. ASSUME NEW b \in accepted'
        PROVE  \/ KeptIn(b, EndArchive(e, r, c), EndFlushed(e, r, c))
               \/ b \in Range(EndBuffer(e, r, c))
               \/ b \in trimmed \cup EndLost(e, r, c)
               \/ Overtaken(b)
    <2>1. \/ KeptIn(b, archive, notifier.flushed)
          \/ b \in Range(notifier.buffer) \cup {e}
          \/ b \in trimmed
          \/ Overtaken(b)
      BY <1>1, <1>2 DEF AllKept
    <2> QED BY <1>1, <2>1, EmitKeeps
  <1>3. ASSUME NEW b \in accepted'
        PROVE  \/ KeptIn(b, archive', notifier'.flushed)
               \/ b \in Range(notifier'.buffer)
               \/ b \in trimmed'
               \/ Overtaken(b)'
    BY <1>1, <1>2, OvertakenStays
  <1>4. \A b : KeptIn(b, archive', notifier'.flushed) <=> KeptIn(b, archive, notifier.flushed)'
    BY DEF KeptIn, Segment
  <1> QED BY <1>3, <1>4 DEF AllKept

\* What a bounded buffer holds of the end of a sequence, after one more element.
LEMMA SuffixGrows ==
  ASSUME NEW S, NEW q \in Seq(S), NEW ring \in Seq(S), NEW e \in S, NEW k \in Nat \ {0},
         EndsWith(ring, q), Len(q) + 1 <= k
  PROVE  EndsWith(Newest(Append(ring, e), k), Append(q, e))
  <1> DEFINE q2 == Append(q, e)
             R2 == Append(ring, e)
             new == Newest(R2, k)
  <1>1. /\ Len(q) \in Nat /\ Len(ring) \in Nat /\ Len(q2) = Len(q) + 1 /\ Len(R2) = Len(ring) + 1
        /\ R2 \in Seq(S) /\ Len(q) <= Len(ring)
        /\ \A j \in 1..Len(q) : ring[Len(ring) - Len(q) + j] = q[j]
    BY DEF EndsWith
  <1>2. /\ Len(new) = IF Len(R2) <= k THEN Len(R2) ELSE k
        /\ \A j \in 1..Len(new) : new[j] = R2[Len(R2) - Len(new) + j]
    <2>1. Len(new) = IF Len(R2) <= k THEN Len(R2) ELSE k
      <3> HIDE DEF R2
      <3> QED BY <1>1, NewestFacts
    <2>2. \A j \in 1..Len(new) : new[j] = R2[Len(R2) - Len(new) + j]
      <3> HIDE DEF R2
      <3>1. ASSUME NEW j \in 1..Len(new) PROVE new[j] = R2[Len(R2) - Len(new) + j]
        BY <1>1, NewestAt
      <3> QED BY <3>1
    <2> QED BY <2>1, <2>2
  <1>3. /\ \A j \in 1..Len(q) : q2[j] = q[j]
        /\ \A j \in 1..Len(ring) : R2[j] = ring[j]
        /\ R2[Len(ring) + 1] = e /\ q2[Len(q) + 1] = e
    OBVIOUS
  <1> HIDE DEF q2, R2, new
  <1>4. Len(new) \in Nat /\ Len(q2) <= Len(new) /\ Len(new) <= Len(R2)
    BY <1>1, <1>2
  <1>5. ASSUME NEW i \in 1..Len(q2) PROVE new[Len(new) - Len(q2) + i] = q2[i]
    <2>1. Len(new) - Len(q2) + i \in 1..Len(new)
      BY <1>1, <1>4
    <2>2. new[Len(new) - Len(q2) + i] = R2[Len(R2) - Len(new) + (Len(new) - Len(q2) + i)]
      BY <1>2, <2>1
    <2>3. Len(R2) - Len(new) + (Len(new) - Len(q2) + i) = Len(ring) - Len(q) + i
      BY <1>1, <1>4
    <2>4. CASE i = Len(q) + 1
      <3>1. Len(ring) - Len(q) + i = Len(ring) + 1
        BY <1>1, <2>4
      <3> QED BY <1>3, <2>2, <2>3, <2>4, <3>1
    <2>5. CASE i # Len(q) + 1
      <3>1. i \in 1..Len(q) /\ Len(ring) - Len(q) + i \in 1..Len(ring)
        BY <1>1, <2>5
      <3> QED BY <1>1, <1>3, <2>2, <2>3, <3>1
    <2> QED BY <2>4, <2>5
  <1> QED BY <1>4, <1>5 DEF q2, R2, new, EndsWith

LEMMA RingCoversStep ==
  ASSUME EventTypes, Numbered, RingCovers,
         NEW e \in Event, NEW r \in BOOLEAN, NEW c \in BOOLEAN, Accepts(e, r, c, FALSE)
  PROVE  RingCovers'
  <1> DEFINE s == Segment(e.id)
             base == (s - 1) * SegmentSize
             q == MidBuffer(e, r)
             q2 == Append(q, e)
  <1>0. Saved(e, r, c)
    BY SavedFields
  <1>1. /\ notifier'.counter = e.id /\ accepted' = accepted \cup {e} /\ e.id > notifier.counter
        /\ notifier'.buffer = EndBuffer(e, r, c) /\ notifier'.index = EndIndex(e, r, c)
        /\ notifier'.ring = Newest(Append(notifier.ring, e), RingSize)
        /\ trimmed' = trimmed \cup EndLost(e, r, c)
    BY <1>0 DEF Saved
  <1>2. failed' = (failed \/ ~r \/ ~c)
    BY DEF Accepts
  <1>3. SUFFICES ASSUME ~failed, r, c
                 PROVE  /\ trimmed' = {}
                        /\ EndsWith(notifier'.ring, notifier'.buffer)
                        /\ \A i \in 1..Len(notifier'.buffer) :
                             (notifier'.index - 1) * SegmentSize + i <= notifier'.buffer[i].id
    BY <1>2 DEF RingCovers, EndsWith
  <1>4. /\ trimmed = {}
        /\ EndsWith(notifier.ring, notifier.buffer)
        /\ \A i \in 1..Len(notifier.buffer) :
             (notifier.index - 1) * SegmentSize + i <= notifier.buffer[i].id
    BY <1>3 DEF RingCovers
  <1>5. /\ EventTypeOK /\ Held
        /\ notifier.buffer \in Seq(Event) /\ notifier.ring \in Seq(Event)
        /\ q \in Seq(Event) /\ notifier.counter \in Nat
    BY NotifierFields, EndFacts DEF EventTypes
  <1>6. /\ SegmentSize \in Nat \ {0} /\ RingSize \in Nat \ {0} /\ MaxBuffer \in Nat \ {0}
        /\ RingSize >= SegmentSize /\ MaxBuffer >= SegmentSize
    BY EvSizes
  <1>7. /\ e.id \in Nat \ {0} /\ s \in Nat \ {0} /\ base + 1 <= e.id /\ base + SegmentSize >= e.id
    <2>1. e.id \in Nat \ {0}
      BY EventFields
    <2> QED BY <1>6, <2>1, SegmentFacts
  <1>8. base \in Int
    BY <1>6, <1>7
  <1>9. /\ EndsWith(notifier.ring, q)
        /\ \A i \in 1..Len(q) : base + i <= q[i].id
    <2>1. CASE s = notifier.index
      <3>1. q = notifier.buffer
        BY <2>1 DEF MidBuffer
      <3> QED BY <1>4, <2>1, <3>1
    <2>2. CASE s # notifier.index
      <3>1. q = <<>>
        BY <1>3, <2>2 DEF MidBuffer
      <3>2. Len(q) = 0 /\ Len(notifier.ring) \in Nat
        BY <1>5, <3>1
      <3> HIDE DEF q, base
      <3> QED BY <3>2 DEF EndsWith
    <2> QED BY <2>1, <2>2
  <1>10. \A i \in 1..Len(q) : q[i].id \in Nat /\ q[i].id < e.id
    <2>1. ASSUME NEW i \in 1..Len(q) PROVE q[i].id \in Nat /\ q[i].id < e.id
      <3>1. q[i] \in Range(q)
        BY <1>5, <2>1, <1>6, RangeFacts
      <3>2. q[i] \in accepted
        BY <1>5, <3>1, EndFacts DEF Held
      <3> QED BY <1>1, <3>2, NewestId
    <2> QED BY <2>1
  <1> HIDE DEF base, q, s
  <1>11. Len(q) \in Nat /\ Len(q2) = Len(q) + 1 /\ q2 \in Seq(Event)
    BY <1>5
  <1>12. base + (Len(q) + 1) <= e.id
    <2>1. CASE Len(q) = 0
      BY <1>7, <1>8, <2>1
    <2>2. CASE Len(q) # 0
      <3>1. Len(q) \in 1..Len(q)
        BY <1>11, <2>2
      <3>2. base + Len(q) <= q[Len(q)].id /\ q[Len(q)].id \in Nat /\ q[Len(q)].id < e.id
        BY <1>9, <1>10, <3>1
      <3> QED BY <1>7, <1>8, <1>11, <3>2
    <2> QED BY <2>1, <2>2
  <1>13. Len(q) + 1 <= SegmentSize
    BY <1>6, <1>7, <1>8, <1>11, <1>12
  <1>14. EndsWith(notifier'.ring, q2)
    <2> DEFINE rg == notifier.ring
    <2>1. Len(q) + 1 <= RingSize
      BY <1>6, <1>11, <1>13
    <2>2. rg \in Seq(Event) /\ q \in Seq(Event) /\ EndsWith(rg, q)
      BY <1>5, <1>9
    <2>3. notifier'.ring = Newest(Append(rg, e), RingSize)
      BY <1>1
    <2> HIDE DEF rg
    <2>4. EndsWith(Newest(Append(rg, e), RingSize), q2)
      BY <1>6, <2>1, <2>2, SuffixGrows
    <2> QED BY <2>3, <2>4
  <1>15. \A i \in 1..Len(q2) : base + i <= q2[i].id
    <2>1. ASSUME NEW i \in 1..Len(q2) PROVE base + i <= q2[i].id
      <3>1. CASE i = Len(q) + 1
        <4>1. q2[i] = e
          BY <1>5, <3>1
        <4> QED BY <1>12, <3>1, <4>1
      <3>2. CASE i # Len(q) + 1
        <4>1. i \in 1..Len(q)
          BY <1>11, <3>2
        <4>2. q2[i] = q[i]
          BY <1>5, <4>1
        <4> QED BY <1>9, <4>1, <4>2
      <3> QED BY <3>1, <3>2
    <2> QED BY <2>1
  <1>16. CASE AtBoundary(e)
    <2>1. notifier'.buffer = <<>> /\ trimmed' = {}
      BY <1>1, <1>3, <1>4, <1>16 DEF EndBuffer, EndLost
    <2>2. Len(notifier'.buffer) = 0 /\ Len(notifier'.ring) \in Nat
      <3>1. Len(notifier'.ring) \in Nat
        <4>1. Append(notifier.ring, e) \in Seq(Event)
          BY <1>5
        <4>2. notifier'.ring \in Seq(Event)
          BY <1>1, <1>6, <4>1, NewestBound
        <4> QED BY <4>2
      <3> QED BY <2>1, <3>1
    <2> QED BY <2>1, <2>2 DEF EndsWith
  <1>17. CASE ~AtBoundary(e)
    <2>1. Len(q2) <= MaxBuffer
      BY <1>6, <1>11, <1>13
    <2>2. Newest(q2, MaxBuffer) = q2
      BY <1>6, <1>11, <2>1, NewestFacts
    <2>3. notifier'.buffer = q2 /\ notifier'.index = s
      BY <1>1, <1>17, <2>2 DEF EndBuffer, EndIndex, q, s
    <2>4. trimmed' = {}
      BY <1>1, <1>4, <1>17, <2>3 DEF EndLost, q
    <2>5. \A i \in 1..Len(q2) : (notifier'.index - 1) * SegmentSize + i <= q2[i].id
      BY <1>15, <2>3 DEF base
    <2> HIDE DEF q2
    <2> QED BY <1>14, <2>3, <2>4, <2>5
  <1> QED BY <1>16, <1>17

(***************************************************************************)
(* Keys and requests.                                                       *)
(***************************************************************************)

LEMMA SameCardinality ==
  \A S : Cardinality(S) = Cardinality(S)
  BY Zenon DEF Cardinality, Cardinality

LEMMA LaterGrows ==
  ASSUME EventTypes, Numbered, NEW e \in Event, e.id > notifier.counter,
         accepted' = accepted \cup {e}, NEW b \in accepted
  PROVE  /\ IsFiniteSet(Later(b)) /\ Cardinality(Later(b)) \in Nat
         /\ e.key = Notice => Later(b)' = Later(b)
         /\ e.key # Notice => Cardinality(Later(b)') = Cardinality(Later(b)) + 1
  <1>1. IsFiniteSet(Later(b)) /\ Cardinality(Later(b)) \in Nat
    <2>1. Later(b) \subseteq accepted /\ IsFiniteSet(accepted)
      BY DEF Later, EventTypes
    <2> QED BY <2>1, FS_Subset, FS_CardinalityType
  <1>2. b.id < e.id /\ e \notin accepted
    BY NewestId
  <1>3. e.key = Notice => Later(b)' = Later(b)
    BY <1>2 DEF Later
  <1>4. ASSUME e.key # Notice
        PROVE  Cardinality(Later(b)') = Cardinality(Later(b)) + 1
    <2>1. Later(b)' = Later(b) \cup {e} /\ e \notin Later(b)
      BY <1>2, <1>4 DEF Later
    <2> QED BY <1>1, <2>1, FS_AddElement
  <1> QED BY <1>1, <1>3, <1>4

LEMMA KeysRememberedStep ==
  ASSUME EventTypes, Numbered, KeysRemembered,
         NEW e \in Event, NEW r \in BOOLEAN, NEW c \in BOOLEAN, Accepts(e, r, c, FALSE)
  PROVE  KeysRemembered'
  <1>0. Saved(e, r, c)
    BY SavedFields
  <1>1. /\ accepted' = accepted \cup {e} /\ e.id > notifier.counter
        /\ notifier'.keys = (IF e.key = Notice THEN notifier.keys
                             ELSE Newest(Append(notifier.keys, e.key), MaxKeys))
    BY <1>0 DEF Saved
  <1>2. MaxKeys \in Nat \ {0}
    BY EvSizes
  <1>3. /\ notifier.keys \in Seq(Keys \ {Notice}) /\ Len(notifier.keys) <= MaxKeys
        /\ accepted \subseteq Event
    BY NotifierFields DEF EventTypes, EventTypeOK
  <1>4. CASE e.key = Notice
    <2>1. notifier'.keys = notifier.keys
      BY <1>1, <1>4
    <2>2. \A b \in accepted : Later(b)' = Later(b)
      BY <1>1, <1>4, LaterGrows
    <2>3. ASSUME NEW b \in accepted', b.key # Notice
          PROVE  \/ MaxKeys <= Cardinality(Later(b))
                 \/ \E i \in 1..Len(notifier.keys) :
                       notifier.keys[i] = b.key /\ Len(notifier.keys) - i <= Cardinality(Later(b))
      BY <1>1, <1>4, <2>3 DEF KeysRemembered
    <2>4. ASSUME NEW b \in accepted', b.key # Notice
          PROVE  \/ MaxKeys <= Cardinality(Later(b)')
                 \/ \E i \in 1..Len(notifier'.keys) :
                       notifier'.keys[i] = b.key /\ Len(notifier'.keys) - i <= Cardinality(Later(b)')
      <3>1. b \in accepted
        BY <1>1, <1>4, <2>4
      <3> QED BY <2>1, <2>2, <2>3, <2>4, <3>1
    <2> QED BY <2>4 DEF KeysRemembered, Later
  <1>5. CASE e.key # Notice
    <2> DEFINE ks == notifier.keys
               k2 == Append(ks, e.key)
               new == notifier'.keys
    <2>1. /\ k2 \in Seq(Keys \ {Notice}) /\ Len(ks) \in Nat /\ Len(k2) = Len(ks) + 1
          /\ \A i \in 1..Len(ks) : k2[i] = ks[i]
          /\ k2[Len(ks) + 1] = e.key
      BY <1>3, <1>5, EventFields
    <2>2. new = Newest(k2, MaxKeys)
      BY <1>1, <1>5
    <2> HIDE DEF k2, new
    <2>3. Len(new) = IF Len(k2) <= MaxKeys THEN Len(k2) ELSE MaxKeys
      BY <1>2, <2>1, <2>2, NewestFacts
    <2>4. ASSUME NEW i \in 1..Len(new) PROVE new[i] = k2[Len(k2) - Len(new) + i]
      <3>1. Newest(k2, MaxKeys)[i] = k2[Len(k2) - Len(Newest(k2, MaxKeys)) + i]
        <4>1. i \in 1..Len(Newest(k2, MaxKeys))
          BY <2>2
        <4>2. k2 \in Seq(Keys \ {Notice})
          BY <2>1
        <4> QED BY <1>2, <4>1, <4>2, NewestAt
      <3> QED BY <2>2, <3>1
    <2>5. ASSUME NEW b \in accepted', b.key # Notice
          PROVE  \/ MaxKeys <= Cardinality(Later(b)')
                 \/ \E i \in 1..Len(new) :
                       new[i] = b.key /\ Len(new) - i <= Cardinality(Later(b)')
      <3>1. CASE b = e
        <4>1. Len(new) \in 1..Len(new) /\ new[Len(new)] = e.key
          <5>1. Len(new) \in 1..Len(new) /\ Len(k2) - Len(new) + Len(new) = Len(ks) + 1
            BY <1>2, <2>1, <2>3
          <5> QED BY <2>1, <2>4, <5>1
        <4>2. Cardinality(Later(b)') \in Nat
          <5>1. Later(b)' \subseteq accepted' /\ IsFiniteSet(accepted')
            <6>1. IsFiniteSet(accepted)
              BY DEF EventTypes
            <6> QED BY <1>1, <6>1, FS_AddElement DEF Later
          <5> QED BY <5>1, FS_Subset, FS_CardinalityType
        <4>3. Len(new) - Len(new) <= Cardinality(Later(b)')
          BY <1>2, <2>1, <2>3, <4>2
        <4> QED BY <3>1, <4>1, <4>3
      <3>2. CASE b # e
        <4> DEFINE n == Cardinality(Later(b))
        <4>1. b \in accepted
          BY <1>1, <2>5, <3>2
        <4>2. n \in Nat /\ Cardinality(Later(b)') = n + 1
          BY <1>1, <1>5, <4>1, LaterGrows
        <4>3. MaxKeys <= n \/ \E i \in 1..Len(ks) : ks[i] = b.key /\ Len(ks) - i <= n
          BY <2>5, <4>1 DEF KeysRemembered
        <4> HIDE DEF n
        <4>4. CASE MaxKeys <= n
          BY <1>2, <4>2, <4>4
        <4>5. ASSUME NEW i \in 1..Len(ks), ks[i] = b.key, Len(ks) - i <= n
              PROVE  \/ MaxKeys <= n + 1
                     \/ \E j \in 1..Len(new) : new[j] = b.key /\ Len(new) - j <= n + 1
          <5> DEFINE j == i - (Len(k2) - Len(new))
                     L == Len(ks)
                     M == Len(new)
          <5>0. /\ L \in Nat /\ Len(k2) = L + 1 /\ M = (IF L + 1 <= MaxKeys THEN L + 1 ELSE MaxKeys)
                /\ i \in Nat /\ 1 <= i /\ i <= L /\ L - i <= n /\ L <= MaxKeys /\ n \in Nat
            BY <1>2, <1>3, <2>1, <2>3, <4>2, <4>5
          <5> HIDE DEF L, M
          <5>1. CASE j < 1
            BY <1>2, <5>0, <5>1 DEF M
          <5>2. CASE j >= 1
            <6>1. /\ j \in 1..Len(new) /\ Len(new) - j <= n + 1
                  /\ Len(k2) - Len(new) + j = i
              BY <1>2, <5>0, <5>2 DEF M
            <6> HIDE DEF j
            <6>2. new[j] = b.key
              BY <2>1, <2>4, <4>5, <6>1
            <6> QED BY <6>1, <6>2
          <5>3. j \in Int
            BY <1>2, <2>1, <2>3
          <5> QED BY <5>1, <5>2, <5>3
        <4> QED BY <4>2, <4>3, <4>4, <4>5
      <3> QED BY <3>1, <3>2
    <2> QED BY <2>5 DEF KeysRemembered, Later, new
  <1> QED BY <1>4, <1>5

LEMMA OneEventStep ==
  ASSUME EventTypes, Numbered, KeysRemembered, NoticeOnce, ~forgot,
         OneEventPerRequest, NEW e \in Event, NEW r \in BOOLEAN, NEW c \in BOOLEAN,
         Accepts(e, r, c, FALSE), e.key = Notice => ender.pc = "notice"
  PROVE  OneEventPerRequest'
  <1> DEFINE Between(A, b, d) == {x \in A : x.key # Notice /\ b.id < x.id /\ x.id < d.id}
  <1>0. Saved(e, r, c)
    BY SavedFields
  <1>1. /\ accepted' = accepted \cup {e} /\ e.id > notifier.counter
    BY <1>0 DEF Saved
  <1>2. \A b \in accepted : b.id \in Nat /\ b.id < e.id /\ b # e
    BY <1>1, NewestId
  <1>3. e.id \in Nat
    BY EventFields
  <1>4. SUFFICES ASSUME NEW b \in accepted', NEW d \in accepted', b.key = d.key, b.id < d.id
                 PROVE  MaxKeys <= Cardinality(Between(accepted', b, d))
    BY SameCardinality, Zenon DEF OneEventPerRequest
  <1>5. b \in accepted
    BY <1>1, <1>2, <1>3, <1>4
  <1>6. CASE d \in accepted
    <2>1. MaxKeys <= Cardinality(Between(accepted, b, d))
      BY <1>4, <1>5, <1>6, SameCardinality, Zenon DEF OneEventPerRequest
    <2>2. Between(accepted', b, d) = Between(accepted, b, d)
      BY <1>1, <1>2, <1>3, <1>6
    <2> QED BY <2>1, <2>2
  <1>7. CASE d = e
    <2>1. b.key # Notice
      BY <1>4, <1>5, <1>7 DEF NoticeOnce
    <2>2. e.key \notin Range(notifier.keys)
      BY <1>4, <1>7, <2>1 DEF Accepts
    <2>3. \A i \in 1..Len(notifier.keys) : notifier.keys[i] # b.key
      <3>1. notifier.keys \in Seq(Keys \ {Notice})
        BY NotifierFields DEF EventTypes
      <3>2. Range(notifier.keys) = {notifier.keys[i] : i \in 1..Len(notifier.keys)}
        BY <3>1 DEF Range
      <3> QED BY <1>4, <1>7, <2>2, <3>2
    <2>4. MaxKeys <= Cardinality(Later(b))
      BY <1>5, <2>1, <2>3 DEF KeysRemembered
    <2>5. Between(accepted', b, d) = Later(b)
      BY <1>1, <1>2, <1>3, <1>7 DEF Later
    <2> QED BY <2>4, <2>5
  <1> QED BY <1>1, <1>6, <1>7

(***************************************************************************)
(* The theorems.                                                            *)
(***************************************************************************)

LEMMA EventInvInit ==
  ASSUME EventInit
  PROVE  EventInv
  <1>1. EventTypes
    BY EventTypesInit
  <1>2. /\ notifier = Fresh /\ accepted = {} /\ trimmed = {} /\ archive = {}
    BY DEF EventInit
  <1>3. /\ notifier.flushed = 0 /\ notifier.buffer = <<>> /\ notifier.ring = <<>>
    BY <1>2 DEF Fresh
  <1>4. Range(<<>>) = {}
    BY DEF Range
  <1>5. Numbered /\ AllKept /\ KeysRemembered /\ OneEventPerRequest /\ NoticeOnce
    BY <1>2 DEF Numbered, AllKept, KeysRemembered, OneEventPerRequest, NoticeOnce
  <1>6. SegmentsClosed
    BY <1>3 DEF SegmentsClosed
  <1>7. BufferWaits
    BY <1>3, <1>4 DEF BufferWaits
  <1>8. RingCovers
    <2>1. Len(notifier.buffer) = 0 /\ Len(notifier.ring) = 0
      BY <1>3
    <2> QED BY <1>2, <2>1 DEF RingCovers, EndsWith
  <1> QED BY <1>1, <1>5, <1>6, <1>7, <1>8 DEF EventInv, StreamInv

\* The object dies after its writes: the archive has changed and nothing else.
LEMMA CrashStep ==
  ASSUME EventTypes, StreamInv, NEW e \in Event, NEW r \in BOOLEAN,
         NEW c \in BOOLEAN, Accepts(e, r, c, TRUE)
  PROVE  StreamInv'
  <1>1. /\ UNCHANGED <<notifier, accepted, trimmed, forgot>> /\ e.id > notifier.counter
        /\ archive' = EndArchive(e, r, c) /\ (failed => failed')
    BY DEF Accepts
  <1>2. /\ Numbered /\ SegmentsClosed /\ BufferWaits /\ AllKept
        /\ RingCovers /\ KeysRemembered /\ OneEventPerRequest
    BY DEF StreamInv
  <1>3. Numbered' /\ SegmentsClosed'
    BY <1>1, <1>2 DEF Numbered, SegmentsClosed, Segment
  <1>4. BufferWaits'
    BY <1>1, <1>2 DEF BufferWaits, Segment, Overtaken
  <1>5. RingCovers' /\ KeysRemembered'
    BY <1>1, <1>2 DEF RingCovers, EndsWith, KeysRemembered, Later
  <1>6. OneEventPerRequest'
    BY <1>1, <1>2, Zenon DEF OneEventPerRequest
  <1>7. AllKept'
    <2>1. ASSUME NEW b \in accepted
          PROVE  \/ KeptIn(b, archive', notifier.flushed)
                 \/ b \in Range(notifier.buffer)
                 \/ b \in trimmed
                 \/ Overtaken(b)
      BY <1>1, <1>2, EmitKeeps DEF AllKept
    <2> QED BY <1>1, <2>1 DEF AllKept, KeptIn, Overtaken, Segment
  <1> QED BY <1>3, <1>4, <1>5, <1>6, <1>7 DEF StreamInv

LEMMA EventInvStep ==
  ASSUME EventInv, [EventNext]_eventVars
  PROVE  EventInv'
  <1>1. EventTypes /\ NoticeOnce /\ (forgot \/ StreamInv) /\ EventTypeOK
    BY DEF EventInv, EventTypes
  <1>2. EventTypes'
    BY <1>1, EventTypesStep
  <1>3. ender'.pc \in {"none", "notice"} => ender.pc \in {"none", "notice"}
    BY <1>1, StreamSteps
  <1>4. CASE SameStream
    <2>1. UNCHANGED <<notifier, archive, accepted, trimmed, failed, forgot>>
      BY <1>4 DEF SameStream
    <2>2. NoticeOnce'
      BY <1>1, <1>3, <2>1 DEF NoticeOnce
    <2>3. ASSUME StreamInv PROVE StreamInv'
      <3>1. /\ Numbered /\ SegmentsClosed /\ BufferWaits /\ AllKept
            /\ RingCovers /\ KeysRemembered /\ OneEventPerRequest
        BY <2>3 DEF StreamInv
      <3>2. Numbered' /\ SegmentsClosed'
        BY <2>1, <3>1 DEF Numbered, SegmentsClosed, Segment
      <3>3. BufferWaits' /\ AllKept'
        BY <2>1, <3>1 DEF BufferWaits, AllKept, KeptIn, Segment, Overtaken
      <3>4. RingCovers' /\ KeysRemembered'
        BY <2>1, <3>1 DEF RingCovers, EndsWith, KeysRemembered, Later
      <3>5. OneEventPerRequest'
        BY <2>1, <3>1, Zenon DEF OneEventPerRequest
      <3> QED BY <3>2, <3>3, <3>4, <3>5 DEF StreamInv
    <2> QED BY <1>1, <1>2, <2>1, <2>2, <2>3 DEF EventInv
  <1>5. CASE LoadFails
    <2>1. forgot' = TRUE /\ UNCHANGED accepted
      BY <1>5 DEF LoadFails
    <2>2. NoticeOnce'
      BY <1>1, <1>3, <2>1 DEF NoticeOnce
    <2> QED BY <1>2, <2>1, <2>2 DEF EventInv
  <1>6. CASE NewEvent
    <2>1. PICK e \in Event, r \in BOOLEAN, c \in BOOLEAN, crash \in BOOLEAN :
                 /\ Accepts(e, r, c, crash)
                 /\ e.key = Notice => ender.pc = "notice" /\ ender'.pc = "over"
      BY <1>6 DEF NewEvent
    <2>2. forgot' = forgot /\ accepted' \subseteq accepted \cup {e}
      BY <2>1 DEF Accepts
    <2>3. NoticeOnce'
      <3>1. SUFFICES ASSUME ender'.pc \in {"none", "notice"}, NEW b \in accepted'
                     PROVE  b.key # Notice
        BY DEF NoticeOnce
      <3>2. CASE b \in accepted
        BY <1>1, <1>3, <3>1, <3>2 DEF NoticeOnce
      <3>3. CASE b = e
        BY <2>1, <3>1, <3>3
      <3> QED BY <2>2, <3>2, <3>3
    <2>4. ASSUME ~forgot, StreamInv PROVE StreamInv'
      <3>1. /\ Numbered /\ SegmentsClosed /\ BufferWaits /\ AllKept
            /\ RingCovers /\ KeysRemembered /\ OneEventPerRequest
        BY <2>4 DEF StreamInv
      <3>2. CASE crash = TRUE
        BY <1>1, <2>1, <2>4, <3>2, CrashStep
      <3>3. CASE crash = FALSE
        <4>1. Accepts(e, r, c, FALSE)
          BY <2>1, <3>3
        <4>2. Numbered' /\ SegmentsClosed' /\ BufferWaits' /\ AllKept'
          BY <1>1, <3>1, <4>1, NumberedStep, SegmentsClosedStep, BufferWaitsStep, AllKeptStep
        <4>3. RingCovers' /\ KeysRemembered'
          BY <1>1, <3>1, <4>1, RingCoversStep, KeysRememberedStep
        <4>4. OneEventPerRequest'
          BY <1>1, <2>1, <2>4, <3>1, <4>1, OneEventStep
        <4> QED BY <4>2, <4>3, <4>4 DEF StreamInv
      <3> QED BY <3>2, <3>3
    <2> QED BY <1>1, <1>2, <2>2, <2>3, <2>4 DEF EventInv
  <1> QED BY <1>1, <1>4, <1>5, <1>6, StreamSteps

LEMMA EventInvariant == EventSpec => []EventInv
  <1>1. EventInit => EventInv
    BY EventInvInit
  <1>2. EventInv /\ [EventNext]_eventVars => EventInv'
    BY EventInvStep
  <1> QED BY <1>1, <1>2, PTL DEF EventSpec

\* The type invariant: the notifier's ring, keys and buffer stay within their
\* caps, and the cap of the buffer throws away accepted events only.
THEOREM EventTypesHold == EventSpec => []EventTypeOK
  <1>1. EventInv => EventTypeOK
    BY DEF EventInv, EventTypes
  <1> QED BY <1>1, EventInvariant, PTL

\* Whatever writes fail and wherever the notifier dies, an event that was shown
\* is archived, waits in the buffer, or was dropped for one of the two known
\* reasons (handleR2Offload, flushR2Segment): ArchiveKeepsEvents.
THEOREM EventsStayArchived == EventSpec => []ArchiveKeepsEvents
  <1>1. EventInv => ArchiveKeepsEvents
    <2>1. SUFFICES ASSUME EventInv, ~forgot, NEW e \in accepted
                   PROVE  \/ e \in Archived \cup Range(notifier.buffer) \cup trimmed
                          \/ Overtaken(e)
      BY DEF ArchiveKeepsEvents
    <2>2. AllKept
      BY <2>1 DEF EventInv, StreamInv
    <2>3. KeptIn(e, archive, notifier.flushed) => e \in Archived
      BY DEF KeptIn, Archived
    <2> QED BY <2>2, <2>3 DEF AllKept
  <1> QED BY <1>1, EventInvariant, PTL

\* A request that is repeated is a second event only if MaxKeys other keys came
\* between (validateEmit, cleanupEmitDedupKeys): OneEventPerRequest.
THEOREM RequestsAreOnce == EventSpec => []OneEventPerRequest
  <1>1. EventInv => OneEventPerRequest
    BY Zenon DEF EventInv, StreamInv, OneEventPerRequest
  <1> QED BY <1>1, EventInvariant, PTL

\* Events are shown with growing ids, also after a crash: IdsIncrease.
THEOREM IdsGrow == EventSpec => IdsIncrease
  <1>1. EventInv /\ [EventNext]_eventVars =>
          [forgot' \/ \A e \in accepted' \ accepted : \A f \in accepted : f.id < e.id]_eventVars
    <2>1. SUFFICES ASSUME EventInv, [EventNext]_eventVars, ~forgot',
                          NEW e \in accepted' \ accepted, NEW f \in accepted
                   PROVE  f.id < e.id
      OBVIOUS
    <2>2. EventTypes /\ EventTypeOK
      BY <2>1 DEF EventInv, EventTypes
    <2>3. CASE SameStream \/ LoadFails
      BY <2>1, <2>3 DEF SameStream, LoadFails
    <2>4. CASE NewEvent
      <3>1. PICK x \in Event, r \in BOOLEAN, c \in BOOLEAN, crash \in BOOLEAN :
                   Accepts(x, r, c, crash)
        BY <2>4 DEF NewEvent
      <3>2. /\ forgot' = forgot /\ accepted' \subseteq accepted \cup {x} /\ x.id > notifier.counter
        BY <3>1 DEF Accepts
      <3>3. e = x /\ Numbered
        BY <2>1, <3>2 DEF EventInv, StreamInv
      <3> QED BY <2>1, <2>2, <3>2, <3>3, NewestId
    <2> QED BY <2>1, <2>2, <2>3, <2>4, StreamSteps
  <1> QED BY <1>1, EventInvariant, PTL DEF EventSpec, IdsIncrease

(***************************************************************************)
(* The reader (module RunEventReader).  A pass that has listed the segments  *)
(* has read an event, will open the segment that keeps it, or can still find *)
(* it in the ring: what was in no segment then was one of the last           *)
(* SegmentSize - 1 events, for a full segment leaves nothing in the buffer   *)
(* (BoundaryEmpty), and it has moved by one place for each event since.  An  *)
(* event that the notifier wrote and did not save (Phantoms) lies in its own *)
(* segment, where what replaced it is read later or in its place.            *)
(***************************************************************************)

BoundaryEmpty ==
    failed \/ (notifier.buffer # <<>> => notifier.counter % SegmentSize # 0)

Phantoms ==
    forgot \/ \A x \in archive : x.event \in accepted \/ x.segment = Segment(x.event.id)

ReaderShape ==
    /\ reader = [pc |-> reader.pc, cursor |-> reader.cursor, ended |-> reader.ended,
                 todo |-> reader.todo, got |-> reader.got, room |-> reader.room,
                 cut |-> reader.cut, before |-> reader.before]
    /\ reader.cursor \in Nat /\ reader.todo \subseteq Nat \ {0}
    /\ reader.got \subseteq Event
    /\ reader.before \in Nat /\ reader.before <= Cardinality(accepted)
    /\ reader.cut => reader.todo = {} /\ reader.pc # "list"

ReadAlready(e) == e \in reader.got /\ \A s \in reader.todo : s > Segment(e.id)

ReadSoon(e) ==
    \E x \in archive : /\ x.event = e /\ x.segment \in reader.todo
                       /\ Segment(e.id) <= x.segment /\ x.segment <= notifier.flushed

InRing(e) ==
    \E i \in 1..Len(notifier.ring) :
        /\ notifier.ring[i] = e
        /\ Len(notifier.ring) + 1 + reader.before < SegmentSize + Cardinality(accepted) + i

Wanted(e) == e \in accepted /\ e.id > reader.cursor /\ ~Overtaken(e)

PassFinds ==
    reader.pc = "segments" =>
        \/ forgot \/ failed \/ reader.cut \/ Outrun
        \/ \A e \in accepted : Wanted(e) => ReadAlready(e) \/ ReadSoon(e) \/ InRing(e)

ReaderInv == ReaderShape /\ BoundaryEmpty /\ Phantoms /\ PassFinds

\* What is in a segment that is written stays there.
LEMMA WrittenStays ==
  ASSUME EventTypeOK, NEW e \in Event, NEW r \in BOOLEAN, NEW c \in BOOLEAN
  PROVE  /\ notifier.flushed <= EndFlushed(e, r, c)
         /\ \A x \in archive : x.segment <= notifier.flushed => x \in EndArchive(e, r, c)
  <1>1. notifier.flushed \in Nat /\ notifier.index \in Nat
    BY NotifierFields
  <1>2. MidFlushed(e, r) \in Nat /\ Segment(e.id) \in Nat
    BY EndFacts
  <1>3. \A x \in archive : x.segment \in Nat
    BY DEF EventTypeOK
  <1>4. /\ notifier.flushed <= MidFlushed(e, r)
        /\ \A x \in archive : x.segment <= notifier.flushed => x \in MidArchive(e, r)
    <2>1. CASE RollWrites(e, r)
      <3>1. /\ MidFlushed(e, r) = notifier.index /\ notifier.index > notifier.flushed
            /\ MidArchive(e, r) = Written(archive, notifier.buffer, notifier.index)
        BY <2>1 DEF RollWrites, MidFlushed, MidArchive
      <3> QED BY <1>1, <1>3, <3>1 DEF Written
    <2>2. CASE ~RollWrites(e, r)
      BY <1>1, <2>2 DEF MidFlushed, MidArchive
    <2> QED BY <2>1, <2>2
  <1>5. CASE CloseWrites(e, r, c)
    <2>1. /\ EndFlushed(e, r, c) = Segment(e.id) /\ Segment(e.id) > MidFlushed(e, r)
          /\ EndArchive(e, r, c) =
               Written(MidArchive(e, r), Append(MidBuffer(e, r), e), Segment(e.id))
      BY <1>5 DEF CloseWrites, EndFlushed, EndArchive
    <2>2. notifier.flushed < Segment(e.id)
      BY <1>1, <1>2, <1>4, <2>1
    <2> QED BY <1>1, <1>2, <1>3, <1>4, <2>1, <2>2 DEF Written
  <1>6. CASE ~CloseWrites(e, r, c)
    BY <1>4, <1>6 DEF EndFlushed, EndArchive
  <1> QED BY <1>5, <1>6

\* A write adds events that are accepted, or the new one to its own segment.
LEMMA PhantomsStep ==
  ASSUME EventTypes, Phantoms, ~forgot, NEW e \in Event, NEW r \in BOOLEAN, NEW c \in BOOLEAN,
         NEW x \in EndArchive(e, r, c)
  PROVE  x.event \in accepted \/ x.segment = Segment(x.event.id)
  <1>1. /\ EventTypeOK /\ Range(notifier.buffer) \subseteq accepted
        /\ \A y \in archive : y.event \in accepted \/ y.segment = Segment(y.event.id)
    BY DEF EventTypes, Held, Phantoms
  <1>2. ASSUME NEW a, NEW q, NEW s, NEW y \in Written(a, q, s)
        PROVE  y \in a \/ \E b \in Range(q) : y.event = b /\ y.segment = s
    BY <1>2 DEF Written
  <1>3. ASSUME NEW y \in MidArchive(e, r)
        PROVE  y.event \in accepted \/ y.segment = Segment(y.event.id)
    <2>1. y \in archive \/ \E b \in Range(notifier.buffer) : y.event = b
      BY <1>2, <1>3 DEF MidArchive
    <2> QED BY <1>1, <2>1
  <1>4. CASE CloseWrites(e, r, c)
    <2>1. x \in Written(MidArchive(e, r), Append(MidBuffer(e, r), e), Segment(e.id))
      BY <1>4 DEF EndArchive
    <2>2. CASE x \in MidArchive(e, r)
      BY <1>3, <2>2
    <2>3. CASE \E b \in Range(Append(MidBuffer(e, r), e)) : x.event = b /\ x.segment = Segment(e.id)
      <3>1. PICK b \in Range(Append(MidBuffer(e, r), e)) : x.event = b /\ x.segment = Segment(e.id)
        BY <2>3
      <3>2. b = e \/ b \in Range(notifier.buffer)
        BY <1>1, <3>1, EndFacts
      <3> QED BY <1>1, <3>1, <3>2
    <2> QED BY <1>2, <2>1, <2>2, <2>3
  <1>5. CASE ~CloseWrites(e, r, c)
    BY <1>3, <1>5 DEF EndArchive
  <1> QED BY <1>4, <1>5

\* While no write fails the buffer has less than a segment.
LEMMA BufferIsShort ==
  ASSUME EventTypes, Numbered, BufferWaits, RingCovers, BoundaryEmpty, ~failed
  PROVE  Len(notifier.buffer) < SegmentSize
  <1>1. /\ notifier.buffer \in Seq(Event) /\ notifier.counter \in Nat
        /\ Range(notifier.buffer) \subseteq accepted
    BY NotifierFields DEF EventTypes, Held
  <1>2. SegmentSize \in Nat \ {0}
    BY EvSizes
  <1> DEFINE n == Len(notifier.buffer)
             k == notifier.counter
  <1>3. CASE n = 0
    BY <1>2, <1>3
  <1>4. CASE n # 0
    <2>1. n \in 1..n /\ n \in Nat /\ notifier.buffer # <<>>
      BY <1>1, <1>4
    <2>2. k > 0 /\ notifier.index = Segment(k) /\ k % SegmentSize # 0
      BY <2>1 DEF BufferWaits, BoundaryEmpty
    <2>3. (Segment(k) - 1) * SegmentSize + n <= notifier.buffer[n].id
      BY <2>1, <2>2 DEF RingCovers
    <2>4. notifier.buffer[n] \in accepted /\ notifier.buffer[n] \in Event
      BY <1>1, <2>1 DEF Range
    <2>5. notifier.buffer[n].id <= k /\ notifier.buffer[n].id \in Nat
      BY <2>4, EventFields DEF Numbered
    <2> HIDE DEF n
    <2>6. k \in Nat \ {0}
      BY <1>1, <2>2
    <2>7. Segment(k) \in Nat \ {0} /\ k <= (Segment(k) - 1) * SegmentSize + SegmentSize
      BY <1>2, <2>6, SegmentFacts
    <2>8. k # (Segment(k) - 1) * SegmentSize + SegmentSize
      <3> HIDE DEF k
      <3>1. \A m \in Nat : (m * SegmentSize + SegmentSize) % SegmentSize = 0
        BY <1>2, SMTT(30)
      <3>2. Segment(k) - 1 \in Nat
        BY <2>7
      <3> QED BY <2>2, <3>1, <3>2
    <2> DEFINE z == (Segment(k) - 1) * SegmentSize
               d == notifier.buffer[n].id
    <2>9. z \in Int
      BY <1>2, <2>7
    <2>10. z + n <= d /\ d <= k /\ k <= z + SegmentSize /\ k # z + SegmentSize
      BY <2>3, <2>5, <2>7, <2>8
    <2>11. d \in Nat /\ k \in Nat /\ n \in Nat
      BY <1>1, <2>1, <2>5
    <2> HIDE DEF z, d, k
    <2>12. n < SegmentSize
      BY <1>2, <2>9, <2>10, <2>11
    <2> QED BY <2>12 DEF n
  <1> QED BY <1>3, <1>4

\* A new event is in the ring of the pass, and outruns it or moves what it needs.
LEMMA RingStep ==
  ASSUME EventTypes, Numbered, ReaderShape, NEW e \in Event, NEW r \in BOOLEAN,
         NEW c \in BOOLEAN, Accepts(e, r, c, FALSE), UNCHANGED reader
  PROVE  /\ Cardinality(accepted') = Cardinality(accepted) + 1
         /\ InRing(e)'
         /\ \A b : InRing(b) /\ ~Outrun' => InRing(b)'
  <1> DEFINE ring == notifier.ring
             new == Newest(Append(ring, e), RingSize)
             n == Cardinality(accepted)
             z == reader.before
  <1>1. Saved(e, r, c)
    BY SavedFields
  <1>2. accepted' = accepted \cup {e} /\ notifier'.ring = new /\ e.id > notifier.counter
    BY <1>1 DEF Saved
  <1>3. ring \in Seq(Event) /\ IsFiniteSet(accepted)
    BY NotifierFields DEF EventTypes
  <1>4. e \notin accepted
    BY <1>2, NewestId
  <1>5. n \in Nat /\ Cardinality(accepted') = n + 1
    BY <1>2, <1>3, <1>4, FS_AddElement, FS_CardinalityType
  <1>6. /\ SegmentSize \in Nat \ {0} /\ RingSize \in Nat \ {0}
        /\ z \in Nat /\ z <= n /\ reader' = reader
    BY EvSizes DEF ReaderShape
  <1>7. Len(ring) \in Nat
    BY <1>3
  <1>8. /\ Len(new) \in Nat \ {0} /\ new[Len(new)] = e
        /\ \A i \in 1..Len(ring) : Len(ring) - i + 2 <= RingSize =>
              \E j \in 1..Len(new) : new[j] = ring[i] /\ Len(new) - j = Len(ring) - i + 1
    <2> DEFINE R2 == Append(ring, e)
    <2>1. /\ R2 \in Seq(Event) /\ Len(R2) = Len(ring) + 1 /\ R2[Len(ring) + 1] = e
          /\ \A i \in 1..Len(ring) : R2[i] = ring[i]
          /\ new = Newest(R2, RingSize)
      BY <1>3
    <2> HIDE DEF R2, ring, new
    <2>2. Len(new) = IF Len(R2) <= RingSize THEN Len(R2) ELSE RingSize
      BY <1>6, <2>1, NewestFacts
    <2>3. \A j \in 1..Len(new) : new[j] = R2[Len(R2) - Len(new) + j]
      <3>1. ASSUME NEW j \in 1..Len(Newest(R2, RingSize))
            PROVE  Newest(R2, RingSize)[j] = R2[Len(R2) - Len(Newest(R2, RingSize)) + j]
        BY <1>6, <2>1, NewestAt
      <3> QED BY <2>1, <3>1
    <2>4. Len(new) \in Nat \ {0} /\ Len(new) <= Len(R2)
      BY <1>6, <1>7, <2>1, <2>2
    <2>5. new[Len(new)] = e
      <3>1. Len(new) \in 1..Len(new) /\ Len(R2) - Len(new) + Len(new) = Len(ring) + 1
        BY <1>7, <2>1, <2>4
      <3> QED BY <2>1, <2>3, <3>1
    <2>6. ASSUME NEW i \in 1..Len(ring), Len(ring) - i + 2 <= RingSize
          PROVE  \E j \in 1..Len(new) : new[j] = ring[i] /\ Len(new) - j = Len(ring) - i + 1
      <3> DEFINE j == Len(new) - (Len(ring) - i + 1)
      <3>1. j \in 1..Len(new)
        BY <1>6, <1>7, <2>1, <2>2, <2>6
      <3>2. Len(R2) - Len(new) + j = i /\ Len(new) - j = Len(ring) - i + 1
        BY <1>7, <2>1, <2>4
      <3> HIDE DEF j
      <3>3. new[j] = ring[i]
        BY <2>1, <2>3, <3>1, <3>2
      <3> QED BY <3>1, <3>2, <3>3
    <2> QED BY <2>4, <2>5, <2>6
  <1>9. \A b : InRing(b) <=>
          \E i \in 1..Len(ring) : ring[i] = b /\ Len(ring) + 1 + z < SegmentSize + n + i
    BY DEF InRing
  <1>10. \A b : InRing(b)' <=>
          \E i \in 1..Len(new) : new[i] = b /\ Len(new) + 1 + z < SegmentSize + (n + 1) + i
    BY <1>2, <1>5, <1>6 DEF InRing
  <1>11. Outrun' <=> (n + 1) + SegmentSize > z + RingSize + 1
    BY <1>5, <1>6 DEF Outrun
  <1> HIDE DEF ring, new, n, z
  <1>12. InRing(e)'
    <2>1. Len(new) \in 1..Len(new) /\ Len(new) + 1 + z < SegmentSize + (n + 1) + Len(new)
      BY <1>5, <1>6, <1>8
    <2> QED BY <1>8, <1>10, <2>1
  <1>13. ASSUME NEW b, InRing(b), ~Outrun' PROVE InRing(b)'
    <2>1. PICK i \in 1..Len(ring) : ring[i] = b /\ Len(ring) + 1 + z < SegmentSize + n + i
      BY <1>9, <1>13
    <2>2. Len(ring) - i + 2 <= RingSize
      BY <1>5, <1>6, <1>7, <1>11, <1>13, <2>1
    <2>3. PICK j \in 1..Len(new) : new[j] = ring[i] /\ Len(new) - j = Len(ring) - i + 1
      BY <1>8, <2>2
    <2>4. Len(new) + 1 + z < SegmentSize + (n + 1) + j
      BY <1>5, <1>6, <1>7, <1>8, <2>1, <2>3
    <2> QED BY <1>10, <2>1, <2>3, <2>4
  <1> QED BY <1>5, <1>12, <1>13 DEF n

\* The steps of the notifier and its callers keep what a pass can find.
LEMMA NotifierKeepsReader ==
  ASSUME EventInv, ReaderInv, [EventNext]_eventVars, UNCHANGED reader
  PROVE  ReaderInv'
  <1>1. EventTypes /\ EventTypeOK /\ (forgot \/ StreamInv)
    BY DEF EventInv, EventTypes
  <1>2. ReaderShape /\ BoundaryEmpty /\ Phantoms /\ PassFinds
    BY DEF ReaderInv
  <1>3. reader' = reader
    OBVIOUS
  <1>4. CASE SameStream
    <2>1. UNCHANGED <<notifier, archive, accepted, failed, forgot>>
      BY <1>4 DEF SameStream
    <2>2. ReaderShape' /\ BoundaryEmpty' /\ Phantoms'
      BY <1>2, <1>3, <2>1 DEF ReaderShape, BoundaryEmpty, Phantoms, Segment
    <2>3. PassFinds'
      BY <1>2, <1>3, <2>1
         DEF PassFinds, Wanted, Overtaken, ReadAlready, ReadSoon, InRing, Outrun, Segment
    <2> QED BY <2>2, <2>3 DEF ReaderInv
  <1>5. CASE LoadFails
    <2>1. forgot' = TRUE /\ UNCHANGED accepted /\ notifier'.buffer = <<>>
      BY <1>5 DEF LoadFails, Fresh
    <2>2. ReaderShape' /\ BoundaryEmpty' /\ Phantoms' /\ PassFinds'
      BY <1>2, <1>3, <2>1 DEF ReaderShape, BoundaryEmpty, Phantoms, PassFinds
    <2> QED BY <2>2 DEF ReaderInv
  <1>6. CASE NewEvent
    <2>1. PICK e \in Event, r \in BOOLEAN, c \in BOOLEAN, crash \in BOOLEAN :
                 Accepts(e, r, c, crash)
      BY <1>6 DEF NewEvent
    <2>2. /\ forgot' = forgot /\ archive' = EndArchive(e, r, c)
          /\ failed' = (failed \/ ~r \/ ~c) /\ e.id > notifier.counter
      BY <2>1 DEF Accepts
    <2>3. /\ \A x \in archive : x.segment <= notifier.flushed => x \in archive'
          /\ notifier.flushed <= EndFlushed(e, r, c)
      BY <1>1, <2>2, WrittenStays
    <2>4. CASE crash = TRUE
      <3>1. UNCHANGED <<notifier, accepted>>
        BY <2>1, <2>4 DEF Accepts
      <3>2. ReaderShape' /\ BoundaryEmpty'
        BY <1>2, <1>3, <2>2, <3>1 DEF ReaderShape, BoundaryEmpty
      <3>3. Phantoms'
        <4>1. SUFFICES ASSUME ~forgot, NEW x \in EndArchive(e, r, c)
                       PROVE  x.event \in accepted \/ x.segment = Segment(x.event.id)
          BY <2>2, <3>1 DEF Phantoms, Segment
        <4> QED BY <1>1, <1>2, <4>1, PhantomsStep
      <3>4. PassFinds'
        <4>1. \A b : ReadAlready(b) => ReadAlready(b)'
          BY <1>3 DEF ReadAlready, Segment
        <4>2. \A b : ReadSoon(b) => ReadSoon(b)'
          BY <1>3, <2>3, <3>1 DEF ReadSoon, Segment
        <4>3. \A b : (InRing(b) => InRing(b)') /\ (Wanted(b)' => Wanted(b))
          BY <1>3, <3>1 DEF InRing, Wanted, Overtaken, Segment
        <4>4. Outrun => Outrun'
          BY <1>3, <3>1 DEF Outrun
        <4> QED BY <1>2, <1>3, <2>2, <3>1, <4>1, <4>2, <4>3, <4>4 DEF PassFinds
      <3> QED BY <3>2, <3>3, <3>4 DEF ReaderInv
    <2>5. CASE crash = FALSE
      <3>1. Accepts(e, r, c, FALSE)
        BY <2>1, <2>5
      <3>2. Saved(e, r, c)
        BY <3>1, SavedFields
      <3>3. /\ accepted' = accepted \cup {e} /\ notifier'.flushed = EndFlushed(e, r, c)
            /\ notifier'.buffer = EndBuffer(e, r, c) /\ notifier'.counter = e.id
        BY <3>2 DEF Saved
      <3>4. BoundaryEmpty'
        <4>1. SUFFICES ASSUME ~failed, r, c, EndBuffer(e, r, c) # <<>>
                       PROVE  e.id % SegmentSize # 0
          BY <2>2, <3>3 DEF BoundaryEmpty
        <4> QED BY <4>1 DEF EndBuffer, AtBoundary
      <3>5. Phantoms'
        <4>1. SUFFICES ASSUME ~forgot, NEW x \in EndArchive(e, r, c)
                       PROVE  x.event \in accepted \/ x.segment = Segment(x.event.id)
          BY <2>2, <3>3 DEF Phantoms, Segment
        <4> QED BY <1>1, <1>2, <4>1, PhantomsStep
      <3>6. ReaderShape'
        <4>1. IsFiniteSet(accepted) /\ IsFiniteSet(accepted') /\ accepted \subseteq accepted'
          BY <1>1, <3>3, FS_AddElement DEF EventTypes
        <4>2. /\ Cardinality(accepted) \in Nat /\ Cardinality(accepted') \in Nat
              /\ Cardinality(accepted) <= Cardinality(accepted')
          BY <4>1, FS_Subset, FS_CardinalityType
        <4>3. reader.before <= Cardinality(accepted')
          BY <1>2, <4>2 DEF ReaderShape
        <4> QED BY <1>2, <1>3, <4>3 DEF ReaderShape
      <3>7. PassFinds'
        <4>1. SUFFICES ASSUME reader.pc = "segments", ~forgot, ~failed, ~reader.cut, ~Outrun',
                              NEW b \in accepted', Wanted(b)'
                       PROVE  ReadAlready(b)' \/ ReadSoon(b)' \/ InRing(b)'
          BY <1>3, <2>2 DEF PassFinds
        <4>2. Numbered
          BY <1>1, <4>1 DEF StreamInv
        <4>3. /\ Cardinality(accepted') = Cardinality(accepted) + 1
              /\ InRing(e)'
              /\ \A d : InRing(d) /\ ~Outrun' => InRing(d)'
          BY <1>1, <1>2, <3>1, <4>2, RingStep
        <4>4. CASE b = e
          BY <4>3, <4>4
        <4>5. CASE b \in accepted
          <5>1. Wanted(b)
            BY <1>3, <3>3, <4>1, <4>5, OvertakenStays DEF Wanted
          <5>2. ~Outrun
            <6>1. /\ Cardinality(accepted) \in Nat /\ SegmentSize \in Nat /\ RingSize \in Nat
                  /\ reader.before \in Nat
              BY <1>1, <1>2, EvSizes, FS_CardinalityType DEF ReaderShape, EventTypes
            <6> QED BY <1>3, <4>1, <4>3, <6>1 DEF Outrun
          <5>3. ReadAlready(b) \/ ReadSoon(b) \/ InRing(b)
            BY <1>2, <4>1, <4>5, <5>1, <5>2 DEF PassFinds
          <5>4. ReadAlready(b) => ReadAlready(b)'
            BY <1>3 DEF ReadAlready, Segment
          <5>5. ReadSoon(b) => ReadSoon(b)'
            <6>1. SUFFICES ASSUME NEW x \in archive, x.event = b, x.segment \in reader.todo,
                                  Segment(b.id) <= x.segment, x.segment <= notifier.flushed
                           PROVE  ReadSoon(b)'
              BY DEF ReadSoon
            <6>2. /\ x.segment \in Nat /\ notifier.flushed \in Nat
                  /\ EndFlushed(e, r, c) \in Nat
              BY <1>1, <6>1, NotifierFields, EndFacts DEF EventTypeOK
            <6>3. x.segment <= notifier'.flushed /\ x \in archive'
              BY <2>3, <3>3, <6>1, <6>2
            <6> QED BY <1>3, <6>1, <6>3 DEF ReadSoon, Segment
          <5> QED BY <4>1, <4>3, <5>3, <5>4, <5>5
        <4> QED BY <3>3, <4>4, <4>5
      <3> QED BY <3>4, <3>5, <3>6, <3>7 DEF ReaderInv
    <2> QED BY <2>4, <2>5
  <1> QED BY <1>1, <1>4, <1>5, <1>6, StreamSteps

LEMMA TerminalRowIsEvent ==
  ASSUME EventTypeOK
  PROVE  TerminalRow \subseteq Event
  <1>1. ender.id = 0 \/ ender.id \in Nat \ {0}
    BY EventAssumption DEF EventTypeOK
  <1>2. End \in Keys /\ Notice \in Keys
    BY DEF Keys
  <1> QED BY <1>1, <1>2 DEF TerminalRow, Event

\* What goes out advances the cursor and ends the pass.
LEMMA GiveKeepsReader ==
  ASSUME ReaderShape, Cardinality(accepted) \in Nat, UNCHANGED accepted,
         NEW es \in SUBSET Event, Give(es)
  PROVE  ReaderShape' /\ PassFinds' /\ reader'.got = es
  <1> DEFINE ids == {e.id : e \in es} \cup {reader.cursor}
  <1>1. PICK c \in ids :
          reader' = [NoReader EXCEPT
                       !.pc = IF reader.ended \/ \E e \in es : Ends(e.key)
                              THEN "closed" ELSE "idle",
                       !.cursor = c, !.ended = reader.ended, !.got = es]
    BY DEF Give
  <1>2. c \in Nat
    <2>1. \A e \in es : e.id \in Nat
      BY EventFields
    <2> QED BY <2>1 DEF ReaderShape
  <1>3. /\ reader'.got = es /\ reader'.cursor = c /\ reader'.todo = {}
        /\ reader'.before = 0 /\ reader'.pc \in {"closed", "idle"}
        /\ reader'.cut = FALSE
        /\ reader' = [pc |-> reader'.pc, cursor |-> reader'.cursor, ended |-> reader'.ended,
                      todo |-> reader'.todo, got |-> reader'.got, room |-> reader'.room,
                      cut |-> reader'.cut, before |-> reader'.before]
    BY <1>1 DEF NoReader
  <1>4. ReaderShape'
    BY <1>2, <1>3 DEF ReaderShape
  <1>5. PassFinds'
    BY <1>3 DEF PassFinds
  <1> QED BY <1>3, <1>4, <1>5

\* The listing: what it does not name is at the end of the ring.
LEMMA ListFinds ==
  ASSUME EventInv, ReaderInv, ListSegments, UNCHANGED eventVars
  PROVE  ReaderShape' /\ PassFinds'
  <1>1. EventTypes /\ EventTypeOK /\ (forgot \/ StreamInv)
    BY DEF EventInv, EventTypes
  <1>2. ReaderShape /\ BoundaryEmpty
    BY DEF ReaderInv
  <1> DEFINE list == {s \in {x.segment : x \in archive} : s >= StartSegment(reader.cursor)}
             n == Cardinality(accepted)
  <1>3. /\ reader' = [reader EXCEPT !.pc = "segments", !.todo = list, !.before = n]
        /\ reader.pc = "list"
    BY DEF ListSegments
  <1>4. /\ reader'.todo = list /\ reader'.before = n
        /\ reader'.cursor = reader.cursor /\ reader'.got = reader.got /\ ~reader.cut
        /\ reader'.cut = reader.cut
        /\ reader' = [pc |-> reader'.pc, cursor |-> reader'.cursor, ended |-> reader'.ended,
                      todo |-> reader'.todo, got |-> reader'.got, room |-> reader'.room,
                      cut |-> reader'.cut, before |-> reader'.before]
    BY <1>2, <1>3 DEF ReaderShape
  <1>5. UNCHANGED <<notifier, archive, accepted, failed, forgot>>
    BY DEF eventVars
  <1>6. \A x \in archive : x.segment \in Nat \ {0}
    BY <1>1 DEF EventTypeOK
  <1>7. n \in Nat
    BY <1>1, FS_CardinalityType DEF EventTypes
  <1>8. ReaderShape'
    BY <1>2, <1>4, <1>5, <1>6, <1>7 DEF ReaderShape
  <1>9. PassFinds'
    <2>1. SUFFICES ASSUME ~forgot, ~failed, NEW b \in accepted,
                          b.id > reader.cursor, ~Overtaken(b)
                   PROVE  ReadSoon(b)' \/ InRing(b)'
      BY <1>4, <1>5 DEF PassFinds, Wanted, Overtaken, Segment
    <2>2. Numbered /\ BufferWaits /\ AllKept /\ RingCovers
      BY <1>1, <2>1 DEF StreamInv
    <2>3. /\ notifier.buffer \in Seq(Event) /\ notifier.ring \in Seq(Event) /\ b \in Event
      BY <1>1, <2>1, NotifierFields DEF EventTypeOK
    <2>4. trimmed = {} /\ EndsWith(notifier.ring, notifier.buffer)
      BY <2>1, <2>2 DEF RingCovers
    <2>5. ASSUME KeptIn(b, archive, notifier.flushed) PROVE ReadSoon(b)'
      <3>1. PICK x \in archive : /\ x.event = b /\ Segment(b.id) <= x.segment
                                 /\ x.segment <= notifier.flushed
        BY <2>5 DEF KeptIn
      <3>2. /\ reader.cursor \in Nat /\ b.id \in Nat \ {0}
            /\ reader.cursor + 1 \in Nat \ {0} /\ reader.cursor + 1 <= b.id
        BY <1>2, <2>1, <2>3, EventFields DEF ReaderShape
      <3>3. /\ Segment(reader.cursor + 1) <= Segment(b.id)
            /\ Segment(reader.cursor + 1) \in Nat /\ Segment(b.id) \in Nat
        BY <3>2, EvSizes, SegmentFacts
      <3>4. StartSegment(reader.cursor) = Segment(reader.cursor + 1)
        <4>1. (reader.cursor + 1) - 1 = reader.cursor
          BY <3>2
        <4> QED BY <4>1 DEF StartSegment, Segment
      <3>5. x.segment \in list
        BY <1>6, <3>1, <3>3, <3>4
      <3> QED BY <1>4, <1>5, <3>1, <3>5 DEF ReadSoon, Segment
    <2>6. ASSUME b \in Range(notifier.buffer) PROVE InRing(b)'
      <3> DEFINE q == notifier.buffer
                 g == notifier.ring
      <3>1. Len(q) < SegmentSize /\ SegmentSize \in Nat
        BY <1>1, <1>2, <2>1, <2>2, BufferIsShort, EvSizes
      <3>2. InRing(b)' <=> \E i \in 1..Len(g) : g[i] = b /\ Len(g) + 1 + n < SegmentSize + n + i
        BY <1>4, <1>5 DEF InRing
      <3>3. q \in Seq(Event) /\ g \in Seq(Event) /\ EndsWith(g, q) /\ b \in Range(q)
        BY <2>3, <2>4, <2>6
      <3> HIDE DEF q, g, n
      <3>4. PICK i \in 1..Len(q) : b = q[i]
        BY <3>3 DEF Range
      <3>5. /\ Len(g) - Len(q) + i \in 1..Len(g) /\ g[Len(g) - Len(q) + i] = b
            /\ Len(g) \in Nat /\ Len(q) \in Nat
        BY <3>3, <3>4 DEF EndsWith
      <3>6. Len(g) + 1 + n < SegmentSize + n + (Len(g) - Len(q) + i)
        BY <1>7, <3>1, <3>5
      <3> QED BY <3>2, <3>5, <3>6
    <2> QED BY <2>1, <2>2, <2>4, <2>5, <2>6 DEF AllKept
  <1> QED BY <1>8, <1>9

\* What is read last is as it was shown: only an accepted event takes its place.
LEMMA OverKeeps ==
  ASSUME NEW new, NEW old, NEW e, e \in new \/ e \in old,
         \A x \in new : x.id = e.id => x = e
  PROVE  e \in Over(new, old)
  BY DEF Over

LEMMA SegmentFinds ==
  ASSUME EventInv, ReaderInv, NEW s \in reader.todo, ReadSegment(s), UNCHANGED eventVars
  PROVE  ReaderShape' /\ PassFinds'
  <1>1. EventTypes /\ EventTypeOK /\ (forgot \/ StreamInv)
    BY DEF EventInv, EventTypes
  <1>2. ReaderShape /\ Phantoms /\ PassFinds
    BY DEF ReaderInv
  <1> DEFINE found == {x.event : x \in {y \in archive : y.segment = s
                                              /\ y.event.id > reader.cursor}}
             full == Cardinality(found) >= reader.room
             taken == IF full THEN First(found, reader.room) ELSE found
             left == IF full THEN {} ELSE reader.todo \ {s}
  <1>3. /\ reader.pc = "segments" /\ \A u \in reader.todo : s <= u
        /\ reader' = [reader EXCEPT
                       !.got = Over(taken, reader.got),
                       !.todo = left,
                       !.room = IF full THEN 0
                                ELSE reader.room - Cardinality(found),
                       !.cut = full]
    BY DEF ReadSegment
  <1>4. /\ reader'.todo = left /\ reader'.before = reader.before /\ reader'.cut = full
        /\ reader'.cursor = reader.cursor /\ reader'.got = Over(taken, reader.got)
        /\ reader'.pc = reader.pc
        /\ reader' = [pc |-> reader'.pc, cursor |-> reader'.cursor, ended |-> reader'.ended,
                      todo |-> reader'.todo, got |-> reader'.got, room |-> reader'.room,
                      cut |-> reader'.cut, before |-> reader'.before]
    <2> HIDE DEF full, left, taken, found
    <2> QED BY <1>2, <1>3 DEF ReaderShape
  <1>5. UNCHANGED <<notifier, archive, accepted, failed, forgot>>
    BY DEF eventVars
  <1>6. found \subseteq Event
    BY <1>1 DEF EventTypeOK
  <1>7. taken \subseteq found
    BY DEF First
  <1>8. ReaderShape'
    <2>1. left \subseteq reader.todo /\ (full => left = {}) /\ reader.pc = "segments"
      BY <1>3
    <2> HIDE DEF found, full, taken, left
    <2>2. Over(taken, reader.got) \subseteq Event
      BY <1>2, <1>6, <1>7 DEF Over, ReaderShape
    <2> QED BY <1>2, <1>4, <1>5, <2>1, <2>2 DEF ReaderShape
  <1>9. PassFinds'
    <2>1. SUFFICES ASSUME ~forgot, ~failed, ~full, ~Outrun, NEW b \in accepted,
                          b.id > reader.cursor, ~Overtaken(b)
                   PROVE  ReadAlready(b)' \/ ReadSoon(b)' \/ InRing(b)'
      <3> HIDE DEF found, full, taken, left
      <3> QED BY <1>4, <1>5 DEF PassFinds, Wanted, Overtaken, Segment, Outrun
    <2>2. taken = found /\ left = reader.todo \ {s}
      BY <2>1
    <2>3. Numbered
      BY <1>1, <2>1 DEF StreamInv
    <2>4. b \in Event /\ b.id \in Nat \ {0} /\ Segment(b.id) \in Nat
      <3>1. b \in Event
        BY <1>1, <2>1 DEF EventTypeOK
      <3>2. b.id \in Nat \ {0}
        BY <3>1, EventFields
      <3> QED BY <3>1, <3>2, EvSizes, SegmentFacts
    <2>5. reader.todo \subseteq Nat
      BY <1>2 DEF ReaderShape
    <2>6. ASSUME NEW y \in found, y.id = b.id, y # b
          PROVE  s = Segment(b.id)
      <3>1. PICK x \in archive : x.event = y /\ x.segment = s
        BY <2>6
      <3>2. x.event \in accepted \/ x.segment = Segment(x.event.id)
        BY <1>2, <2>1, <3>1 DEF Phantoms
      <3>3. y \notin accepted
        BY <2>1, <2>3, <2>6 DEF Numbered
      <3> QED BY <2>6, <3>1, <3>2, <3>3
    <2>7. ReadAlready(b) \/ ReadSoon(b) \/ InRing(b)
      <3>1. ~reader.cut \/ reader.todo = {}
        BY <1>2 DEF ReaderShape
      <3> QED BY <1>2, <1>3, <2>1, <3>1 DEF PassFinds, Wanted
    <2> HIDE DEF found, full, taken, left
    <2>8. CASE ReadAlready(b)
      <3>1. b \in reader.got /\ \A u \in reader.todo : u > Segment(b.id)
        BY <2>8 DEF ReadAlready
      <3>2. s # Segment(b.id)
        BY <2>4, <2>5, <3>1
      <3>3. b \in reader'.got
        BY <1>4, <2>2, <2>6, <3>1, <3>2, OverKeeps
      <3> QED BY <1>4, <2>2, <3>1, <3>3 DEF ReadAlready, Segment
    <2>9. CASE ReadSoon(b)
      <3>1. PICK x \in archive : /\ x.event = b /\ x.segment \in reader.todo
                                 /\ Segment(b.id) <= x.segment /\ x.segment <= notifier.flushed
        BY <2>9 DEF ReadSoon
      <3>2. CASE x.segment = s
        <4>1. b \in found
          BY <2>1, <3>1, <3>2 DEF found
        <4>2. b \in reader'.got
          BY <1>4, <2>2, <4>1 DEF Over
        <4>3. \A u \in left : u > Segment(b.id)
          BY <1>3, <2>2, <2>4, <2>5, <3>1, <3>2
        <4> QED BY <1>4, <4>2, <4>3 DEF ReadAlready, Segment
      <3>3. CASE x.segment # s
        BY <1>4, <1>5, <2>2, <3>1, <3>3 DEF ReadSoon, Segment
      <3> QED BY <3>2, <3>3
    <2>10. CASE InRing(b)
      BY <1>4, <1>5, <2>10 DEF InRing
    <2> QED BY <2>7, <2>8, <2>9, <2>10
  <1> QED BY <1>8, <1>9

\* The steps of the reader keep what it can find.
LEMMA ReaderKeepsReader ==
  ASSUME EventInv, ReaderInv, ReadNext, UNCHANGED eventVars
  PROVE  ReaderInv'
  <1>1. EventTypes /\ EventTypeOK
    BY DEF EventInv, EventTypes
  <1>2. ReaderShape /\ BoundaryEmpty /\ Phantoms /\ PassFinds
    BY DEF ReaderInv
  <1>3. UNCHANGED <<notifier, archive, accepted, failed, forgot>>
    BY DEF eventVars
  <1>4. BoundaryEmpty' /\ Phantoms'
    BY <1>2, <1>3 DEF BoundaryEmpty, Phantoms, Segment
  <1>5. TerminalRow \subseteq Event /\ accepted \subseteq Event
    BY <1>1, TerminalRowIsEvent DEF EventTypeOK
  <1>13. Cardinality(accepted) \in Nat
    BY <1>1, FS_CardinalityType DEF EventTypes
  <1> SUFFICES ReaderShape' /\ PassFinds'
    BY <1>4 DEF ReaderInv
  <1>6. CASE Connect
    <2>1. PICK c \in {0} \cup {e.id : e \in accepted \cup TerminalRow} :
            reader' = [reader EXCEPT !.pc = "idle", !.cursor = c,
                                     !.ended = (ender.pc # "none")]
      BY <1>6 DEF Connect
    <2>2. c \in Nat
      <3>1. \A e \in accepted \cup TerminalRow : e.id \in Nat
        BY <1>5, EventFields
      <3> QED BY <2>1, <3>1
    <2> QED BY <1>2, <1>3, <2>1, <2>2 DEF ReaderShape, PassFinds
  <1>7. CASE ReadSql
    <2> DEFINE rows == {e \in TerminalRow : e.id > reader.cursor}
    <2>1. /\ reader' = [reader EXCEPT !.pc = "list", !.room = Limit, !.cut = FALSE,
                           !.got = rows]
          /\ rows \subseteq Event
      BY <1>5, <1>7 DEF ReadSql
    <2> HIDE DEF rows
    <2> QED BY <1>2, <1>3, <2>1 DEF ReaderShape, PassFinds
  <1>8. CASE ListSegments
    BY <1>8, ListFinds
  <1>9. CASE \E s \in reader.todo : ReadSegment(s)
    BY <1>9, SegmentFinds
  <1>10. CASE ReadRing
    <2> DEFINE es == Over(RingAfter(reader.cursor), reader.got)
    <2>1. Give(es)
      BY <1>10 DEF ReadRing
    <2>2. es \in SUBSET Event
      BY <1>1, <1>2, <1>5 DEF Over, RingAfter, ReaderShape, EventTypes, Held
    <2> HIDE DEF es
    <2> QED BY <1>2, <1>3, <1>13, <2>1, <2>2, GiveKeepsReader
  <1>11. CASE RingUnavailable
    <2>1. Give(reader.got) /\ reader.got \in SUBSET Event
      BY <1>2, <1>11 DEF RingUnavailable, ReaderShape
    <2> QED BY <1>2, <1>3, <1>13, <2>1, GiveKeepsReader
  <1>12. CASE StreamEnds
    <2>1. reader' = [pc |-> "closed", cursor |-> 0, ended |-> FALSE, todo |-> {}, got |-> {},
                     room |-> 0, cut |-> FALSE, before |-> 0]
      BY <1>12 DEF StreamEnds, NoReader
    <2> QED BY <1>3, <1>13, <2>1 DEF ReaderShape, PassFinds
  <1> QED BY <1>6, <1>7, <1>8, <1>9, <1>10, <1>11, <1>12 DEF ReadNext

LEMMA ReaderInvInit ==
  ASSUME ReaderInit
  PROVE  ReaderInv
  <1>1. reader = [pc |-> "none", cursor |-> 0, ended |-> FALSE, todo |-> {}, got |-> {},
                  room |-> 0, cut |-> FALSE, before |-> 0]
    BY DEF ReaderInit, NoReader
  <1>2. notifier.buffer = <<>> /\ archive = {} /\ accepted = {}
    BY DEF ReaderInit, EventInit, Fresh
  <1>3. Cardinality(accepted) = 0
    BY <1>2, FS_EmptySet
  <1>4. ReaderShape /\ PassFinds
    BY <1>1, <1>3 DEF ReaderShape, PassFinds
  <1>5. BoundaryEmpty /\ Phantoms
    BY <1>2 DEF BoundaryEmpty, Phantoms
  <1> QED BY <1>4, <1>5 DEF ReaderInv

\* The reader changes nothing for the notifier.
LEMMA ReaderImplementsEvents == ReaderSpec => EventSpec
  <1>1. ReaderInit => EventInit
    BY DEF ReaderInit
  <1>2. [ReaderNext]_readerVars => [EventNext]_eventVars
    BY DEF ReaderNext, readerVars
  <1> QED BY <1>1, <1>2, PTL DEF ReaderSpec, EventSpec

LEMMA ReaderInvariant == ReaderSpec => []ReaderInv
  <1>1. EventInv /\ ReaderInv /\ [ReaderNext]_readerVars => ReaderInv'
    <2>1. SUFFICES ASSUME EventInv, ReaderInv, [ReaderNext]_readerVars PROVE ReaderInv'
      OBVIOUS
    <2>2. CASE EventNext /\ UNCHANGED reader
      BY <2>1, <2>2, NotifierKeepsReader
    <2>3. CASE ReadNext /\ UNCHANGED eventVars
      BY <2>1, <2>3, ReaderKeepsReader
    <2>4. CASE UNCHANGED readerVars
      <3>1. UNCHANGED eventVars /\ UNCHANGED reader
        BY <2>4 DEF readerVars
      <3> QED BY <2>1, <3>1, NotifierKeepsReader
    <2> QED BY <2>1, <2>2, <2>3, <2>4 DEF ReaderNext
  <1>2. ReaderInit => ReaderInv
    BY ReaderInvInit
  <1> QED BY <1>1, <1>2, ReaderImplementsEvents, EventInvariant, PTL DEF ReaderSpec

\* A pass that reaches the ring is given every event behind its cursor although
\* the notifier goes on between its reads (fetchRunEventsAfter), while no write
\* has failed, the archive has not filled the response and the ring has not been
\* outrun since the listing: ReplayIsComplete.
THEOREM ReplayHolds == ReaderSpec => ReplayIsComplete
  <1> DEFINE Complete ==
        \/ forgot \/ failed \/ reader.cut \/ Outrun
        \/ \A e \in accepted :
              (e.id > reader.cursor /\ ~Overtaken(e)) => e \in reader'.got
  <1>1. EventInv /\ ReaderInv /\ [ReaderNext]_readerVars =>
          [ReadRing => Complete]_readerVars
    <2>1. SUFFICES ASSUME EventInv, ReaderInv, ReadRing,
                          ~forgot, ~failed, ~reader.cut, ~Outrun,
                          NEW e \in accepted, e.id > reader.cursor, ~Overtaken(e)
                   PROVE  e \in reader'.got
      OBVIOUS
    <2> DEFINE ring == RingAfter(reader.cursor)
    <2>2. /\ reader.pc = "segments" /\ reader.todo = {}
          /\ reader'.got = Over(ring, reader.got)
      <3>1. Give(Over(ring, reader.got)) /\ reader.pc = "segments" /\ reader.todo = {}
        BY <2>1 DEF ReadRing
      <3> QED BY <3>1 DEF Give, NoReader
    <2>3. e \in reader.got \/ e \in Range(notifier.ring)
      <3>1. ReadAlready(e) \/ ReadSoon(e) \/ InRing(e)
        BY <2>1, <2>2 DEF ReaderInv, PassFinds, Wanted
      <3>2. notifier.ring \in Seq(Event)
        BY <2>1, NotifierFields DEF EventInv, EventTypes
      <3>3. InRing(e) => e \in Range(notifier.ring)
        BY <3>2 DEF InRing, Range
      <3> QED BY <2>2, <3>1, <3>3 DEF ReadAlready, ReadSoon
    <2>4. \A x \in ring : x.id = e.id => x = e
      BY <2>1 DEF RingAfter, EventInv, EventTypes, Held, StreamInv, Numbered
    <2>5. e \in ring \/ e \in reader.got
      BY <2>1, <2>3 DEF RingAfter
    <2> HIDE DEF ring
    <2> QED BY <2>2, <2>4, <2>5, OverKeeps
  <1> QED BY <1>1, ReaderImplementsEvents, EventInvariant, ReaderInvariant, PTL
          DEF ReaderSpec, ReplayIsComplete
=============================================================================

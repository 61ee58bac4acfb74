------------------------ MODULE NotificationDelivery ------------------------
(***************************************************************************)
(* How the outcome of a run reaches its user: the row that the terminal     *)
(* transaction writes (run-outbox.ts), the notification made from it        *)
(* (service.ts, run-terminal.ts), the row of the push outbox                *)
(* (push-outbox.ts), the messages of the push queue and of its dead letters *)
(* (notification-push.ts), and the push gateway.                           *)
(*                                                                         *)
(* One outcome: no statement touches two.  Every SQL statement, queue send  *)
(* and gateway request is a step.  A claim token is minted by a process and *)
(* remembered by it alone, so a token is the name of the process.  A row is *)
(* stale when its claim is older than the dispatcher asks for: five minutes *)
(* for the run outbox, twenty-five hours for the push outbox.               *)
(***************************************************************************)
EXTENDS Naturals

CONSTANTS
    Dispatchers,  \* invocations of dispatchRunNotificationOutbox
    Crons,        \* those of the cron, which pass staleBefore
    Sweepers,     \* invocations of dispatchNotificationPushOutbox by the cron
    Msgs,         \* places for messages of the push queue
    None,         \* no claim
    MaxRetries,   \* max_retries of the push queue
    MaxFaults     \* bound on crashes, failed calls, delays and duplicates

ASSUME DeliveryAssumption ==
    /\ Crons \subseteq Dispatchers
    /\ None \notin Dispatchers \cup Sweepers
    /\ MaxRetries \in Nat /\ MaxFaults \in Nat

VARIABLES
    out,      \* the row of run_notification_outbox
    push,     \* the row of notification_push_outbox
    inbox,    \* the row of notifications exists
    emitted,  \* events sent to the user's notifier object
    wants,    \* the user's preference: push allowed and not muted
    proc,     \* progress of each dispatcher and sweeper
    msg,      \* every message and its consumer
    posts,    \* requests that the gateway has answered
    faults    \* faults so far

vars == <<out, push, inbox, emitted, wants, proc, msg, posts, faults>>

Procs == Dispatchers \cup Sweepers

OutRow == [status : {"none", "queued", "dispatching", "done"},
           token : Procs \cup {None}, stale : BOOLEAN]
PushStatus == {"none", "queued", "dispatching", "enqueued", "done"}
PushRow == [status : PushStatus, token : Procs \cup {None}, stale : BOOLEAN]
Pc == {"idle", "claim", "create", "insert", "ensure", "pushSelect", "pushClaim",
       "pushSend", "pushFinalize", "pushRevert", "pushStatus", "sync", "syncDone",
       "finish", "revert"}
Proc == [pc : Pc, seen : PushStatus]
MsgPc == {"free", "waiting", "record", "prefs", "deliver", "done", "dead"}
Msg == [pc : MsgPc, tries : 0..MaxRetries]

TypeOK ==
    /\ out \in OutRow
    /\ push \in PushRow
    /\ inbox \in BOOLEAN /\ emitted \in Nat /\ wants \in BOOLEAN
    /\ proc \in [Procs -> Proc]
    /\ msg \in [Msgs -> Msg]
    /\ posts \in Nat
    /\ faults \in 0..MaxFaults

NoRow == [status |-> "none", token |-> None, stale |-> FALSE]
Idle == [pc |-> "idle", seen |-> "none"]
Free == [pc |-> "free", tries |-> 0]

Init ==
    /\ out = NoRow /\ push = NoRow
    /\ inbox = FALSE /\ emitted = 0 /\ wants = TRUE
    /\ proc = [x \in Procs |-> Idle]
    /\ msg = [m \in Msgs |-> Free]
    /\ posts = 0
    /\ faults = 0

Fault == faults < MaxFaults /\ faults' = faults + 1

SetOut(status, token) == out' = [status |-> status, token |-> token, stale |-> FALSE]
SetPush(status, token) == push' = [status |-> status, token |-> token, stale |-> FALSE]

Goto(x, pc) == proc' = [proc EXCEPT ![x] = [pc |-> pc, seen |-> "none"]]
GotoSeen(x, pc, seen) == proc' = [proc EXCEPT ![x] = [pc |-> pc, seen |-> seen]]

(***************************************************************************)
(* The terminal commit and the user.                                       *)
(***************************************************************************)

\* The transaction that ends the run inserts the row.
CommitOutcome ==
    /\ out.status = "none"
    /\ SetOut("queued", None)
    /\ UNCHANGED <<push, inbox, emitted, wants, proc, msg, posts, faults>>

\* The user turns the push off, or mutes the notifications.
OptOut ==
    /\ wants
    /\ wants' = FALSE
    /\ UNCHANGED <<out, push, inbox, emitted, proc, msg, posts, faults>>

(***************************************************************************)
(* dispatchRunNotificationOutbox.                                          *)
(***************************************************************************)

OutFrame == UNCHANGED <<push, inbox, emitted, wants, msg, posts>>

OutDispatchable(x, status) ==
    /\ out.status = status
    /\ \/ status = "queued"
       \/ status = "dispatching" /\ x \in Crons /\ out.stale

SelectOutcome(x) ==
    /\ proc[x].pc = "idle"
    /\ \E status \in {"queued", "dispatching"} :
          OutDispatchable(x, status) /\ GotoSeen(x, "claim", status)
    /\ UNCHANGED <<out, faults>>
    /\ OutFrame

ClaimOutcome(x) ==
    /\ proc[x].pc = "claim"
    /\ IF OutDispatchable(x, proc[x].seen)
       THEN SetOut("dispatching", x) /\ Goto(x, "create")
       ELSE UNCHANGED out /\ Goto(x, "idle")
    /\ UNCHANGED faults
    /\ OutFrame

HoldsOutcome(x) == out.status = "dispatching" /\ out.token = x

\* The handoff is recorded, if the claim is still there.
FinishOutcome(x) ==
    /\ proc[x].pc = "finish"
    /\ IF HoldsOutcome(x) THEN SetOut("done", None) ELSE UNCHANGED out
    /\ Goto(x, "idle")
    /\ UNCHANGED faults
    /\ OutFrame

\* That write throws, before or after it took effect.
FinishThrows(x) ==
    /\ proc[x].pc = "finish"
    /\ Fault
    /\ UNCHANGED out \/ (HoldsOutcome(x) /\ SetOut("done", None))
    /\ Goto(x, "revert")
    /\ OutFrame

\* A failed handoff returns the exact claim to queued.
RevertOutcome(x) ==
    /\ proc[x].pc = "revert"
    /\ IF HoldsOutcome(x) THEN SetOut("queued", None) ELSE UNCHANGED out
    /\ Goto(x, "idle")
    /\ UNCHANGED faults
    /\ OutFrame

(***************************************************************************)
(* createNotification, called through createRunTerminalNotification.       *)
(***************************************************************************)

CreateFrame == UNCHANGED <<out, wants, msg>>

\* Preferences and mute are read once, at the start.
ReadPreferences(x) ==
    /\ proc[x].pc = "create"
    /\ GotoSeen(x, "insert", IF wants THEN "queued" ELSE "none")
    /\ UNCHANGED <<push, inbox, emitted, posts, faults>>
    /\ CreateFrame

\* Mutant: every insertion tells the notifier.
InsertAndEmit(x) ==
    /\ proc[x].pc = "insert"
    /\ inbox' = TRUE
    /\ emitted' = emitted + 1
    /\ Goto(x, IF proc[x].seen = "queued" THEN "ensure" ELSE "finish")
    /\ UNCHANGED <<push, posts, faults>>
    /\ CreateFrame

\* The insertion under the stable id; only the one that inserts tells the
\* notifier, whose failure is logged.
InsertNotification(x) ==
    /\ proc[x].pc = "insert"
    /\ inbox' = TRUE
    /\ \/ emitted' = emitted + (IF inbox THEN 0 ELSE 1) /\ UNCHANGED faults
       \/ ~inbox /\ Fault /\ UNCHANGED emitted
    /\ Goto(x, IF proc[x].seen = "queued" THEN "ensure" ELSE "finish")
    /\ UNCHANGED <<push, posts>>
    /\ CreateFrame

EnsurePush(x) ==
    /\ proc[x].pc = "ensure"
    /\ IF push.status = "none" THEN SetPush("queued", None) ELSE UNCHANGED push
    /\ Goto(x, "pushSelect")
    /\ UNCHANGED <<inbox, emitted, posts, faults>>
    /\ CreateFrame

\* A statement of createNotification throws, before or after it took effect:
\* the outbox takes the handoff for failed.
CreateThrows(x) ==
    /\ proc[x].pc \in {"create", "insert", "ensure"}
    /\ Fault
    /\ inbox' = inbox \/ (proc[x].pc = "insert" /\ inbox' = TRUE)
    /\ \/ UNCHANGED push
       \/ proc[x].pc = "ensure" /\ push.status = "none" /\ SetPush("queued", None)
    /\ Goto(x, "revert")
    /\ UNCHANGED <<emitted, posts>>
    /\ CreateFrame

\* Mutant: an event that another dispatcher is sending is delivered here too.
ReadPushStatusEnqueued(x) ==
    /\ proc[x].pc = "pushStatus"
    /\ Goto(x, IF push.status \in {"enqueued", "done"} THEN "finish" ELSE "sync")
    /\ UNCHANGED <<push, inbox, emitted, posts, faults>>
    /\ CreateFrame

\* Without a handoff of its own the caller looks who has the event.
ReadPushStatus(x) ==
    /\ proc[x].pc = "pushStatus"
    /\ Goto(x, IF push.status \in {"dispatching", "enqueued", "done"}
               THEN "finish" ELSE "sync")
    /\ UNCHANGED <<push, inbox, emitted, posts, faults>>
    /\ CreateFrame

\* The gateway takes the event, or refuses it for good.  (A user without a
\* device, for whom there is no request to make, is left out.)
DeliverNow(x) ==
    /\ proc[x].pc = "sync"
    /\ posts' = posts + 1
    /\ Goto(x, "syncDone")
    /\ UNCHANGED <<push, inbox, emitted, faults>>
    /\ CreateFrame

\* The gateway cannot be reached, or its answer is lost.
DeliverNowFails(x) ==
    /\ proc[x].pc = "sync"
    /\ Fault
    /\ posts' = posts + 1 \/ UNCHANGED posts
    /\ Goto(x, "revert")
    /\ UNCHANGED <<push, inbox, emitted>>
    /\ CreateFrame

\* markNotificationPushOutboxDone: whatever the row says.
MarkDone == IF push.status = "none" THEN UNCHANGED push ELSE SetPush("done", None)

DeliveredNow(x) ==
    /\ proc[x].pc = "syncDone"
    /\ MarkDone
    /\ Goto(x, "finish")
    /\ UNCHANGED <<inbox, emitted, posts, faults>>
    /\ CreateFrame

DeliveredNowThrows(x) ==
    /\ proc[x].pc = "syncDone"
    /\ Fault
    /\ MarkDone \/ UNCHANGED push
    /\ Goto(x, "revert")
    /\ UNCHANGED <<inbox, emitted, posts>>
    /\ CreateFrame

(***************************************************************************)
(* dispatchNotificationPushOutbox: by createNotification for its own event, *)
(* queued rows only, and by the cron.                                      *)
(***************************************************************************)

PushFrame == UNCHANGED <<out, inbox, emitted, wants, posts>>

\* Mutant: a claim without a send is not recovered.
PushDispatchableIfSent(x, status) ==
    \/ status = "queued" /\ push.status = "queued"
    \/ /\ status = "enqueued" /\ x \in Sweepers
       /\ push.status = "enqueued" /\ push.stale

PushDispatchable(x, status) ==
    \/ status = "queued" /\ push.status = "queued"
    \/ /\ status \in {"dispatching", "enqueued"} /\ x \in Sweepers
       /\ push.status \in {"dispatching", "enqueued"} /\ push.stale

\* What the caller does with the number of messages sent.
Return(x, sent) ==
    Goto(x, CASE x \in Sweepers -> "idle"
              [] x \notin Sweepers /\ sent -> "finish"
              [] x \notin Sweepers /\ ~sent -> "pushStatus")

SelectPush(x) ==
    /\ proc[x].pc = (IF x \in Sweepers THEN "idle" ELSE "pushSelect")
    /\ IF \E status \in {"queued", "dispatching", "enqueued"} :
             push.status = status /\ PushDispatchable(x, status)
       THEN GotoSeen(x, "pushClaim", push.status)
       ELSE x \notin Sweepers /\ Return(x, FALSE)
    /\ UNCHANGED <<push, msg, faults>>
    /\ PushFrame

ClaimPush(x) ==
    /\ proc[x].pc = "pushClaim"
    /\ IF PushDispatchable(x, proc[x].seen)
       THEN SetPush("dispatching", x) /\ Goto(x, "pushSend")
       ELSE UNCHANGED push /\ Return(x, FALSE)
    /\ UNCHANGED <<msg, faults>>
    /\ PushFrame

\* Before the send an error is thrown to createNotification, which swallows it
\* and delivers by itself; the claim may have been made.
HandoffThrows(x) ==
    /\ proc[x].pc \in {"pushSelect", "pushClaim", "pushStatus"} /\ x \in Dispatchers
    /\ Fault
    /\ \/ UNCHANGED push
       \/ /\ proc[x].pc = "pushClaim" /\ PushDispatchable(x, proc[x].seen)
          /\ SetPush("dispatching", x)
    /\ Goto(x, "sync")
    /\ UNCHANGED msg
    /\ PushFrame

\* The queue accepts the event.
Accept == \E m \in Msgs : /\ msg[m].pc = "free"
                          /\ msg' = [msg EXCEPT ![m].pc = "waiting"]

SendPush(x) ==
    /\ proc[x].pc = "pushSend"
    /\ Accept
    /\ Goto(x, "pushFinalize")
    /\ UNCHANGED <<push, faults>>
    /\ PushFrame

\* The send throws, although the queue may have the event.
SendPushThrows(x) ==
    /\ proc[x].pc = "pushSend"
    /\ Fault
    /\ Accept \/ UNCHANGED msg
    /\ Goto(x, "pushRevert")
    /\ UNCHANGED push
    /\ PushFrame

HoldsPush(x) == push.status = "dispatching" /\ push.token = x

\* The update to enqueued; claimed_at stays.
Enqueued(x) ==
    push' = IF HoldsPush(x) THEN [push EXCEPT !.status = "enqueued", !.token = None]
                            ELSE push

FinalizePush(x) ==
    /\ proc[x].pc = "pushFinalize"
    /\ Enqueued(x)
    /\ Return(x, TRUE)
    /\ UNCHANGED <<msg, faults>>
    /\ PushFrame

\* After an accepted send the row is left as it is.
FinalizePushThrows(x) ==
    /\ proc[x].pc = "pushFinalize"
    /\ Fault
    /\ Enqueued(x) \/ UNCHANGED push
    /\ Return(x, TRUE)
    /\ UNCHANGED msg
    /\ PushFrame

RevertPush(x) ==
    /\ proc[x].pc = "pushRevert"
    /\ IF HoldsPush(x) THEN SetPush("queued", None) ELSE UNCHANGED push
    /\ Return(x, FALSE)
    /\ UNCHANGED <<msg, faults>>
    /\ PushFrame

RevertPushThrows(x) ==
    /\ proc[x].pc = "pushRevert"
    /\ Fault
    /\ Return(x, FALSE)
    /\ UNCHANGED <<push, msg>>
    /\ PushFrame

\* The isolate dies, or a statement outside the try blocks throws.
ProcStops(x) ==
    /\ proc[x].pc # "idle"
    /\ Fault
    /\ Goto(x, "idle")
    /\ UNCHANGED <<out, msg, push>>
    /\ PushFrame

(***************************************************************************)
(* handleNotificationPushQueue.                                            *)
(***************************************************************************)

ConsumerFrame == UNCHANGED <<out, inbox, emitted, wants, proc>>

To(m, pc) == msg' = [msg EXCEPT ![m].pc = pc]
Ack(m) == msg' = [msg EXCEPT ![m] = Free]

\* message.retry; the last one goes to the dead-letter queue.
Retry(m) ==
    msg' = [msg EXCEPT ![m] = IF @.tries < MaxRetries
                              THEN [pc |-> "waiting", tries |-> @.tries + 1]
                              ELSE [pc |-> "dead", tries |-> 0]]

\* The stored notification is found and matches the message.
ReceivePush(m) ==
    /\ msg[m].pc = "waiting"
    /\ To(m, "record")
    /\ UNCHANGED <<push, posts, faults>>
    /\ ConsumerFrame

\* Mutant: a done row is adopted too.
RecordAnyEnqueued(m) ==
    /\ msg[m].pc = "record"
    /\ SetPush("enqueued", None) /\ To(m, "prefs")
    /\ UNCHANGED <<posts, faults>>
    /\ ConsumerFrame

\* recordNotificationPushOutboxEnqueued: the queue owns the event, unless it is
\* done, in which case the duplicate is dropped.
RecordEnqueued(m) ==
    /\ msg[m].pc = "record"
    /\ IF push.status = "done"
       THEN UNCHANGED push /\ Ack(m)
       ELSE SetPush("enqueued", None) /\ To(m, "prefs")
    /\ UNCHANGED <<posts, faults>>
    /\ ConsumerFrame

\* Preferences and mute are read again.
RereadPreferences(m) ==
    /\ msg[m].pc = "prefs"
    /\ To(m, IF wants THEN "deliver" ELSE "done")
    /\ UNCHANGED <<push, posts, faults>>
    /\ ConsumerFrame

Deliver(m) ==
    /\ msg[m].pc = "deliver"
    /\ posts' = posts + 1
    /\ To(m, "done")
    /\ UNCHANGED <<push, faults>>
    /\ ConsumerFrame

\* The gateway cannot be reached, asks to come back, or its answer is lost.
DeliverFails(m) ==
    /\ msg[m].pc = "deliver"
    /\ Fault
    /\ posts' = posts + 1 \/ UNCHANGED posts
    /\ Retry(m)
    /\ UNCHANGED push
    /\ ConsumerFrame

\* The gateway stays out of reach until the message has used up its retries.
GatewayDown(m) ==
    /\ msg[m].pc = "deliver"
    /\ Fault
    /\ To(m, "dead")
    /\ UNCHANGED <<push, posts>>
    /\ ConsumerFrame

Delivered(m) ==
    /\ msg[m].pc = "done"
    /\ MarkDone
    /\ Ack(m)
    /\ UNCHANGED <<posts, faults>>
    /\ ConsumerFrame

\* The isolate dies or a statement throws.
ConsumerStops(m) ==
    /\ msg[m].pc \in {"record", "prefs", "deliver", "done"}
    /\ Fault
    /\ Retry(m)
    /\ UNCHANGED <<push, posts>>
    /\ ConsumerFrame

\* reopenNotificationPushOutboxFromDlq: anything but a done row is queued again.
ReopenFromDlq(m) ==
    /\ msg[m].pc = "dead"
    /\ IF push.status = "done" THEN UNCHANGED push ELSE SetPush("queued", None)
    /\ Ack(m)
    /\ UNCHANGED <<posts, faults>>
    /\ ConsumerFrame

\* The dead letter outlives its retries.
DeadLetterDropped(m) ==
    /\ msg[m].pc = "dead"
    /\ Fault
    /\ Ack(m)
    /\ UNCHANGED <<push, posts>>
    /\ ConsumerFrame

(***************************************************************************)
(* Time and the queue.                                                     *)
(***************************************************************************)

TimeFrame == UNCHANGED <<inbox, emitted, wants, proc, posts>>

\* Five minutes pass for a claim whose holder has gone.
OutElapses ==
    /\ out.status = "dispatching" /\ ~out.stale
    /\ proc[out.token].pc \in {"idle", "claim"}
    /\ out' = [out EXCEPT !.stale = TRUE]
    /\ UNCHANGED <<push, msg, faults>>
    /\ TimeFrame

PushOwned ==
    \/ \E m \in Msgs : msg[m].pc # "free"
    \/ /\ push.token # None
       /\ proc[push.token].pc \in {"pushSend", "pushFinalize", "pushRevert"}

\* Twenty-five hours pass for an event that nobody has any more.
PushElapses ==
    /\ push.status \in {"dispatching", "enqueued"} /\ ~push.stale
    /\ ~PushOwned
    /\ push' = [push EXCEPT !.stale = TRUE]
    /\ UNCHANGED <<out, msg, faults>>
    /\ TimeFrame

\* They pass although somebody is at work.
Delay ==
    /\ Fault
    /\ \/ /\ out.status = "dispatching" /\ ~out.stale
          /\ out' = [out EXCEPT !.stale = TRUE]
          /\ UNCHANGED push
       \/ /\ push.status \in {"dispatching", "enqueued"} /\ ~push.stale
          /\ push' = [push EXCEPT !.stale = TRUE]
          /\ UNCHANGED out
    /\ UNCHANGED msg
    /\ TimeFrame

\* The queue delivers a message twice.
Duplicate ==
    /\ Fault
    /\ \E m \in Msgs : msg[m].pc = "waiting"
    /\ Accept
    /\ UNCHANGED <<out, push>>
    /\ TimeFrame

ProcStep(x) ==
    \/ ClaimOutcome(x) \/ ReadPreferences(x) \/ InsertNotification(x) \/ EnsurePush(x)
    \/ ClaimPush(x) \/ SendPush(x) \/ FinalizePush(x) \/ RevertPush(x)
    \/ ReadPushStatus(x) \/ DeliverNow(x) \/ DeliveredNow(x)
    \/ FinishOutcome(x) \/ RevertOutcome(x)

ProcFault(x) ==
    \/ FinishThrows(x) \/ CreateThrows(x) \/ HandoffThrows(x) \/ DeliverNowFails(x)
    \/ DeliveredNowThrows(x) \/ SendPushThrows(x) \/ FinalizePushThrows(x)
    \/ RevertPushThrows(x) \/ ProcStops(x)

MsgStep(m) ==
    \/ ReceivePush(m) \/ RecordEnqueued(m) \/ RereadPreferences(m)
    \/ Deliver(m) \/ Delivered(m) \/ ReopenFromDlq(m)

MsgFault(m) ==
    DeliverFails(m) \/ GatewayDown(m) \/ ConsumerStops(m) \/ DeadLetterDropped(m)

Next ==
    \/ CommitOutcome \/ OptOut
    \/ \E x \in Dispatchers : SelectOutcome(x)
    \/ \E x \in Procs : SelectPush(x) \/ ProcStep(x) \/ ProcFault(x)
    \/ \E m \in Msgs : MsgStep(m) \/ MsgFault(m)
    \/ OutElapses \/ PushElapses \/ Delay \/ Duplicate

Spec == Init /\ [][Next]_vars

\* The cron runs, an invocation that has begun goes on unless it stops, the
\* queue delivers, time passes.
Fairness ==
    /\ \A x \in Crons : WF_vars(SelectOutcome(x))
    /\ \A x \in Procs : WF_vars(ProcStep(x)) /\ WF_vars(SelectPush(x))
    /\ \A m \in Msgs : WF_vars(MsgStep(m))
    /\ WF_vars(OutElapses) /\ WF_vars(PushElapses)

FairSpec == Spec /\ Fairness

(***************************************************************************)
(* Properties.                                                             *)
(***************************************************************************)

Settled == push.status = "done" \/ (push.status = "none" /\ out.status = "done")

Debt == CASE out.status = "none" -> "none"
          [] out.status # "none" /\ Settled -> "settled"
          [] OTHER -> "owed"

Promise == INSTANCE Announcement WITH
    debt <- Debt, answered <- posts > 0, declined <- ~wants

\* The two outboxes, the queue and its dead letters keep the promise: the debt
\* is settled only after an answer of the gateway or a refusal of the user, and
\* nothing reopens it.
KeepsPromise == Promise!Spec

\* The user's notifier hears of the outcome at most once.
OneEmission == emitted \leq 1

\* Flush, cron and sweep share the event: without a fault the gateway hears of
\* it at most once.
OnePostWithoutFaults == faults = 0 => posts \leq 1

\* Every outcome is announced, or declined.
EveryOutcomeSettles == out.status # "none" ~> Settled
=============================================================================

----------------------------- MODULE RunEvents -----------------------------
(***************************************************************************)
(* The event stream of one run when events are offloaded: the control RPC   *)
(* that forwards the container's events (handleRunEvent), the writers of    *)
(* the run's terminal row and of the events that follow it, the notifier    *)
(* object that numbers the events, keeps the last of them in a ring and     *)
(* archives them in segments (run-notifier.ts, notifier-base.ts).  What a   *)
(* reader makes of ring and segments is in RunEventReader.                  *)
(*                                                                         *)
(* The notifier handles a request inside blockConcurrencyWhile, so Emit is  *)
(* one step: it writes at most two segments, saves its state and answers.   *)
(* A crash, or a save that throws, leaves the segments and restarts the     *)
(* object from the state it saved last.                                    *)
(***************************************************************************)
EXTENDS Naturals, Sequences, SequencesExt, FiniteSets, FiniteSetsExt

CONSTANTS
    Steps,        \* events of the container, named by their dedup key
    Errors,       \* those whose type ends a stream ("error", "cancelled", ...)
    TerminalIds,  \* ids that the SQL row of the terminal event may get
    SegmentSize,  \* RUN_EVENT_SEGMENT_SIZE
    RingSize,     \* RING_BUFFER_SIZE
    MaxBuffer,    \* MAX_SEGMENT_BUFFER_SIZE
    MaxKeys,      \* MAX_EMIT_DEDUP_KEYS
    MaxEventFaults \* bound on crashes, failed writes and lost answers

Final == "final"    \* the assistant's message that complete-run emits
End == "end"        \* its terminal event
Notice == "notice"  \* the terminal event of the other writers: no dedup key

ASSUME EventAssumption ==
    /\ Errors \subseteq Steps /\ Steps \cap {Final, End, Notice} = {}
    /\ TerminalIds \subseteq Nat \ {0}
    /\ {SegmentSize, RingSize, MaxBuffer, MaxKeys} \subseteq Nat \ {0}
    /\ RingSize >= SegmentSize /\ MaxBuffer >= SegmentSize
    /\ MaxEventFaults \in Nat

VARIABLES
    flight,    \* steps whose request has passed the lease check
    sent,      \* steps the container has sent
    ender,     \* progress of the writer of the terminal row, and its id
    notifier,  \* the state the notifier object has saved
    archive,   \* the object store: every event with the segment it is in
    accepted,  \* the events that the notifier has saved and shown
    trimmed,   \* those that the cap of the segment buffer threw away
    failed,    \* a segment could not be written
    forgot,    \* the notifier could not read its state and started afresh
    eventFaults \* faults so far

eventVars == <<flight, sent, ender, notifier, archive, accepted, trimmed, failed,
              forgot, eventFaults>>

Keys == Steps \cup {Final, End, Notice}
Event == [id : Nat \ {0}, key : Keys]
Ends(k) == k \in Errors \cup {End, Notice}

Notifier == [counter : Nat, ring : Seq(Event), keys : Seq(Keys \ {Notice}),
             index : Nat \ {0}, buffer : Seq(Event), flushed : Nat]

Fresh == [counter |-> 0, ring |-> <<>>, keys |-> <<>>, index |-> 1,
          buffer |-> <<>>, flushed |-> 0]

EventTypeOK ==
    /\ flight \subseteq sent /\ sent \subseteq Steps
    /\ ender \in [pc : {"none", "final", "end", "notice", "over"},
                  id : TerminalIds \cup {0}, writer : {"none", "complete", "other"}]
    /\ ender.id = 0 <=> ender.pc = "none"
    /\ notifier \in Notifier
    /\ Len(notifier.ring) <= RingSize
    /\ Len(notifier.keys) <= MaxKeys
    /\ Len(notifier.buffer) <= MaxBuffer
    /\ archive \subseteq [segment : Nat \ {0}, event : Event]
    /\ accepted \subseteq Event /\ trimmed \subseteq accepted
    /\ failed \in BOOLEAN /\ forgot \in BOOLEAN
    /\ eventFaults \in 0..MaxEventFaults

EventInit ==
    /\ flight = {} /\ sent = {}
    /\ ender = [pc |-> "none", id |-> 0, writer |-> "none"]
    /\ notifier = Fresh
    /\ archive = {} /\ accepted = {} /\ trimmed = {}
    /\ failed = FALSE /\ forgot = FALSE
    /\ eventFaults = 0

(***************************************************************************)
(* The notifier: what one event does to its state.                         *)
(***************************************************************************)

\* segmentIndexForEventId.
Segment(id) == (id - 1) \div SegmentSize + 1

\* Mutant: a preferred id is always taken.
PreferredId(n, preferred) == IF preferred # 0 THEN preferred ELSE n.counter + 1

\* A preferred id is taken only if it advances the counter; 0 for none.
NextId(n, preferred) ==
    IF preferred > n.counter THEN preferred ELSE n.counter + 1

\* Mutant: a full buffer takes one element too many.
NewestAndOne(seq, size) == SubSeq(seq, Max({1, Len(seq) - size}), Len(seq))

\* The last size elements of a sequence.
Newest(seq, size) == SubSeq(seq, Max({1, Len(seq) - size + 1}), Len(seq))

\* Mutant: a full set of keys keeps the oldest.
RememberOldest(n, e) ==
    [n EXCEPT !.counter = e.id,
              !.ring = Newest(Append(@, e), RingSize),
              !.keys = IF e.key = Notice \/ Len(@) = MaxKeys THEN @ ELSE Append(@, e.key)]

\* addToRingBuffer, and the key that validateEmit will look for.
Remember(n, e) ==
    [n EXCEPT !.counter = e.id,
              !.ring = Newest(Append(@, e), RingSize),
              !.keys = IF e.key = Notice THEN @ ELSE Newest(Append(@, e.key), MaxKeys)]

\* flushR2Segment writes nothing for an empty buffer or an old segment.
Writes(n, s) == n.buffer # <<>> /\ s > n.flushed

\* Mutant: a failed write empties the buffer too.
FlushedAnyhow(n, s, ok) ==
    [n EXCEPT !.buffer = <<>>, !.flushed = IF ok /\ Writes(n, s) THEN s ELSE @]

\* flushR2Segment and its callers' use of the result: a failed write keeps
\* the buffer, up to its cap.
Flushed(n, s, ok) ==
    IF ok THEN [n EXCEPT !.buffer = <<>>,
                         !.flushed = IF Writes(n, s) THEN s ELSE @]
          ELSE [n EXCEPT !.buffer = Newest(@, MaxBuffer)]

AtBoundary(e) == e.id % SegmentSize = 0 \/ Ends(e.key)

\* An event of another segment first flushes the buffer of the last one.
Rolled(n, e, ok) ==
    IF Segment(e.id) = n.index THEN n
    ELSE [Flushed(n, n.index, ok) EXCEPT !.index = Segment(e.id)]

Pushed(n, e) == [n EXCEPT !.buffer = Append(@, e)]

\* After a boundary or a terminal event the buffer is flushed.
Closed(n, e, ok) ==
    IF ~AtBoundary(e) THEN n
    ELSE LET m == Flushed(n, n.index, ok)
         IN IF ok THEN [m EXCEPT !.index = Max({Segment(e.id + 1), m.flushed + 1})]
                  ELSE m

Trim(n) == [n EXCEPT !.buffer = Newest(@, MaxBuffer)]

\* The write of the buffer of n to segment s, if there is one: it replaces what
\* the segment holds.
Put(a, n, s, ok) ==
    IF ok /\ Writes(n, s)
    THEN {x \in a : x.segment # s} \cup
         {[segment |-> s, event |-> e] : e \in Range(n.buffer)}
    ELSE a

(***************************************************************************)
(* Emit: handleEmit, validateEmit and processEmit.                         *)
(***************************************************************************)

SpendFaults(n) == eventFaults + n <= MaxEventFaults /\ eventFaults' = eventFaults + n

\* The key is known: answered without a new event.
EmitDuplicate(k) ==
    /\ k \in Range(notifier.keys)
    /\ UNCHANGED <<notifier, archive, accepted, trimmed, failed, forgot>>

\* persistState, then the broadcast.
Save(e, n, lost, crash) ==
    IF crash THEN UNCHANGED <<notifier, accepted, trimmed>>
    ELSE /\ notifier' = n
         /\ accepted' = accepted \cup {e}
         /\ trimmed' = trimmed \cup lost

\* A new event.  rollOk and closeOk say whether its two writes succeed, where
\* they are tried; with crash the object dies before it has saved its state.
EmitNew(k, preferred, rollOk, closeOk, crash) ==
    LET e == [id |-> NextId(notifier, preferred), key |-> k]
        n1 == Remember(notifier, e)
        n2 == Pushed(Rolled(n1, e, rollOk), e)
        n3 == Trim(Closed(n2, e, closeOk))
        rolls == Segment(e.id) # n1.index
        a1 == IF rolls THEN Put(archive, n1, n1.index, rollOk) ELSE archive
        a2 == IF AtBoundary(e) THEN Put(a1, n2, n2.index, closeOk) ELSE a1
        lost == IF n3.buffer = <<>> THEN {} ELSE Range(n2.buffer) \ Range(n3.buffer)
    IN /\ rollOk \/ (rolls /\ Writes(n1, n1.index))
       /\ closeOk \/ (AtBoundary(e) /\ Writes(n2, n2.index))
       /\ k = Notice \/ k \notin Range(notifier.keys)
       /\ archive' = a2
       /\ Save(e, n3, lost, crash)
       /\ failed' = (failed \/ ~rollOk \/ ~closeOk)
       /\ UNCHANGED forgot

Cost(fault) == IF fault THEN 1 ELSE 0

\* other: faults of the caller in the same step.
Emit(k, preferred, crash, other) ==
    \/ ~crash /\ EmitDuplicate(k) /\ SpendFaults(other)
    \/ \E rollOk, closeOk \in BOOLEAN :
          /\ EmitNew(k, preferred, rollOk, closeOk, crash)
          /\ SpendFaults(Cost(~rollOk) + Cost(~closeOk) + Cost(crash) + other)

\* The object restarts and cannot read its state: resetState.
LoadFails ==
    /\ notifier # Fresh
    /\ notifier' = Fresh
    /\ forgot' = TRUE
    /\ SpendFaults(1)
    /\ UNCHANGED <<flight, sent, ender, archive, accepted, trimmed, failed>>

(***************************************************************************)
(* The writers.                                                            *)
(***************************************************************************)

\* handleRunEvent: the run still holds its lease.
CheckLease(k) ==
    /\ k \notin sent
    /\ ender.pc = "none"
    /\ sent' = sent \cup {k}
    /\ flight' = flight \cup {k}
    /\ UNCHANGED <<ender, notifier, archive, accepted, trimmed, failed, forgot, eventFaults>>

\* The emit, whatever has become of the run since the check.  The container
\* sends the step again when the notifier fails or when the answer is lost.
ForwardStep(k) ==
    /\ k \in flight
    /\ \/ Emit(k, 0, FALSE, 0) /\ flight' = flight \ {k}
       \/ /\ \E crash \in BOOLEAN : Emit(k, 0, crash, Cost(~crash))
          /\ UNCHANGED flight
    /\ UNCHANGED <<sent, ender>>

\* The transaction that ends the run inserts the terminal row: complete-run,
\* or a cancellation, a dead letter or a failed creation.
CommitEnd ==
    /\ ender.pc = "none"
    /\ \E id \in TerminalIds :
          ender' \in {[pc |-> "final", id |-> id, writer |-> "complete"],
                     [pc |-> "notice", id |-> id, writer |-> "other"]}
    /\ UNCHANGED <<flight, sent, notifier, archive, accepted, trimmed, failed,
                   forgot, eventFaults>>

\* complete-run emits the assistant's message, which has no id of its own.
\* Its failure skips the terminal event.
EmitFinal ==
    /\ ender.pc = "final"
    /\ \/ Emit(Final, 0, FALSE, 0) /\ ender' = [ender EXCEPT !.pc = "end"]
       \/ /\ \E crash \in BOOLEAN : Emit(Final, 0, crash, Cost(~crash))
          /\ ender' = [ender EXCEPT !.pc = "over"]
    /\ UNCHANGED <<flight, sent>>

\* The terminal event asks for the id of its row.
EmitEnd ==
    /\ ender.pc \in {"end", "notice"}
    /\ \E crash \in BOOLEAN :
          Emit(IF ender.pc = "end" THEN End ELSE Notice, ender.id, crash, 0)
    /\ ender' = [ender EXCEPT !.pc = "over"]
    /\ UNCHANGED <<flight, sent>>

\* The container sends complete-run again: its emits are repeated.
RetryComplete ==
    /\ ender.writer = "complete" /\ ender.pc \in {"end", "over"}
    /\ ender' = [ender EXCEPT !.pc = "final"]
    /\ SpendFaults(1)
    /\ UNCHANGED <<flight, sent, notifier, archive, accepted, trimmed, failed, forgot>>

EventNext ==
    \/ \E k \in Steps : CheckLease(k) \/ ForwardStep(k)
    \/ CommitEnd \/ EmitFinal \/ EmitEnd \/ RetryComplete
    \/ LoadFails

EventSpec == EventInit /\ [][EventNext]_eventVars

(***************************************************************************)
(* Properties.                                                             *)
(***************************************************************************)

Archived == {x.event : x \in archive}

\* The terminal events whose segment was closed before it was full; an event
\* that follows one in its segment is known not to be archived.
Overtaken(e) ==
    \E x \in accepted : Ends(x.key) /\ x.id < e.id /\ Segment(x.id) = Segment(e.id)

\* Every event the notifier has shown is archived or waits for its segment to
\* be written, whatever writes fail and wherever the object dies, unless the
\* cap of the buffer has thrown it away or an event that ends the stream has
\* closed its segment (run-notifier.ts, handleR2Offload and flushR2Segment).
ArchiveKeepsEvents ==
    forgot \/ \A e \in accepted :
        e \in Archived \cup Range(notifier.buffer) \cup trimmed \/ Overtaken(e)

\* A retried request is not a second event unless the notifier has accepted
\* MaxKeys other keys since: validateEmit recognises the key although
\* cleanupEmitDedupKeys forgets all but the newest.
OneEventPerRequest ==
    forgot \/ \A e, f \in accepted :
        (e.key = f.key /\ e.id < f.id) =>
            MaxKeys <= Cardinality({x \in accepted :
                          x.key # Notice /\ e.id < x.id /\ x.id < f.id})

\* Events are shown with growing ids, also after a crash (addToRingBuffer,
\* persistState before broadcastMessage).
IdsIncrease ==
    [][forgot' \/ \A e \in accepted' \ accepted : \A f \in accepted : f.id < e.id]_eventVars
=============================================================================

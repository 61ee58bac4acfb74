--------------------------- MODULE RunEventReader ---------------------------
(***************************************************************************)
(* A reader of the event stream with a cursor: the polling SSE stream and   *)
(* the passes of fetchRunEventsAfter (observation.ts) over the three places *)
(* where RunEvents leaves events.  Each await of a pass is a step of its    *)
(* own: the SELECT of the terminal row, the listing of the segments, the    *)
(* read of each segment and the request for the ring.  The notifier goes on *)
(* in between.                                                             *)
(***************************************************************************)
EXTENDS RunEvents

CONSTANT Limit  \* MAX_EVENTS_PER_RESPONSE

ASSUME LimitAssumption == Limit \in Nat \ {0}

VARIABLE reader

readerVars == <<eventVars, reader>>

NoReader ==
    [pc |-> "none",     \* then "idle", "list", "segments", and "closed"
     cursor |-> 0,      \* lastEventId
     ended |-> FALSE,   \* the run had ended when the stream was opened
     todo |-> {},       \* segments still to be read by the pass
     got |-> {},        \* events it has gathered, and then given
     room |-> 0,        \* how many more the archive may add
     cut |-> FALSE,     \* the archive had that many
     before |-> 0]      \* history: how many events were shown when it listed

ReaderInit == EventInit /\ reader = NoReader

\* The run's only row of run_events.
TerminalRow ==
    IF ender.id = 0 THEN {}
    ELSE {[id |-> ender.id,
           key |-> IF ender.writer = "complete" THEN End ELSE Notice]}

\* A stream is opened, from the start or behind an event the client has seen.
Connect ==
    /\ reader.pc = "none"
    /\ \E c \in {0} \cup {e.id : e \in accepted \cup TerminalRow} :
          reader' = [reader EXCEPT !.pc = "idle", !.cursor = c,
                                   !.ended = (ender.pc # "none")]

ReadSql ==
    /\ reader.pc = "idle"
    /\ reader' = [reader EXCEPT !.pc = "list", !.room = Limit, !.cut = FALSE,
                    !.got = {e \in TerminalRow : e.id > reader.cursor}]

\* Mutant: the search starts behind the segment of the next event.
StartSegmentRounded(cursor) == (cursor + SegmentSize) \div SegmentSize + 1

\* The first segment that getRunEventsAfterFromR2 opens.
StartSegment(cursor) == cursor \div SegmentSize + 1

\* listRunEventSegmentIndexes.
ListSegments ==
    /\ reader.pc = "list"
    /\ reader' = [reader EXCEPT !.pc = "segments",
                    !.todo = {s \in {x.segment : x \in archive} :
                                s >= StartSegment(reader.cursor)},
                    !.before = Cardinality(accepted)]

\* byId.set: an event replaces the one of the same id.
Over(new, old) == new \cup {e \in old : \A x \in new : x.id # e.id}

First(es, n) == {e \in es : Cardinality({f \in es : f.id < e.id}) < n}

\* readRunEventSegmentFromR2 of the lowest segment left; the loop ends when the
\* archive has given Limit events.
ReadSegment(s) ==
    LET found == {x.event : x \in {y \in archive : y.segment = s
                                           /\ y.event.id > reader.cursor}}
        full == Cardinality(found) >= reader.room
        taken == IF full THEN First(found, reader.room) ELSE found
    IN /\ reader.pc = "segments"
       /\ s \in reader.todo /\ \A u \in reader.todo : s <= u
       /\ reader' = [reader EXCEPT
                       !.got = Over(taken, reader.got),
                       !.todo = IF full THEN {} ELSE reader.todo \ {s},
                       !.room = IF full THEN 0
                                ELSE reader.room - Cardinality(found),
                       !.cut = full]

\* The events go out in order and the cursor follows.  The stream is closed when
\* the run had ended before it or an event of the pass ends the run.
Give(es) ==
    LET ids == {e.id : e \in es} \cup {reader.cursor} IN
    \E c \in ids :
        /\ \A i \in ids : i <= c
        /\ reader' = [NoReader EXCEPT
                        !.pc = IF reader.ended \/ \E e \in es : Ends(e.key)
                               THEN "closed" ELSE "idle",
                        !.cursor = c, !.ended = reader.ended, !.got = es]

RingAfter(cursor) == {e \in Range(notifier.ring) : e.id > cursor}

\* getNotifierBufferedEvents, after the last segment.
ReadRing ==
    /\ reader.pc = "segments" /\ reader.todo = {}
    /\ Give(Over(RingAfter(reader.cursor), reader.got))

\* The notifier does not answer, or with an error: the pass goes on without it.
RingUnavailable ==
    /\ reader.pc = "segments" /\ reader.todo = {}
    /\ Give(reader.got)

\* A read of SQL or of the object store throws, or the client goes away.
StreamEnds ==
    /\ reader.pc \notin {"none", "closed"}
    /\ reader' = [NoReader EXCEPT !.pc = "closed"]

ReadNext ==
    \/ Connect \/ ReadSql \/ ListSegments \/ (\E s \in reader.todo : ReadSegment(s))
    \/ ReadRing \/ RingUnavailable \/ StreamEnds

ReaderNext ==
    \/ EventNext /\ UNCHANGED reader
    \/ ReadNext /\ UNCHANGED eventVars

ReaderSpec == ReaderInit /\ [][ReaderNext]_readerVars

(***************************************************************************)
(* Properties.                                                             *)
(***************************************************************************)

\* So many events were shown since the segments were listed that the ring may
\* have dropped one that was in no segment then.  With the sizes of the code
\* (both 100) that is two.
Outrun == Cardinality(accepted) + SegmentSize > reader.before + RingSize + 1

\* While no segment write has failed, a pass that reaches the ring is given
\* every event the notifier has shown behind the cursor, although it reads the
\* archive and the ring one after the other while events arrive: an event that
\* leaves the buffer for the archive in between is still in the ring.  Except
\* when the archive alone fills the response or the ring is outrun
\* (fetchRunEventsAfter).
ReplayIsComplete ==
    [][ReadRing =>
         \/ forgot \/ failed \/ reader.cut \/ Outrun
         \/ \A e \in accepted :
              (e.id > reader.cursor /\ ~Overtaken(e)) => e \in reader'.got]_readerVars
=============================================================================

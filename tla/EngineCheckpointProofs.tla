----------------------- MODULE EngineCheckpointProofs -----------------------
(***************************************************************************)
(* Proofs about EngineCheckpoint, for every number of requests, leases,     *)
(* steps, attempts and faults, late saves included: the checkpoint pointer  *)
(* never dangles, and a finished run keeps none.                           *)
(*                                                                         *)
(* The argument: a key enters the row only in the swap of the request that  *)
(* staged it, so a key that is, or was seen, in the row belongs to a request *)
(* past its swap (KeysArePast), which will never write it again.  What a     *)
(* cleanup deletes is such a key and not the current one (CleanupIsOld);     *)
(* what a discard deletes never was in the row.                            *)
(*                                                                         *)
(* Two more invariants rest on it.  GarbageInv keeps the account of the      *)
(* bucket: every object is the pointer's, is still owned by a request that   *)
(* will delete or install it (Owns), or was paid for by a fault.  AckInv     *)
(* orders the steps: as long as no save is late, what a container was told   *)
(* is saved is not ahead of the row, and no request under way can swap it    *)
(* back (SwapsForward).                                                     *)
(***************************************************************************)
EXTENDS EngineCheckpoint, FiniteSetTheorems, TLAPS

(***************************************************************************)
(* The inductive invariant.                                                *)
(***************************************************************************)

\* A container that may send has an attempt left.
TriesLeft ==
    \A v \in Leases : agent[v].phase \in Calls /\ agent[v].waits = None =>
        agent[v].tries < MaxTries

\* The container of a lease that is still to come is not there.
FutureOff ==
    \A v \in Leases : v > lease =>
        agent[v].phase = "off" /\ agent[v].tries = 0 /\ agent[v].waits = None

Past == {"cleanup", "done"}

\* A key that is or was seen in the row was put there by a finished swap.
KeysArePast ==
    /\ pointer.key # None => request[pointer.key].pc \in Past
    /\ \A q \in Requests : request[q].seen.key # None =>
         request[request[q].seen.key].pc \in Past

\* A request has not seen its own object.
NotSelf == \A q \in Requests : request[q].seen.key # q

\* The object of a swap to come is in the bucket.
StagedIsThere ==
    \A q \in Requests : request[q].pc = "update" /\ request[q].large => q \in objects

\* A cleanup deletes an object that is no longer pointed at.
CleanupIsOld ==
    \A q \in Requests : request[q].pc = "cleanup" =>
        request[q].seen.key # None /\ request[q].seen.key # pointer.key

StoreInv ==
    /\ KeysArePast /\ NotSelf /\ StagedIsThere /\ CleanupIsOld
    /\ PointerIsReadable /\ EndedRunHasNoCheckpoint

IInv == TypeOK /\ TriesLeft /\ FutureOff /\ StoreInv

(***************************************************************************)
(* What the small operators do to the request.                             *)
(***************************************************************************)

SameCall(q) ==
    /\ request'[q].kind = request[q].kind /\ request'[q].lease = request[q].lease

LEMMA GotoEffect ==
  ASSUME TypeOK, NEW q \in Requests,
         NEW pc \in {"read", "put", "update", "get", "commit", "cleanup", "discard"},
         Goto(q, pc)
  PROVE  /\ request' \in [Requests -> Request]
         /\ request'[q].pc = pc /\ request'[q].seen = request[q].seen
         /\ request'[q].large = request[q].large
         /\ SameCall(q) /\ request'[q].step = request[q].step
         /\ \A p \in Requests \ {q} : request'[p] = request[p]
  <1>1. request \in [Requests -> Request]
    BY DEF TypeOK
  <1>2. request' = [request EXCEPT ![q].pc = pc]
    BY DEF Goto
  <1> QED BY <1>1, <1>2, SMTT(60) DEF Request, SameCall

LEMMA AnswerEffect ==
  ASSUME TypeOK, NEW q \in Requests, NEW a \in {"ok", "fatal", "lost", "error"},
         Answer(q, a)
  PROVE  /\ request' \in [Requests -> Request]
         /\ request'[q].pc = "done" /\ request'[q].seen = request[q].seen
         /\ request'[q].large = request[q].large
         /\ SameCall(q) /\ request'[q].step = request[q].step
         /\ request'[q].answer = a
         /\ \A p \in Requests \ {q} : request'[p] = request[p]
  <1>1. request \in [Requests -> Request]
    BY DEF TypeOK
  <1>2. request' = [request EXCEPT ![q] = [@ EXCEPT !.pc = "done", !.answer = a]]
    BY DEF Answer
  <1> QED BY <1>1, <1>2, ZenonT(60) DEF Request, SameCall

LEMMA LoadedEffect ==
  ASSUME TypeOK, NEW q \in Requests, NEW s \in Steps, Loaded(q, s)
  PROVE  /\ request' \in [Requests -> Request]
         /\ request'[q].pc = "done" /\ request'[q].seen = request[q].seen
         /\ request'[q].large = request[q].large
         /\ SameCall(q) /\ request'[q].step = s /\ request'[q].answer = "ok"
         /\ \A p \in Requests \ {q} : request'[p] = request[p]
  <1>1. request \in [Requests -> Request]
    BY DEF TypeOK
  <1>2. request' = [request EXCEPT ![q] = [@ EXCEPT !.pc = "done", !.answer = "ok",
                                                    !.step = s]]
    BY DEF Loaded
  <1> QED BY <1>1, <1>2, ZenonT(60) DEF Request, SameCall

LEMMA SeeEffect ==
  ASSUME TypeOK, NEW q \in Requests,
         NEW pc \in {"read", "put", "update", "get", "commit"}, See(q, pc)
  PROVE  /\ request' \in [Requests -> Request]
         /\ request'[q].pc = pc /\ request'[q].seen = pointer
         /\ request'[q].large = request[q].large
         /\ SameCall(q) /\ request'[q].step = request[q].step
         /\ \A p \in Requests \ {q} : request'[p] = request[p]
  <1>1. request \in [Requests -> Request] /\ pointer \in Pointer
    BY DEF TypeOK
  <1>2. request' = [request EXCEPT ![q] = [@ EXCEPT !.pc = pc, !.seen = pointer]]
    BY DEF See
  <1> QED BY <1>1, <1>2, ZenonT(60) DEF Request, SameCall

(***************************************************************************)
(* A step of one request keeps the store consistent if it moves forward,    *)
(* sees only the current pointer, swaps in only its own staged object, and  *)
(* deletes only what a discard or a cleanup may delete.                     *)
(***************************************************************************)

Moved(q) ==
    /\ request' \in [Requests -> Request]
    /\ \A p \in Requests \ {q} : request'[p] = request[p]
    /\ request[q].pc \in Past => request'[q].pc \in Past

SeesCurrent(q) ==
    \/ request'[q].seen = request[q].seen
    \/ request'[q].seen = pointer /\ request[q].pc \notin Past

Swaps(q) ==
    \/ pointer'.key \in {pointer.key, None}
    \/ /\ pointer'.key = q /\ request[q].pc = "update" /\ request[q].large
       /\ request'[q].pc \in Past

Deletes(q) ==
    \/ objects \subseteq objects'
    \/ request[q].pc = "discard" /\ objects' = objects \ {q}
    \/ request[q].pc = "cleanup" /\ objects' = objects \ {request[q].seen.key}

Stages(q) == request'[q].pc = "update" /\ request'[q].large => q \in objects'

Cleans(q) ==
    request'[q].pc = "cleanup" =>
        request'[q].seen.key # None /\ request'[q].seen.key # pointer'.key

Ends ==
    \/ status' = status /\ pointer' = pointer
    \/ status' = "ended" /\ pointer' = Null
    \/ status' = status /\ status = "running"

LEMMA StoreStep ==
  ASSUME TypeOK, StoreInv, NEW q \in Requests, pointer' \in Pointer,
         Moved(q), SeesCurrent(q), Swaps(q), Deletes(q), Stages(q), Cleans(q), Ends
  PROVE  StoreInv'
  <1>1. /\ request \in [Requests -> Request] /\ request' \in [Requests -> Request]
        /\ pointer \in Pointer /\ pointer' \in Pointer /\ None \notin Requests
    BY NoneAssumption DEF TypeOK, Moved
  <1>2. /\ pointer.key \in Requests \cup {None} /\ pointer'.key \in Requests \cup {None}
        /\ \A p \in Requests : /\ request[p].seen.key \in Requests \cup {None}
                               /\ request'[p].seen.key \in Requests \cup {None}
    BY <1>1 DEF Request, Pointer
  <1>3. \A p \in Requests \ {q} : request'[p] = request[p]
    BY DEF Moved
  <1>4. \A p \in Requests : request[p].pc \in Past => request'[p].pc \in Past
    BY <1>3 DEF Moved
  <1>5. request'[q].seen.key \in {request[q].seen.key, pointer.key}
    BY DEF SeesCurrent
  <1>6. KeysArePast'
    <2>1. pointer'.key # None => request'[pointer'.key].pc \in Past
      <3>1. CASE pointer'.key = pointer.key
        BY <3>1, <1>2, <1>4 DEF StoreInv, KeysArePast
      <3>2. CASE pointer'.key = None
        BY <3>2
      <3>3. CASE pointer'.key = q /\ request'[q].pc \in Past
        BY <3>3
      <3> QED BY <3>1, <3>2, <3>3 DEF Swaps
    <2>2. ASSUME NEW p \in Requests, request'[p].seen.key # None
          PROVE  request'[request'[p].seen.key].pc \in Past
      <3>1. CASE request'[p].seen.key = request[p].seen.key
        BY <3>1, <2>2, <1>2, <1>4 DEF StoreInv, KeysArePast
      <3>2. CASE request'[p].seen.key = pointer.key
        BY <3>2, <2>2, <1>2, <1>4 DEF StoreInv, KeysArePast
      <3> QED BY <3>1, <3>2, <1>3, <1>5
    <2> QED BY <2>1, <2>2 DEF KeysArePast
  <1>7. NotSelf'
    <2>1. \A p \in Requests \ {q} : request'[p].seen.key # p
      BY <1>3 DEF StoreInv, NotSelf
    <2>2. request'[q].seen.key # q
      <3>1. CASE request'[q].seen = request[q].seen
        BY <3>1 DEF StoreInv, NotSelf
      <3>2. CASE request'[q].seen = pointer /\ request[q].pc \notin Past
        BY <3>2, <1>1 DEF StoreInv, KeysArePast
      <3> QED BY <3>1, <3>2 DEF SeesCurrent
    <2> QED BY <2>1, <2>2 DEF NotSelf
  <1>8. StagedIsThere'
    <2>1. ASSUME NEW p \in Requests \ {q}, request'[p].pc = "update",
                 request'[p].large
          PROVE  p \in objects'
      <3>1. p \in objects /\ request[p].pc \notin Past
        BY <2>1, <1>3 DEF StoreInv, StagedIsThere, Past
      <3>2. CASE objects \subseteq objects'
        BY <3>1, <3>2
      <3>3. CASE objects' = objects \ {q}
        BY <3>1, <3>3
      <3>4. CASE request[q].pc = "cleanup" /\ objects' = objects \ {request[q].seen.key}
        <4>1. request[q].seen.key # None
          BY <3>4 DEF StoreInv, CleanupIsOld
        <4>2. request[request[q].seen.key].pc \in Past
          BY <4>1 DEF StoreInv, KeysArePast
        <4> QED BY <3>1, <3>4, <4>2
      <3> QED BY <3>2, <3>3, <3>4 DEF Deletes
    <2>2. request'[q].pc = "update" /\ request'[q].large => q \in objects'
      BY DEF Stages
    <2> QED BY <2>1, <2>2 DEF StagedIsThere
  <1>9. CleanupIsOld'
    <2>1. ASSUME NEW p \in Requests \ {q}, request'[p].pc = "cleanup"
          PROVE  request'[p].seen.key # None /\ request'[p].seen.key # pointer'.key
      <3>1. request[p].seen.key # None /\ request[p].seen.key # pointer.key
        BY <2>1, <1>3 DEF StoreInv, CleanupIsOld
      <3>2. request[request[p].seen.key].pc \in Past
        BY <3>1 DEF StoreInv, KeysArePast
      <3>3. request[p].seen.key # pointer'.key
        BY <3>1, <3>2 DEF Swaps, Past
      <3> QED BY <1>3, <2>1, <3>1, <3>3
    <2> QED BY <2>1 DEF CleanupIsOld, Cleans
  <1>10. PointerIsReadable'
    <2> SUFFICES ASSUME pointer'.key # None PROVE pointer'.key \in objects'
      BY DEF PointerIsReadable, HasObject
    <2>1. CASE pointer'.key = pointer.key
      <3>1. pointer.key \in objects /\ request[pointer.key].pc \in Past
        BY <2>1 DEF StoreInv, PointerIsReadable, HasObject, KeysArePast
      <3>2. CASE objects \subseteq objects'
        BY <2>1, <3>1, <3>2
      <3>3. CASE request[q].pc = "discard" /\ objects' = objects \ {q}
        BY <2>1, <3>1, <3>3 DEF Past
      <3>4. CASE request[q].pc = "cleanup" /\ objects' = objects \ {request[q].seen.key}
        BY <2>1, <3>1, <3>4 DEF StoreInv, CleanupIsOld
      <3> QED BY <3>2, <3>3, <3>4 DEF Deletes
    <2>2. CASE pointer'.key = q /\ request[q].pc = "update" /\ request[q].large
      <3>1. q \in objects
        BY <2>2 DEF StoreInv, StagedIsThere
      <3> QED BY <2>2, <3>1 DEF Deletes
    <2> QED BY <2>1, <2>2 DEF Swaps
  <1>11. EndedRunHasNoCheckpoint'
    BY DEF Ends, StoreInv, EndedRunHasNoCheckpoint
  <1> QED BY <1>6, <1>7, <1>8, <1>9, <1>10, <1>11 DEF StoreInv

(***************************************************************************)
(* The steps of the Worker.                                                *)
(***************************************************************************)

WorkerTypes ==
    /\ status' \in {"queued", "running", "ended"}
    /\ pointer' \in Pointer
    /\ objects' \subseteq Requests
    /\ winner' \in 0..MaxLease
    /\ faults' \in 0..MaxFaults
    /\ UNCHANGED <<lease, agent, acked>>

Kept(q) ==
    /\ WorkerTypes /\ Moved(q) /\ SeesCurrent(q) /\ Swaps(q) /\ Deletes(q)
    /\ Stages(q) /\ Cleans(q) /\ Ends

LEMMA KeptIsEnough ==
  ASSUME IInv, NEW q \in Requests, Kept(q), late' \in BOOLEAN
  PROVE  IInv'
  <1>1. TypeOK'
    BY DEF IInv, TypeOK, Kept, WorkerTypes, Moved
  <1>2. StoreInv'
    BY StoreStep DEF IInv, Kept, WorkerTypes
  <1>3. TriesLeft' /\ FutureOff'
    BY DEF IInv, Kept, WorkerTypes, TriesLeft, FutureOff
  <1> QED BY <1>1, <1>2, <1>3 DEF IInv

LEMMA FaultType ==
  ASSUME TypeOK, Fault
  PROVE  faults' \in 0..MaxFaults
  BY BoundsAssumption DEF TypeOK, Fault

\* A request that only moves on: nothing of the run's row or bucket changes.
LEMMA QuietStep ==
  ASSUME IInv, NEW q \in Requests,
         request[q].pc \notin Past,
         UNCHANGED <<status, pointer, objects, winner, lease, agent, acked>>,
         faults' \in 0..MaxFaults,
         \/ \E pc \in {"read", "put", "get", "commit", "discard"} : Goto(q, pc)
         \/ \E a \in {"ok", "fatal", "lost", "error"} : Answer(q, a)
         \/ \E s \in Steps : Loaded(q, s)
         \/ \E pc \in {"read", "put", "get", "commit"} : See(q, pc)
         \/ ~request[q].large /\ See(q, "update")
  PROVE  Kept(q)
  <1>1. TypeOK
    BY DEF IInv
  <1>2. WorkerTypes
    BY <1>1 DEF TypeOK, WorkerTypes
  <1>3. Moved(q) /\ SeesCurrent(q) /\ Stages(q) /\ Cleans(q)
    <2>1. CASE \E pc \in {"read", "put", "get", "commit", "discard"} : Goto(q, pc)
      <3>1. PICK pc \in {"read", "put", "get", "commit", "discard"} : Goto(q, pc)
        BY <2>1
      <3> QED BY <1>1, <3>1, GotoEffect DEF Moved, SeesCurrent, Stages, Cleans
    <2>2. CASE \E a \in {"ok", "fatal", "lost", "error"} : Answer(q, a)
      <3>1. PICK a \in {"ok", "fatal", "lost", "error"} : Answer(q, a)
        BY <2>2
      <3> QED BY <1>1, <3>1, AnswerEffect DEF Moved, SeesCurrent, Stages, Cleans
    <2>3. CASE \E s \in Steps : Loaded(q, s)
      <3>1. PICK s \in Steps : Loaded(q, s)
        BY <2>3
      <3> QED BY <1>1, <3>1, LoadedEffect DEF Moved, SeesCurrent, Stages, Cleans
    <2>4. CASE \E pc \in {"read", "put", "get", "commit"} : See(q, pc)
      <3>1. PICK pc \in {"read", "put", "get", "commit"} : See(q, pc)
        BY <2>4
      <3> QED BY <1>1, <3>1, SeeEffect DEF Moved, SeesCurrent, Stages, Cleans
    <2>5. CASE ~request[q].large /\ See(q, "update")
      BY <1>1, <2>5, SeeEffect DEF Moved, SeesCurrent, Stages, Cleans
    <2> QED BY <2>1, <2>2, <2>3, <2>4, <2>5
  <1>4. Swaps(q) /\ Deletes(q) /\ Ends
    BY DEF Swaps, Deletes, Ends
  <1> QED BY <1>2, <1>3, <1>4 DEF Kept

LEMMA StoredType ==
  ASSUME TypeOK, NEW q \in Requests
  PROVE  /\ Stored(q) \in Pointer
         /\ Stored(q).key = IF request[q].large THEN q ELSE None
  BY DEF TypeOK, Stored, Pointer, Request

LEMMA NullType == Null \in Pointer /\ Null.key = None
  BY BoundsAssumption DEF Null, Pointer, Steps

LEMMA SaveKeeps ==
  ASSUME IInv, NEW q \in Requests, SaveStep(q)
  PROVE  Kept(q)
  <1>1. TypeOK /\ faults \in 0..MaxFaults /\ objects \subseteq Requests
    BY DEF IInv, TypeOK
  <1>2. CASE SaveReads(q)
    <2>1. request[q].pc \notin Past
      BY <1>2 DEF SaveReads, Past
    <2>2. \/ \E a \in {"ok", "fatal", "lost", "error"} : Answer(q, a)
          \/ \E pc \in {"read", "put", "get", "commit"} : See(q, pc)
          \/ ~request[q].large /\ See(q, "update")
      BY <1>2 DEF SaveReads
    <2>3. /\ UNCHANGED <<status, pointer, objects, winner, lease, agent, acked>>
          /\ faults' \in 0..MaxFaults
      BY <1>1, <1>2 DEF SaveReads
    <2> QED BY <2>1, <2>2, <2>3, QuietStep
  <1>3. CASE SavePuts(q)
    <2>1. WorkerTypes
      BY <1>1, <1>3 DEF SavePuts, WorkerFrame, WorkerTypes, TypeOK
    <2>2. Moved(q) /\ SeesCurrent(q) /\ Stages(q) /\ Cleans(q)
      BY <1>1, <1>3, GotoEffect
         DEF SavePuts, Past, Moved, SeesCurrent, Stages, Cleans
    <2>3. Swaps(q) /\ Deletes(q) /\ Ends
      BY <1>3 DEF SavePuts, Swaps, Deletes, Ends
    <2> QED BY <2>1, <2>2, <2>3 DEF Kept
  <1>4. CASE SavePutThrows(q)
    <2>1. WorkerTypes
      BY <1>1, <1>4, FaultType DEF SavePutThrows, WorkerFrame, WorkerTypes, TypeOK
    <2>2. Moved(q) /\ SeesCurrent(q) /\ Stages(q) /\ Cleans(q)
      BY <1>1, <1>4, AnswerEffect
         DEF SavePutThrows, Past, Moved, SeesCurrent, Stages, Cleans
    <2>3. Swaps(q) /\ Deletes(q) /\ Ends
      BY <1>4 DEF SavePutThrows, Swaps, Deletes, Ends
    <2> QED BY <2>1, <2>2, <2>3 DEF Kept
  <1>5. CASE SaveUpdates(q) /\ CanSwap(q)
    <2>1. /\ request[q].pc = "update" /\ pointer' = Stored(q)
          /\ pointer = request[q].seen /\ status = "running"
          /\ UNCHANGED <<status, objects, winner, faults, lease, agent, acked>>
      BY <1>5 DEF SaveUpdates, CanSwap, HoldsLease, WorkerFrame
    <2>2. /\ request' \in [Requests -> Request]
          /\ request'[q].pc \in Past /\ request'[q].seen = request[q].seen
          /\ request'[q].large = request[q].large
          /\ \A p \in Requests \ {q} : request'[p] = request[p]
          /\ request'[q].pc = "cleanup" => request[q].seen.key # None
      <3>1. CASE HasObject(request[q].seen) /\ Goto(q, "cleanup")
        BY <1>1, <3>1, GotoEffect DEF Past, HasObject
      <3>2. CASE Answer(q, "ok")
        BY <1>1, <3>2, AnswerEffect DEF Past
      <3> QED BY <1>5, <3>1, <3>2 DEF SaveUpdates
    <2>3. WorkerTypes
      BY <1>1, <2>1, StoredType DEF WorkerTypes, TypeOK
    <2>4. Moved(q) /\ SeesCurrent(q) /\ Stages(q)
      BY <2>2 DEF Moved, SeesCurrent, Stages, Past
    <2>5. Cleans(q)
      <3>1. request[q].seen.key # q
        BY DEF IInv, StoreInv, NotSelf
      <3> QED BY <1>1, <2>1, <2>2, <3>1, StoredType DEF Cleans
    <2>6. Swaps(q)
      BY <1>1, <2>1, <2>2, StoredType DEF Swaps
    <2>7. Deletes(q) /\ Ends
      BY <2>1 DEF Deletes, Ends
    <2> QED BY <2>3, <2>4, <2>5, <2>6, <2>7 DEF Kept
  <1>6. CASE SaveUpdates(q) /\ ~CanSwap(q)
    <2>1. request[q].pc \notin Past
      BY <1>6 DEF SaveUpdates, Past
    <2>2. \/ \E pc \in {"read", "put", "get", "commit", "discard"} : Goto(q, pc)
          \/ \E a \in {"ok", "fatal", "lost", "error"} : Answer(q, a)
      BY <1>6 DEF SaveUpdates
    <2>3. /\ UNCHANGED <<status, pointer, objects, winner, lease, agent, acked>>
          /\ faults' \in 0..MaxFaults
      BY <1>1, <1>6 DEF SaveUpdates, WorkerFrame
    <2> QED BY <2>1, <2>2, <2>3, QuietStep
  <1>7. CASE SaveUpdateThrows(q)
    <2>1. /\ request[q].pc = "update"
          /\ UNCHANGED <<status, objects, winner, lease, agent, acked>>
          /\ faults' \in 0..MaxFaults
      BY <1>1, <1>7, FaultType DEF SaveUpdateThrows, WorkerFrame
    <2>2. \/ pointer' = pointer
          \/ pointer' = Stored(q) /\ status = "running"
      BY <1>7 DEF SaveUpdateThrows, CanSwap, HoldsLease
    <2>3. WorkerTypes
      BY <1>1, <2>1, <2>2, StoredType DEF WorkerTypes, TypeOK
    <2>4. /\ Moved(q) /\ SeesCurrent(q) /\ Stages(q) /\ Cleans(q)
          /\ request'[q].pc \in Past
      BY <1>1, <1>7, AnswerEffect
         DEF SaveUpdateThrows, Past, Moved, SeesCurrent, Stages, Cleans
    <2>5. Swaps(q)
      BY <1>1, <2>1, <2>2, <2>4, StoredType DEF Swaps
    <2>6. Deletes(q) /\ Ends
      BY <2>1, <2>2 DEF Deletes, Ends
    <2> QED BY <2>3, <2>4, <2>5, <2>6 DEF Kept
  <1>8. CASE SaveDiscards(q)
    <2>1. WorkerTypes
      BY <1>1, <1>8 DEF SaveDiscards, WorkerFrame, WorkerTypes, TypeOK
    <2>2. Moved(q) /\ SeesCurrent(q) /\ Stages(q) /\ Cleans(q)
      BY <1>1, <1>8, AnswerEffect
         DEF SaveDiscards, Past, Moved, SeesCurrent, Stages, Cleans
    <2>3. Swaps(q) /\ Deletes(q) /\ Ends
      BY <1>8 DEF SaveDiscards, Swaps, Deletes, Ends
    <2> QED BY <2>1, <2>2, <2>3 DEF Kept
  <1> QED BY <1>2, <1>3, <1>4, <1>5, <1>6, <1>7, <1>8 DEF SaveStep

LEMMA LoadKeeps ==
  ASSUME IInv, NEW q \in Requests, LoadStep(q)
  PROVE  Kept(q)
  <1>1. /\ TypeOK /\ faults \in 0..MaxFaults
        /\ pointer.step \in Steps /\ request[q].seen.step \in Steps
    BY DEF IInv, TypeOK, Pointer, Request
  <1>2. CASE LoadChecksLease(q)
    <2>1. request[q].pc \notin Past
      BY <1>2 DEF LoadChecksLease, Past
    <2>2. \/ \E pc \in {"read", "put", "get", "commit", "discard"} : Goto(q, pc)
          \/ \E a \in {"ok", "fatal", "lost", "error"} : Answer(q, a)
      BY <1>2 DEF LoadChecksLease
    <2>3. /\ UNCHANGED <<status, pointer, objects, winner, lease, agent, acked>>
          /\ faults' \in 0..MaxFaults
      BY <1>1, <1>2 DEF LoadChecksLease, WorkerFrame
    <2> QED BY <2>1, <2>2, <2>3, QuietStep
  <1>3. CASE LoadReads(q)
    <2>1. request[q].pc \notin Past
      BY <1>3 DEF LoadReads, Past
    <2>2. \/ \E a \in {"ok", "fatal", "lost", "error"} : Answer(q, a)
          \/ \E pc \in {"read", "put", "get", "commit"} : See(q, pc)
          \/ \E s \in Steps : Loaded(q, s)
      BY <1>1, <1>3 DEF LoadReads
    <2>3. /\ UNCHANGED <<status, pointer, objects, winner, lease, agent, acked>>
          /\ faults' \in 0..MaxFaults
      BY <1>1, <1>3 DEF LoadReads, WorkerFrame
    <2> QED BY <2>1, <2>2, <2>3, QuietStep
  <1>4. CASE LoadGets(q)
    <2>1. request[q].pc \notin Past
      BY <1>4 DEF LoadGets, Past
    <2>2. \/ \E a \in {"ok", "fatal", "lost", "error"} : Answer(q, a)
          \/ \E s \in Steps : Loaded(q, s)
      BY <1>1, <1>4 DEF LoadGets
    <2>3. /\ UNCHANGED <<status, pointer, objects, winner, lease, agent, acked>>
          /\ faults' \in 0..MaxFaults
      BY <1>1, <1>4 DEF LoadGets, WorkerFrame
    <2> QED BY <2>1, <2>2, <2>3, QuietStep
  <1> QED BY <1>2, <1>3, <1>4 DEF LoadStep

\* The committed terminal transaction, or its replay: the pointer is cleared.
LEMMA ClearKeeps ==
  ASSUME IInv, NEW q \in Requests, request[q].pc = "commit",
         CleanUpOrAnswer(q) \/ Answer(q, "error"),
         status' = "ended", pointer' = Null, winner' \in 0..MaxLease,
         faults' \in 0..MaxFaults, UNCHANGED <<objects, lease, agent, acked>>
  PROVE  Kept(q)
  <1>1. TypeOK
    BY DEF IInv
  <1>2. /\ request' \in [Requests -> Request]
        /\ request'[q].pc \in Past /\ request'[q].seen = request[q].seen
        /\ request'[q].large = request[q].large
        /\ \A p \in Requests \ {q} : request'[p] = request[p]
        /\ request'[q].pc = "cleanup" => request[q].seen.key # None
    <2>1. CASE HasObject(request[q].seen) /\ Goto(q, "cleanup")
      BY <1>1, <2>1, GotoEffect DEF Past, HasObject
    <2>2. CASE Answer(q, "ok")
      BY <1>1, <2>2, AnswerEffect DEF Past
    <2>3. CASE Answer(q, "error")
      BY <1>1, <2>3, AnswerEffect DEF Past
    <2> QED BY <2>1, <2>2, <2>3 DEF CleanUpOrAnswer
  <1>3. WorkerTypes
    BY <1>1, NullType DEF WorkerTypes, TypeOK
  <1>4. Moved(q) /\ SeesCurrent(q) /\ Stages(q)
    BY <1>2 DEF Moved, SeesCurrent, Stages, Past
  <1>5. Cleans(q) /\ Swaps(q)
    BY <1>2, NullType DEF Cleans, Swaps
  <1>6. Deletes(q) /\ Ends
    BY DEF Deletes, Ends
  <1> QED BY <1>3, <1>4, <1>5, <1>6 DEF Kept

LEMMA TerminalKeeps ==
  ASSUME IInv, NEW q \in Requests, TerminalStep(q)
  PROVE  Kept(q)
  <1>1. /\ TypeOK /\ faults \in 0..MaxFaults /\ winner \in 0..MaxLease
        /\ request[q].lease \in 0..MaxLease
    BY DEF IInv, TypeOK, Request
  <1>2. CASE CompleteChecksLease(q)
    <2>1. request[q].pc \notin Past
      BY <1>2 DEF CompleteChecksLease, Past
    <2>2. \/ \E pc \in {"read", "put", "get", "commit", "discard"} : Goto(q, pc)
          \/ \E a \in {"ok", "fatal", "lost", "error"} : Answer(q, a)
      BY <1>2 DEF CompleteChecksLease
    <2>3. /\ UNCHANGED <<status, pointer, objects, winner, lease, agent, acked>>
          /\ faults' \in 0..MaxFaults
      BY <1>1, <1>2 DEF CompleteChecksLease, WorkerFrame
    <2> QED BY <2>1, <2>2, <2>3, QuietStep
  <1>3. CASE CompleteReads(q)
    <2>1. request[q].pc \notin Past
      BY <1>3 DEF CompleteReads, Past
    <2>2. \E pc \in {"read", "put", "get", "commit"} : See(q, pc)
      BY <1>3 DEF CompleteReads
    <2>3. /\ UNCHANGED <<status, pointer, objects, winner, lease, agent, acked>>
          /\ faults' \in 0..MaxFaults
      BY <1>1, <1>3 DEF CompleteReads, WorkerFrame
    <2> QED BY <2>1, <2>2, <2>3, QuietStep
  <1>4. CASE CompleteCommits(q)
    <2>1. CASE CanSwap(q)
      BY <1>1, <1>4, <2>1, ClearKeeps DEF CompleteCommits, WorkerFrame
    <2>2. CASE ~CanSwap(q) /\ status = "ended" /\ winner = request[q].lease
      <3>1. pointer = Null
        BY <2>2 DEF IInv, StoreInv, EndedRunHasNoCheckpoint
      <3> QED BY <1>1, <1>4, <2>2, <3>1, ClearKeeps DEF CompleteCommits, WorkerFrame
    <2>3. CASE ~CanSwap(q) /\ ~(status = "ended" /\ winner = request[q].lease)
      <3>1. request[q].pc \notin Past
        BY <1>4 DEF CompleteCommits, Past
      <3>2. \E a \in {"ok", "fatal", "lost", "error"} : Answer(q, a)
        BY <1>4, <2>3 DEF CompleteCommits
      <3>3. /\ UNCHANGED <<status, pointer, objects, winner, lease, agent, acked>>
            /\ faults' \in 0..MaxFaults
        BY <1>1, <1>4, <2>3 DEF CompleteCommits, WorkerFrame
      <3> QED BY <3>1, <3>2, <3>3, QuietStep
    <2> QED BY <2>1, <2>2, <2>3
  <1>5. CASE CompleteThrows(q)
    <2>1. /\ request[q].pc = "commit" /\ Answer(q, "error")
          /\ faults' \in 0..MaxFaults /\ UNCHANGED <<objects, lease, agent, acked>>
      BY <1>1, <1>5, FaultType DEF CompleteThrows, WorkerFrame
    <2>2. CASE status' = "ended" /\ winner' = request[q].lease /\ pointer' = Null
      BY <1>1, <2>1, <2>2, ClearKeeps
    <2>3. CASE UNCHANGED <<status, winner, pointer>>
      BY <2>1, <2>3, QuietStep DEF Past
    <2> QED BY <1>5, <2>2, <2>3 DEF CompleteThrows
  <1>6. CASE TransitionReads(q)
    <2>1. WorkerTypes
      BY <1>1, <1>6 DEF TransitionReads, WorkerFrame, WorkerTypes, TypeOK
    <2>2. /\ request \in [Requests -> Request] /\ pointer \in Pointer
          /\ request[q].pc = "new"
          /\ request' = [request EXCEPT ![q] = [@ EXCEPT !.kind = "cancel",
                                                         !.pc = "commit",
                                                         !.seen = pointer]]
      BY <1>1, <1>6 DEF TransitionReads, TypeOK
    <2>3. /\ request' \in [Requests -> Request]
          /\ request'[q].pc = "commit" /\ request'[q].seen = pointer
          /\ request'[q].large = request[q].large
          /\ \A p \in Requests \ {q} : request'[p] = request[p]
      BY <2>2, ZenonT(60) DEF Request
    <2>4. Moved(q) /\ SeesCurrent(q) /\ Stages(q) /\ Cleans(q)
      BY <2>2, <2>3 DEF Past, Moved, SeesCurrent, Stages, Cleans
    <2>5. Swaps(q) /\ Deletes(q) /\ Ends
      BY <1>6 DEF TransitionReads, Swaps, Deletes, Ends
    <2> QED BY <2>1, <2>4, <2>5 DEF Kept
  <1>7. CASE TransitionCommits(q)
    <2>1. CASE status # "ended" /\ pointer = request[q].seen
      BY <1>1, <1>7, <2>1, ClearKeeps DEF TransitionCommits, WorkerFrame
    <2>2. CASE ~(status # "ended" /\ pointer = request[q].seen)
      <3>1. request[q].pc \notin Past
        BY <1>7 DEF TransitionCommits, Past
      <3>2. \E a \in {"ok", "fatal", "lost", "error"} : Answer(q, a)
        BY <1>7, <2>2 DEF TransitionCommits
      <3>3. /\ UNCHANGED <<status, pointer, objects, winner, lease, agent, acked>>
            /\ faults' \in 0..MaxFaults
        BY <1>1, <1>7, <2>2 DEF TransitionCommits, WorkerFrame
      <3> QED BY <3>1, <3>2, <3>3, QuietStep
    <2> QED BY <2>1, <2>2
  <1> QED BY <1>2, <1>3, <1>4, <1>5, <1>6, <1>7 DEF TerminalStep

LEMMA CleanupKeeps ==
  ASSUME IInv, NEW q \in Requests,
         DeleteReplaced(q) \/ DeleteFails(q) \/ RequestDies(q)
  PROVE  Kept(q)
  <1>1. TypeOK
    BY DEF IInv
  <1>2. CASE DeleteReplaced(q)
    <2>1. WorkerTypes
      BY <1>1, <1>2 DEF DeleteReplaced, WorkerFrame, WorkerTypes, TypeOK
    <2>2. Moved(q) /\ SeesCurrent(q) /\ Stages(q) /\ Cleans(q)
      BY <1>1, <1>2, AnswerEffect
         DEF DeleteReplaced, Past, Moved, SeesCurrent, Stages, Cleans
    <2>3. Swaps(q) /\ Deletes(q) /\ Ends
      BY <1>2 DEF DeleteReplaced, Swaps, Deletes, Ends
    <2> QED BY <2>1, <2>2, <2>3 DEF Kept
  <1>3. CASE DeleteFails(q) \/ RequestDies(q)
    <2>1. PICK a \in {"ok", "lost", "error"} : Answer(q, a)
      BY <1>3 DEF DeleteFails, RequestDies
    <2>2. /\ UNCHANGED <<status, pointer, objects, winner, lease, agent, acked>>
          /\ faults' \in 0..MaxFaults
      BY <1>1, <1>3, FaultType DEF DeleteFails, RequestDies, WorkerFrame
    <2>3. WorkerTypes
      BY <1>1, <2>2 DEF WorkerTypes, TypeOK
    <2>4. Moved(q) /\ SeesCurrent(q) /\ Stages(q) /\ Cleans(q)
      BY <1>1, <2>1, AnswerEffect DEF Past, Moved, SeesCurrent, Stages, Cleans
    <2>5. Swaps(q) /\ Deletes(q) /\ Ends
      BY <2>2 DEF Swaps, Deletes, Ends
    <2> QED BY <2>3, <2>4, <2>5 DEF Kept
  <1> QED BY <1>2, <1>3

(***************************************************************************)
(* The steps of the run and of its containers.                             *)
(***************************************************************************)

LEMMA RunKeeps ==
  ASSUME IInv, RunNext
  PROVE  IInv'
  <1>1. TypeOK /\ TriesLeft /\ FutureOff /\ StoreInv
    BY DEF IInv
  <1>2. CASE Claim
    <2>1. /\ lease' = lease + 1 /\ lease' \in Leases /\ status' = "running"
          /\ status = "queued"
          /\ agent' = [agent EXCEPT ![lease'].phase = "load"]
          /\ UNCHANGED <<pointer, objects, winner, request, acked, late, faults>>
      BY <1>1, <1>2, BoundsAssumption DEF Claim, Leases, TypeOK
    <2>2. /\ agent \in [Leases -> Agent] /\ lease \in 0..MaxLease
          /\ agent[lease'].tries = 0
      BY <1>1, <2>1 DEF TypeOK, FutureOff
    <2>3. /\ agent' \in [Leases -> Agent]
          /\ agent'[lease'].tries = 0
          /\ \A v \in Leases \ {lease'} : agent'[v] = agent[v]
      BY <2>1, <2>2 DEF Agent
    <2>4. TypeOK'
      BY <1>1, <2>1, <2>3 DEF TypeOK, Leases
    <2>5. TriesLeft'
      <3>1. 0 < MaxTries
        BY BoundsAssumption
      <3> QED BY <1>1, <2>1, <2>3, <3>1 DEF TriesLeft
    <2>6. FutureOff'
      <3>1. ASSUME NEW v \in Leases, v > lease'
            PROVE  v # lease' /\ v > lease
        BY <2>1, <2>2, <3>1 DEF Leases
      <3> QED BY <1>1, <2>3, <3>1 DEF FutureOff
    <2>7. StoreInv'
      BY <1>1, <2>1 DEF StoreInv, KeysArePast, NotSelf, StagedIsThere, CleanupIsOld,
                        PointerIsReadable, EndedRunHasNoCheckpoint
    <2> QED BY <2>4, <2>5, <2>6, <2>7 DEF IInv
  <1>3. CASE Release
    <2>1. TypeOK' /\ TriesLeft' /\ FutureOff'
      BY <1>1, <1>3 DEF Release, TypeOK, TriesLeft, FutureOff
    <2>2. StoreInv'
      BY <1>1, <1>3 DEF Release, StoreInv, KeysArePast, NotSelf, StagedIsThere,
                        CleanupIsOld, PointerIsReadable, EndedRunHasNoCheckpoint
    <2> QED BY <2>1, <2>2 DEF IInv
  <1> QED BY <1>2, <1>3 DEF RunNext

\* A container changes only itself, and keeps an attempt if it may send.
LEMMA AgentKeeps ==
  ASSUME IInv, NEW v \in Leases, agent[v].phase # "off" \/ agent[v].waits # None,
         agent' \in [Leases -> Agent],
         \A w \in Leases \ {v} : agent'[w] = agent[w],
         agent'[v].phase \in Calls /\ agent'[v].waits = None =>
            agent'[v].tries < MaxTries,
         acked' \in Steps, faults' \in 0..MaxFaults,
         request' \in [Requests -> Request], StoreInv', AgentFrame
  PROVE  IInv'
  <1>1. TypeOK /\ TriesLeft /\ FutureOff
    BY DEF IInv
  <1>2. TypeOK'
    BY <1>1 DEF TypeOK, AgentFrame
  <1>3. TriesLeft'
    BY <1>1 DEF TriesLeft
  <1>4. ~(v > lease) /\ lease' = lease
    BY <1>1 DEF FutureOff, AgentFrame
  <1>5. FutureOff'
    BY <1>1, <1>4 DEF FutureOff
  <1> QED BY <1>2, <1>3, <1>5 DEF IInv

LEMMA StoreUnchanged ==
  ASSUME StoreInv, AgentFrame, UNCHANGED request
  PROVE  StoreInv'
  BY DEF AgentFrame, StoreInv, KeysArePast, NotSelf, StagedIsThere, CleanupIsOld,
         PointerIsReadable, HasObject, EndedRunHasNoCheckpoint

\* Retrying moves the container only within its type.
LEMMA RetryEffect ==
  ASSUME TypeOK, NEW v \in Leases, Retry(v)
  PROVE  /\ agent' \in [Leases -> Agent]
         /\ \A w \in Leases \ {v} : agent'[w] = agent[w]
         /\ agent'[v].tries < MaxTries
  <1>1. /\ agent \in [Leases -> Agent] /\ 0 < MaxTries
        /\ 0 \in 0..MaxTries /\ MaxTries \in Nat
    BY BoundsAssumption DEF TypeOK
  <1>2. CASE agent[v].tries < MaxTries
    <2>1. agent' = [agent EXCEPT ![v] = [@ EXCEPT !.waits = None]]
      BY <1>2 DEF Retry
    <2> QED BY <1>1, <1>2, <2>1 DEF Agent
  <1>3. CASE ~(agent[v].tries < MaxTries)
    <2>1. /\ agent' = [agent EXCEPT ![v] = [@ EXCEPT !.waits = None, !.tries = 0,
                                                     !.phase = AfterFailure(v)]]
          /\ AfterFailure(v) \in {"stopped", "finish"}
      BY <1>3 DEF Retry, AfterFailure
    <2> QED BY <1>1, <2>1 DEF Agent
  <1> QED BY <1>2, <1>3

LEMMA SendKeeps ==
  ASSUME IInv, NEW v \in Leases, NEW q \in Requests, Send(v, q)
  PROVE  IInv'
  <1>1. /\ TypeOK /\ StoreInv /\ agent \in [Leases -> Agent]
        /\ request \in [Requests -> Request] /\ v \in 0..MaxLease
        /\ faults \in 0..MaxFaults /\ acked \in Steps
    BY DEF IInv, TypeOK, Leases
  <1>2. /\ agent[v].phase \in Calls /\ agent[v].waits = None
        /\ agent[v].tries < MaxTries /\ request[q].pc = "new"
        /\ agent' = [agent EXCEPT ![v] = [@ EXCEPT !.waits = q,
                                                   !.tries = agent[v].tries + 1]]
        /\ UNCHANGED <<acked, faults>> /\ AgentFrame
    BY DEF IInv, TriesLeft, Send
  <1>3. agent[v].tries + 1 \in 0..MaxTries /\ None # q
    BY <1>1, <1>2, BoundsAssumption, NoneAssumption DEF Agent
  <1>4. /\ agent' \in [Leases -> Agent] /\ agent'[v].waits = q
        /\ \A w \in Leases \ {v} : agent'[w] = agent[w]
    BY <1>1, <1>2, <1>3 DEF Agent
  <1>5. PICK large \in BOOLEAN :
          request' = [request EXCEPT ![q] = [@ EXCEPT
                       !.kind = agent[v].phase, !.pc = "sent", !.lease = v,
                       !.step = agent[v].step,
                       !.large = large /\ agent[v].phase = "save"]]
    BY DEF Send
  <1>6. /\ agent[v].phase \in {"load", "save", "finish"} /\ agent[v].step \in Steps
        /\ (large /\ agent[v].phase = "save") \in BOOLEAN
    BY <1>1, <1>2 DEF Calls, Agent
  <1>7. /\ request' \in [Requests -> Request]
        /\ request'[q].pc = "sent" /\ request'[q].seen = request[q].seen
        /\ \A p \in Requests \ {q} : request'[p] = request[p]
    <2> DEFINE lg == large /\ agent[v].phase = "save"
    <2>1. lg \in BOOLEAN /\ request' = [request EXCEPT ![q] = [@ EXCEPT
                       !.kind = agent[v].phase, !.pc = "sent", !.lease = v,
                       !.step = agent[v].step, !.large = lg]]
      BY <1>5, <1>6
    <2> HIDE DEF lg
    <2> QED BY <1>1, <1>6, <2>1, ZenonT(60) DEF Request
  <1>8. StoreInv'
    <2>1. pointer' \in Pointer
      BY <1>1, <1>2 DEF TypeOK, AgentFrame
    <2>2. Moved(q) /\ SeesCurrent(q) /\ Stages(q) /\ Cleans(q)
      BY <1>2, <1>7 DEF Moved, SeesCurrent, Stages, Cleans, Past
    <2>3. Swaps(q) /\ Deletes(q) /\ Ends
      BY <1>2 DEF AgentFrame, Swaps, Deletes, Ends
    <2> QED BY <1>1, <2>1, <2>2, <2>3, StoreStep
  <1>9. agent[v].phase # "off"
    BY <1>6
  <1> QED BY <1>1, <1>2, <1>3, <1>4, <1>7, <1>8, <1>9, AgentKeeps

LEMMA ReceiveKeeps ==
  ASSUME IInv, NEW v \in Leases, Receive(v)
  PROVE  IInv'
  <1> DEFINE q == agent[v].waits
  <1>1. /\ TypeOK /\ StoreInv /\ agent \in [Leases -> Agent] /\ acked \in Steps
        /\ request \in [Requests -> Request] /\ faults \in 0..MaxFaults
    BY DEF IInv, TypeOK
  <1>2. /\ q \in Requests /\ q # None /\ AgentFrame
        /\ UNCHANGED <<request, faults>>
    BY <1>1 DEF Receive, Agent
  <1>3. request[q].step \in Steps /\ StoreInv'
    BY <1>1, <1>2, StoreUnchanged DEF Request
  <1>4. CASE request[q].answer = "ok"
    <2>1. PICK ph \in {"stopped", "work"} :
            agent' = [agent EXCEPT ![v] = [@ EXCEPT !.waits = None, !.phase = ph,
                                                    !.step = request[q].step]]
      <3>1. agent' = [agent EXCEPT ![v] = [@ EXCEPT !.waits = None,
                        !.phase = IF agent[v].phase = "finish" THEN "stopped"
                                                               ELSE "work",
                        !.step = request[q].step]]
        BY <1>4 DEF Receive
      <3>2. CASE agent[v].phase = "finish"
        BY <3>1, <3>2, <1>1 DEF Agent
      <3>3. CASE agent[v].phase # "finish"
        BY <3>1, <3>3, <1>1 DEF Agent
      <3> QED BY <3>2, <3>3
    <2>2. acked' \in Steps
      BY <1>1, <1>3, <1>4 DEF Receive
    <2>3. /\ agent' \in [Leases -> Agent] /\ agent'[v].phase \notin Calls
          /\ \A w \in Leases \ {v} : agent'[w] = agent[w]
      BY <1>1, <1>3, <2>1 DEF Agent, Calls
    <2> QED BY <1>1, <1>2, <1>3, <2>2, <2>3, AgentKeeps
  <1>5. CASE request[q].answer = "fatal"
    <2>1. /\ agent' = [agent EXCEPT ![v] = [@ EXCEPT !.waits = None,
                                              !.phase = "finish", !.tries = 0]]
          /\ acked' = acked
      BY <1>5 DEF Receive
    <2>2. 0 \in 0..MaxTries /\ 0 < MaxTries
      BY BoundsAssumption
    <2>3. /\ agent' \in [Leases -> Agent] /\ agent'[v].tries < MaxTries
          /\ \A w \in Leases \ {v} : agent'[w] = agent[w]
      BY <1>1, <2>1, <2>2 DEF Agent
    <2> QED BY <1>1, <1>2, <1>3, <2>1, <2>3, AgentKeeps
  <1>6. CASE request[q].answer = "lost"
    <2>1. /\ agent' = [agent EXCEPT ![v] = [@ EXCEPT !.waits = None,
                                                     !.phase = "stopped"]]
          /\ acked' = acked
      BY <1>6 DEF Receive
    <2>2. /\ agent' \in [Leases -> Agent] /\ agent'[v].phase \notin Calls
          /\ \A w \in Leases \ {v} : agent'[w] = agent[w]
      BY <1>1, <2>1 DEF Agent, Calls
    <2> QED BY <1>1, <1>2, <1>3, <2>1, <2>2, AgentKeeps
  <1>7. CASE request[q].answer = "error"
    <2>1. Retry(v) /\ acked' = acked
      BY <1>7 DEF Receive
    <2> QED BY <1>1, <1>2, <1>3, <2>1, RetryEffect, AgentKeeps
  <1> QED BY <1>4, <1>5, <1>6, <1>7 DEF Receive

LEMMA WorkKeeps ==
  ASSUME IInv, NEW v \in Leases,
         EnterNode(v) \/ FinishWork(v) \/ GiveUp(v) \/ ContainerDies(v)
  PROVE  IInv'
  <1>1. /\ TypeOK /\ StoreInv /\ agent \in [Leases -> Agent] /\ acked \in Steps
        /\ request \in [Requests -> Request] /\ faults \in 0..MaxFaults
        /\ 0 \in 0..MaxTries /\ 0 < MaxTries
    BY BoundsAssumption DEF IInv, TypeOK
  <1>2. AgentFrame /\ UNCHANGED <<request, acked>> /\ StoreInv'
    BY <1>1, StoreUnchanged DEF EnterNode, FinishWork, GiveUp, ContainerDies
  <1>3. CASE EnterNode(v)
    <2>1. /\ agent[v].phase = "work" /\ agent[v].step + 1 \in Steps /\ faults' = faults
          /\ agent' = [agent EXCEPT ![v] = [@ EXCEPT !.phase = "save", !.tries = 0,
                                              !.step = agent[v].step + 1]]
      BY <1>1, <1>3, BoundsAssumption DEF EnterNode, Agent, Steps
    <2>2. /\ agent' \in [Leases -> Agent] /\ agent'[v].tries < MaxTries
          /\ \A w \in Leases \ {v} : agent'[w] = agent[w]
      BY <1>1, <2>1 DEF Agent
    <2> QED BY <1>1, <1>2, <2>1, <2>2, AgentKeeps
  <1>4. CASE FinishWork(v)
    <2>1. /\ agent[v].phase = "work" /\ faults' = faults
          /\ agent' = [agent EXCEPT ![v] = [@ EXCEPT !.phase = "finish", !.tries = 0]]
      BY <1>4 DEF FinishWork
    <2>2. /\ agent' \in [Leases -> Agent] /\ agent'[v].tries < MaxTries
          /\ \A w \in Leases \ {v} : agent'[w] = agent[w]
      BY <1>1, <2>1 DEF Agent
    <2> QED BY <1>1, <1>2, <2>1, <2>2, AgentKeeps
  <1>5. CASE GiveUp(v)
    <2>1. Retry(v) /\ faults' \in 0..MaxFaults /\ agent[v].waits # None
      BY <1>1, <1>5, FaultType DEF GiveUp
    <2> QED BY <1>1, <1>2, <2>1, RetryEffect, AgentKeeps
  <1>6. CASE ContainerDies(v)
    <2>1. /\ agent[v].phase # "off" /\ faults' \in 0..MaxFaults
          /\ agent' = [agent EXCEPT ![v] = [@ EXCEPT !.phase = "stopped",
                                                     !.waits = None]]
      BY <1>1, <1>6, FaultType DEF ContainerDies
    <2>2. /\ agent' \in [Leases -> Agent] /\ agent'[v].phase \notin Calls
          /\ \A w \in Leases \ {v} : agent'[w] = agent[w]
      BY <1>1, <2>1 DEF Agent, Calls
    <2> QED BY <1>1, <1>2, <2>1, <2>2, AgentKeeps
  <1> QED BY <1>3, <1>4, <1>5, <1>6

(***************************************************************************)
(* The theorems.                                                           *)
(***************************************************************************)

LEMMA InitIInv == Init => IInv
  <1> SUFFICES ASSUME Init PROVE IInv
    OBVIOUS
  <1>1. /\ 0 \in 0..MaxLease /\ 0 \in 0..MaxTries /\ 0 \in Steps /\ 0 \in 0..MaxFaults
        /\ 0 < MaxTries /\ Null \in Pointer /\ Null.key = None
    BY BoundsAssumption, NullType DEF Steps
  <1>2. agent \in [Leases -> Agent]
    BY <1>1 DEF Init, Agent
  <1>3. request \in [Requests -> Request]
    BY <1>1 DEF Init, Request
  <1>4. TypeOK
    BY <1>1, <1>2, <1>3 DEF Init, TypeOK
  <1>5. TriesLeft /\ FutureOff
    BY <1>1 DEF Init, TriesLeft, FutureOff
  <1>6. StoreInv
    BY <1>1, NoneAssumption
       DEF Init, StoreInv, KeysArePast, NotSelf, StagedIsThere, CleanupIsOld,
           PointerIsReadable, HasObject, EndedRunHasNoCheckpoint
  <1> QED BY <1>4, <1>5, <1>6 DEF IInv

\* Only the first read of a save changes the history of late saves.
LEMMA LateType ==
  ASSUME TypeOK, NEW q \in Requests,
         \/ SaveStep(q) \/ LoadStep(q) \/ TerminalStep(q)
         \/ DeleteReplaced(q) \/ DeleteFails(q) \/ RequestDies(q)
  PROVE  late' \in BOOLEAN
  <1>1. late \in BOOLEAN
    BY DEF TypeOK
  <1>2. CASE SaveReads(q)
    BY <1>2, Zenon DEF SaveReads
  <1>3. CASE WorkerFrame
    BY <1>1, <1>3 DEF WorkerFrame
  <1>4. CASE SaveStep(q)
    BY <1>2, <1>3, <1>4
       DEF SaveStep, SavePuts, SavePutThrows, SaveUpdates, SaveUpdateThrows, SaveDiscards
  <1>5. CASE LoadStep(q)
    BY <1>3, <1>5 DEF LoadStep, LoadChecksLease, LoadReads, LoadGets
  <1>6. CASE TerminalStep(q)
    BY <1>3, <1>6
       DEF TerminalStep, CompleteChecksLease, CompleteReads, CompleteCommits,
           CompleteThrows, TransitionReads, TransitionCommits
  <1>7. CASE DeleteReplaced(q) \/ DeleteFails(q) \/ RequestDies(q)
    BY <1>3, <1>7 DEF DeleteReplaced, DeleteFails, RequestDies
  <1> QED BY <1>4, <1>5, <1>6, <1>7

LEMMA NextIInv == IInv /\ [Next]_vars => IInv'
  <1> SUFFICES ASSUME IInv, [Next]_vars PROVE IInv'
    OBVIOUS
  <1>1. CASE RunNext
    BY <1>1, RunKeeps
  <1>2. CASE AgentNext
    BY <1>2, SendKeeps, ReceiveKeeps, WorkKeeps DEF AgentNext
  <1>3. CASE RequestNext
    <2>1. PICK q \in Requests :
            \/ SaveStep(q) \/ LoadStep(q) \/ TerminalStep(q)
            \/ DeleteReplaced(q) \/ DeleteFails(q) \/ RequestDies(q)
      BY <1>3 DEF RequestNext
    <2>2. Kept(q)
      BY <2>1, SaveKeeps, LoadKeeps, TerminalKeeps, CleanupKeeps
    <2>3. late' \in BOOLEAN
      BY <2>1, LateType DEF IInv
    <2> QED BY <2>2, <2>3, KeptIsEnough
  <1>4. CASE UNCHANGED vars
    BY <1>4 DEF vars, IInv, TypeOK, TriesLeft, FutureOff, StoreInv, KeysArePast,
                NotSelf, StagedIsThere, CleanupIsOld, PointerIsReadable, HasObject,
                EndedRunHasNoCheckpoint
  <1> QED BY <1>1, <1>2, <1>3, <1>4 DEF Next

\* Every variable of the checkpoint store keeps its type.
THEOREM StoreTypeCorrect == Spec => []TypeOK
  BY InitIInv, NextIInv, PTL DEF Spec, IInv

\* The pointer of the row never dangles, whatever saves, late saves, discards,
\* takeovers and terminal cleanups race it (handleEngineCheckpointSave,
\* handleCompleteRun, transitionRunTerminalAtomically).
THEOREM PointerReadable == Spec => []PointerIsReadable
  <1>1. IInv => PointerIsReadable
    BY DEF IInv, StoreInv
  <1> QED BY <1>1, InitIInv, NextIInv, PTL DEF Spec

\* A finished run keeps no checkpoint, and no save that was under way revives it.
THEOREM EndedRunIsClear == Spec => []EndedRunHasNoCheckpoint
  <1>1. IInv => EndedRunHasNoCheckpoint
    BY DEF IInv, StoreInv
  <1> QED BY <1>1, InitIInv, NextIInv, PTL DEF Spec

(***************************************************************************)
(* Garbage.  An object is accounted for while the row points at it or a      *)
(* request under way will swap it in or delete it.  Only a fault takes an    *)
(* object out of this account, and then a single one.                       *)
(***************************************************************************)

\* The objects that the request will still swap in or delete.
Owns(q) ==
    {o \in objects :
        \/ o = q /\ request[q].large /\ request[q].pc \in {"update", "discard"}
        \/ o = request[q].seen.key /\ request[q].pc = "cleanup"}

Unowned(q) == (objects \ {pointer.key}) \ Owns(q)

Garbage ==
    {o \in objects : o # pointer.key /\ \A q \in Requests : o \notin Owns(q)}

\* Only a large checkpoint is put.
PutsLarge(q) == request[q].pc = "put" => request[q].large

GarbageInv ==
    /\ IsFiniteSet(objects) /\ Cardinality(Garbage) <= faults
    /\ \A q \in Requests : PutsLarge(q)

\* A set of at most n elements that loses some and gains at most one.
LEMMA CountStep ==
  ASSUME NEW S, NEW T, NEW x, NEW n \in Nat, IsFiniteSet(S), Cardinality(S) <= n
  PROVE  /\ T \subseteq S => Cardinality(T) <= n
         /\ T \subseteq S \cup {x} => Cardinality(T) <= n + 1
  <1>1. Cardinality(S) \in Nat
    BY FS_CardinalityType
  <1>2. ASSUME T \subseteq S PROVE Cardinality(T) <= n
    <2>1. T \in SUBSET S
      BY <1>2
    <2>2. IsFiniteSet(T) /\ Cardinality(T) <= Cardinality(S)
      BY <2>1, FS_Subset
    <2>3. Cardinality(T) \in Nat
      BY <2>2, FS_CardinalityType
    <2> QED BY <1>1, <2>2, <2>3
  <1>3. ASSUME T \subseteq S \cup {x} PROVE Cardinality(T) <= n + 1
    <2>1. /\ IsFiniteSet(S \cup {x})
          /\ Cardinality(S \cup {x}) = IF x \in S THEN Cardinality(S)
                                                  ELSE Cardinality(S) + 1
      BY FS_AddElement
    <2>2. T \in SUBSET (S \cup {x})
      BY <1>3
    <2>3. IsFiniteSet(T) /\ Cardinality(T) <= Cardinality(S \cup {x})
      BY <2>1, <2>2, FS_Subset
    <2>4. Cardinality(T) \in Nat
      BY <2>3, FS_CardinalityType
    <2> QED BY <1>1, <2>1, <2>3, <2>4
  <1> QED BY <1>2, <1>3

\* What the step of one request may do to the account.
Accounts(q) ==
    /\ \A p \in Requests \ {q} : request'[p] = request[p]
    /\ objects' \subseteq objects \cup {q}
    /\ PutsLarge(q)'
    /\ \/ faults' = faults /\ Unowned(q)' \subseteq Unowned(q)
       \/ /\ faults' = faults + 1
          /\ \E x : Unowned(q)' \subseteq Unowned(q) \cup {x}

LEMMA AccountStep ==
  ASSUME TypeOK, GarbageInv, NEW q \in Requests, Accounts(q)
  PROVE  GarbageInv'
  <1>1. IsFiniteSet(objects \cup {q}) /\ objects' \in SUBSET (objects \cup {q})
    BY FS_AddElement DEF GarbageInv, Accounts
  <1>2. IsFiniteSet(objects')
    BY <1>1, FS_Subset
  <1>3. Garbage \in SUBSET objects /\ faults \in Nat
    BY DEF Garbage, TypeOK
  <1>4. IsFiniteSet(Garbage)
    BY <1>3, FS_Subset DEF GarbageInv
  <1>5. ASSUME NEW X, Unowned(q)' \subseteq Unowned(q) \cup X
        PROVE  Garbage' \subseteq Garbage \cup X
    <2> SUFFICES ASSUME NEW o \in Garbage', o \notin X
                 PROVE  o \in Garbage
      OBVIOUS
    <2>1. o \in Unowned(q)'
      BY DEF Garbage, Unowned
    <2>2. o \in Unowned(q)
      BY <1>5, <2>1
    <2>3. ASSUME NEW p \in Requests \ {q} PROVE o \notin Owns(p)
      <3>1. o \notin Owns(p)' /\ o \in objects'
        BY DEF Garbage
      <3>2. request'[p] = request[p]
        BY DEF Accounts
      <3> QED BY <3>1, <3>2 DEF Owns
    <2> QED BY <2>2, <2>3 DEF Garbage, Unowned
  <1>6. \A p \in Requests : PutsLarge(p)'
    BY DEF Accounts, GarbageInv, PutsLarge
  <1>7. CASE faults' = faults /\ Unowned(q)' \subseteq Unowned(q)
    <2>1. Unowned(q)' \subseteq Unowned(q) \cup {}
      BY <1>7
    <2>2. Garbage' \subseteq Garbage
      BY <1>5, <2>1
    <2> QED BY <1>2, <1>3, <1>4, <1>7, <1>6, <2>2, CountStep DEF GarbageInv
  <1>8. CASE /\ faults' = faults + 1
             /\ \E x : Unowned(q)' \subseteq Unowned(q) \cup {x}
    <2>1. PICK x : Unowned(q)' \subseteq Unowned(q) \cup {x}
      BY <1>8
    <2>2. Garbage' \subseteq Garbage \cup {x}
      BY <1>5, <2>1
    <2> QED BY <1>2, <1>3, <1>4, <1>8, <1>6, <2>2, CountStep DEF GarbageInv
  <1> QED BY <1>7, <1>8 DEF Accounts

\* A step that leaves the row and the bucket alone: the request keeps what it
\* owns, or loses its one object to a fault.
LEMMA IdleAccounts ==
  ASSUME NEW q \in Requests, UNCHANGED <<pointer, objects>>,
         \A p \in Requests \ {q} : request'[p] = request[p], PutsLarge(q)',
         \/ faults' = faults /\ Owns(q) \subseteq Owns(q)'
         \/ faults' = faults + 1
  PROVE  Accounts(q)
  <1>1. CASE faults' = faults /\ Owns(q) \subseteq Owns(q)'
    BY <1>1 DEF Accounts, Unowned
  <1>2. CASE faults' = faults + 1
    <2> DEFINE x == IF request[q].pc = "cleanup" THEN request[q].seen.key ELSE q
    <2>1. Owns(q) \subseteq {x}
      BY DEF Owns
    <2>2. Unowned(q)' \subseteq Unowned(q) \cup {x}
      BY <2>1 DEF Unowned
    <2> QED BY <1>2, <2>2 DEF Accounts
  <1> QED BY <1>1, <1>2

LEMMA SaveAccounts ==
  ASSUME IInv, GarbageInv, NEW q \in Requests, SaveStep(q)
  PROVE  Accounts(q)
  <1>1. /\ TypeOK /\ PutsLarge(q) /\ objects \subseteq Requests /\ faults \in Nat
        /\ None \notin Requests
    BY NoneAssumption DEF IInv, TypeOK, GarbageInv
  <1>2. CASE SaveReads(q)
    <2>1. /\ request[q].pc = "sent" /\ UNCHANGED <<pointer, objects, faults>>
          /\ \/ See(q, IF request[q].large THEN "put" ELSE "update")
             \/ Answer(q, "lost")
      BY <1>2 DEF SaveReads
    <2>2. Owns(q) = {}
      BY <2>1 DEF Owns
    <2>3. /\ \A p \in Requests \ {q} : request'[p] = request[p]
          /\ PutsLarge(q)'
      <3>1. CASE request[q].large /\ See(q, "put")
        BY <1>1, <3>1, SeeEffect DEF PutsLarge
      <3>2. CASE ~request[q].large /\ See(q, "update")
        BY <1>1, <3>2, SeeEffect DEF PutsLarge
      <3>3. CASE Answer(q, "lost")
        BY <1>1, <3>3, AnswerEffect DEF PutsLarge
      <3> QED BY <2>1, <3>1, <3>2, <3>3
    <2> QED BY <2>1, <2>2, <2>3, IdleAccounts
  <1>3. CASE SavePuts(q)
    <2>1. /\ request[q].pc = "put" /\ request[q].large /\ objects' = objects \cup {q}
          /\ UNCHANGED <<pointer, faults>> /\ Goto(q, "update")
      BY <1>1, <1>3 DEF SavePuts, PutsLarge
    <2>2. /\ request'[q].pc = "update" /\ request'[q].large
          /\ \A p \in Requests \ {q} : request'[p] = request[p]
      BY <1>1, <2>1, GotoEffect
    <2>3. Unowned(q)' \subseteq Unowned(q)
      BY <2>1, <2>2 DEF Unowned, Owns
    <2> QED BY <2>1, <2>2, <2>3 DEF Accounts, PutsLarge
  <1>4. CASE SavePutThrows(q)
    <2>1. /\ request[q].pc = "put" /\ objects' \subseteq objects \cup {q}
          /\ pointer' = pointer /\ faults' = faults + 1 /\ Answer(q, "error")
      BY <1>4 DEF SavePutThrows, Fault
    <2>2. /\ request'[q].pc = "done"
          /\ \A p \in Requests \ {q} : request'[p] = request[p]
      BY <1>1, <2>1, AnswerEffect
    <2>3. Unowned(q)' \subseteq Unowned(q) \cup {q}
      BY <2>1, <2>2 DEF Unowned, Owns
    <2> QED BY <2>1, <2>2, <2>3 DEF Accounts, PutsLarge
  <1>5. CASE SaveUpdates(q) /\ CanSwap(q)
    <2>1. /\ request[q].pc = "update" /\ pointer' = Stored(q)
          /\ pointer = request[q].seen /\ UNCHANGED <<objects, faults>>
          /\ \/ request[q].seen.key # None /\ Goto(q, "cleanup")
             \/ request[q].seen.key = None /\ Answer(q, "ok")
      BY <1>5 DEF SaveUpdates, CanSwap, HasObject
    <2>2. pointer'.key = IF request[q].large THEN q ELSE None
      BY <1>1, <2>1, StoredType
    <2>3. /\ request'[q].pc \in Past /\ request'[q].seen = pointer
          /\ pointer.key # None => request'[q].pc = "cleanup"
          /\ \A p \in Requests \ {q} : request'[p] = request[p]
      <3>1. CASE request[q].seen.key # None /\ Goto(q, "cleanup")
        BY <1>1, <2>1, <3>1, GotoEffect DEF Past
      <3>2. CASE request[q].seen.key = None /\ Answer(q, "ok")
        BY <1>1, <2>1, <3>2, AnswerEffect DEF Past
      <3> QED BY <2>1, <3>1, <3>2
    <2>4. ASSUME NEW o \in Unowned(q)' PROVE o \in Unowned(q)
      <3>1. o \in objects /\ o # pointer'.key /\ o \notin Owns(q)' /\ o # None
        BY <1>1, <2>1, <2>4 DEF Unowned
      <3>2. o # pointer.key
        BY <2>1, <2>3, <3>1 DEF Owns
      <3>3. o \notin Owns(q)
        BY <2>1, <2>2, <3>1 DEF Owns
      <3> QED BY <3>1, <3>2, <3>3 DEF Unowned
    <2> QED BY <2>1, <2>3, <2>4 DEF Accounts, PutsLarge, Past
  <1>6. CASE SaveUpdates(q) /\ ~CanSwap(q)
    <2>1. /\ request[q].pc = "update" /\ UNCHANGED <<pointer, objects, faults>>
          /\ \/ request[q].large /\ Goto(q, "discard")
             \/ ~request[q].large /\ Answer(q, "lost")
      BY <1>6 DEF SaveUpdates
    <2>2. CASE request[q].large /\ Goto(q, "discard")
      <3>1. /\ request'[q].pc = "discard" /\ request'[q].large
            /\ \A p \in Requests \ {q} : request'[p] = request[p]
        BY <1>1, <2>2, GotoEffect
      <3>2. Owns(q) \subseteq Owns(q)'
        BY <2>1, <3>1 DEF Owns
      <3> QED BY <2>1, <3>1, <3>2, IdleAccounts DEF PutsLarge
    <2>3. CASE ~request[q].large /\ Answer(q, "lost")
      <3>1. /\ request'[q].pc = "done"
            /\ \A p \in Requests \ {q} : request'[p] = request[p]
        BY <1>1, <2>3, AnswerEffect
      <3>2. Owns(q) \subseteq Owns(q)'
        BY <2>1, <2>3 DEF Owns
      <3> QED BY <2>1, <3>1, <3>2, IdleAccounts DEF PutsLarge
    <2> QED BY <2>1, <2>2, <2>3
  <1>7. CASE SaveUpdateThrows(q)
    <2>1. /\ request[q].pc = "update" /\ objects' = objects /\ faults' = faults + 1
          /\ Answer(q, "error") /\ pointer' \in {pointer, Stored(q)}
      BY <1>7 DEF SaveUpdateThrows, Fault
    <2>2. /\ request'[q].pc = "done"
          /\ \A p \in Requests \ {q} : request'[p] = request[p]
      BY <1>1, <2>1, AnswerEffect
    <2>3. CASE pointer' = pointer
      BY <2>1, <2>2, <2>3, IdleAccounts DEF PutsLarge
    <2>4. CASE pointer' = Stored(q)
      <3>1. pointer'.key = IF request[q].large THEN q ELSE None
        BY <1>1, <2>4, StoredType
      <3>2. Unowned(q)' \subseteq Unowned(q) \cup {pointer.key}
        BY <2>1, <3>1 DEF Unowned, Owns
      <3> QED BY <2>1, <2>2, <3>2 DEF Accounts, PutsLarge
    <2> QED BY <2>1, <2>3, <2>4
  <1>8. CASE SaveDiscards(q)
    <2>1. /\ request[q].pc = "discard" /\ objects' = objects \ {q}
          /\ UNCHANGED <<pointer, faults>> /\ Answer(q, "lost")
      BY <1>8 DEF SaveDiscards
    <2>2. /\ request'[q].pc = "done"
          /\ \A p \in Requests \ {q} : request'[p] = request[p]
      BY <1>1, <2>1, AnswerEffect
    <2>3. Unowned(q)' \subseteq Unowned(q)
      BY <2>1 DEF Unowned, Owns
    <2> QED BY <2>1, <2>2, <2>3 DEF Accounts, PutsLarge
  <1> QED BY <1>2, <1>3, <1>4, <1>5, <1>6, <1>7, <1>8 DEF SaveStep

\* A request that owns nothing, in a step that leaves row and bucket alone.
LEMMA EmptyAccounts ==
  ASSUME TypeOK, NEW q \in Requests, UNCHANGED <<pointer, objects>>,
         request[q].pc \notin {"put", "update", "discard", "cleanup"},
         faults' = faults \/ faults' = faults + 1,
         \/ \E pc \in {"read", "get", "commit"} : Goto(q, pc)
         \/ \E a \in {"ok", "fatal", "lost", "error"} : Answer(q, a)
         \/ \E st \in Steps : Loaded(q, st)
         \/ \E pc \in {"read", "get", "commit"} : See(q, pc)
  PROVE  Accounts(q)
  <1>1. Owns(q) = {}
    BY DEF Owns
  <1>2. /\ \A p \in Requests \ {q} : request'[p] = request[p]
        /\ PutsLarge(q)'
    <2>1. CASE \E pc \in {"read", "get", "commit"} : Goto(q, pc)
      <3>1. PICK pc \in {"read", "get", "commit"} : Goto(q, pc)
        BY <2>1
      <3> QED BY <3>1, GotoEffect DEF PutsLarge
    <2>2. CASE \E a \in {"ok", "fatal", "lost", "error"} : Answer(q, a)
      <3>1. PICK a \in {"ok", "fatal", "lost", "error"} : Answer(q, a)
        BY <2>2
      <3> QED BY <3>1, AnswerEffect DEF PutsLarge
    <2>3. CASE \E st \in Steps : Loaded(q, st)
      <3>1. PICK st \in Steps : Loaded(q, st)
        BY <2>3
      <3> QED BY <3>1, LoadedEffect DEF PutsLarge
    <2>4. CASE \E pc \in {"read", "get", "commit"} : See(q, pc)
      <3>1. PICK pc \in {"read", "get", "commit"} : See(q, pc)
        BY <2>4
      <3> QED BY <3>1, SeeEffect DEF PutsLarge
    <2> QED BY <2>1, <2>2, <2>3, <2>4
  <1> QED BY <1>1, <1>2, IdleAccounts

LEMMA LoadAccounts ==
  ASSUME IInv, NEW q \in Requests, LoadStep(q)
  PROVE  Accounts(q)
  <1>1. /\ TypeOK /\ pointer.step \in Steps /\ request[q].seen.step \in Steps
    BY DEF IInv, TypeOK, Pointer, Request
  <1>2. /\ UNCHANGED <<pointer, objects, faults>>
        /\ request[q].pc \notin {"put", "update", "discard", "cleanup"}
    BY DEF LoadStep, LoadChecksLease, LoadReads, LoadGets
  <1>3. \/ \E pc \in {"read", "get", "commit"} : Goto(q, pc)
        \/ \E a \in {"ok", "fatal", "lost", "error"} : Answer(q, a)
        \/ \E st \in Steps : Loaded(q, st)
        \/ \E pc \in {"read", "get", "commit"} : See(q, pc)
    BY <1>1 DEF LoadStep, LoadChecksLease, LoadReads, LoadGets
  <1> QED BY <1>1, <1>2, <1>3, EmptyAccounts

\* The terminal transaction hands the object of the cleared pointer to the
\* request that cleans it up, or loses it to a fault.
LEMMA ClearAccounts ==
  ASSUME IInv, NEW q \in Requests, request[q].pc = "commit", pointer' = Null,
         pointer = request[q].seen \/ pointer = Null, objects' = objects,
         \/ faults' = faults /\ CleanUpOrAnswer(q)
         \/ faults' = faults + 1 /\ Answer(q, "error")
  PROVE  Accounts(q)
  <1>1. /\ TypeOK /\ None \notin objects /\ pointer'.key = None
    BY NoneAssumption, NullType DEF IInv, TypeOK
  <1>2. Owns(q) = {} /\ Unowned(q) = objects \ {pointer.key}
    BY DEF Owns, Unowned
  <1>3. CASE faults' = faults /\ CleanUpOrAnswer(q)
    <2>1. CASE request[q].seen.key # None /\ Goto(q, "cleanup")
      <3>1. /\ request'[q].pc = "cleanup" /\ request'[q].seen = request[q].seen
            /\ \A p \in Requests \ {q} : request'[p] = request[p]
        BY <1>1, <2>1, GotoEffect
      <3>2. pointer.key = request'[q].seen.key \/ pointer.key = None
        BY <3>1, NullType
      <3>3. Unowned(q)' \subseteq Unowned(q)
        BY <1>1, <1>2, <3>1, <3>2 DEF Unowned, Owns
      <3> QED BY <1>3, <3>1, <3>3 DEF Accounts, PutsLarge
    <2>2. CASE request[q].seen.key = None /\ Answer(q, "ok")
      <3>1. /\ request'[q].pc = "done"
            /\ \A p \in Requests \ {q} : request'[p] = request[p]
        BY <1>1, <2>2, AnswerEffect
      <3>2. pointer.key = None
        BY <2>2, NullType
      <3>3. Unowned(q)' \subseteq Unowned(q)
        BY <1>1, <1>2, <3>2 DEF Unowned
      <3> QED BY <1>3, <3>1, <3>3 DEF Accounts, PutsLarge
    <2> QED BY <1>3, <2>1, <2>2 DEF CleanUpOrAnswer, HasObject
  <1>4. CASE faults' = faults + 1 /\ Answer(q, "error")
    <2>1. /\ request'[q].pc = "done"
          /\ \A p \in Requests \ {q} : request'[p] = request[p]
      BY <1>1, <1>4, AnswerEffect
    <2>2. Unowned(q)' \subseteq Unowned(q) \cup {pointer.key}
      BY <1>2 DEF Unowned
    <2> QED BY <1>4, <2>1, <2>2 DEF Accounts, PutsLarge
  <1> QED BY <1>3, <1>4

LEMMA TransitionReadsEffect ==
  ASSUME TypeOK, NEW q \in Requests, TransitionReads(q)
  PROVE  /\ request' \in [Requests -> Request] /\ request[q].pc = "new"
         /\ request'[q].pc = "commit" /\ request'[q].kind = "cancel"
         /\ \A p \in Requests \ {q} : request'[p] = request[p]
  <1>1. /\ request \in [Requests -> Request] /\ pointer \in Pointer
        /\ request[q].pc = "new"
        /\ request' = [request EXCEPT ![q] = [@ EXCEPT !.kind = "cancel",
                                                       !.pc = "commit",
                                                       !.seen = pointer]]
    BY DEF TransitionReads, TypeOK
  <1> QED BY <1>1, ZenonT(60) DEF Request

LEMMA TerminalAccounts ==
  ASSUME IInv, NEW q \in Requests, TerminalStep(q)
  PROVE  Accounts(q)
  <1>1. TypeOK
    BY DEF IInv
  <1>2. CASE CompleteChecksLease(q)
    <2>1. /\ UNCHANGED <<pointer, objects, faults>> /\ request[q].pc = "sent"
          /\ Goto(q, "read") \/ Answer(q, "lost")
      BY <1>2 DEF CompleteChecksLease
    <2> QED BY <1>1, <2>1, EmptyAccounts
  <1>3. CASE CompleteReads(q)
    <2>1. /\ UNCHANGED <<pointer, objects, faults>> /\ request[q].pc = "read"
          /\ See(q, "commit")
      BY <1>3 DEF CompleteReads
    <2> QED BY <1>1, <2>1, EmptyAccounts
  <1>4. CASE CompleteCommits(q)
    <2>1. request[q].pc = "commit" /\ UNCHANGED <<objects, faults>>
      BY <1>4 DEF CompleteCommits
    <2>2. CASE CanSwap(q)
      BY <1>4, <2>1, <2>2, ClearAccounts DEF CompleteCommits, CanSwap
    <2>3. CASE ~CanSwap(q) /\ status = "ended" /\ CleanUpOrAnswer(q)
      <3>1. pointer = Null /\ pointer' = Null
        BY <1>4, <2>3 DEF CompleteCommits, IInv, StoreInv, EndedRunHasNoCheckpoint
      <3> QED BY <2>1, <2>3, <3>1, ClearAccounts
    <2>4. CASE ~CanSwap(q) /\ Answer(q, "lost")
      <3>1. pointer' = pointer
        BY <1>4, <2>4 DEF CompleteCommits
      <3> QED BY <1>1, <2>1, <2>4, <3>1, EmptyAccounts
    <2> QED BY <1>4, <2>2, <2>3, <2>4 DEF CompleteCommits
  <1>5. CASE CompleteThrows(q)
    <2>1. /\ request[q].pc = "commit" /\ objects' = objects
          /\ faults' = faults + 1 /\ Answer(q, "error")
          /\ (CanSwap(q) /\ pointer' = Null) \/ pointer' = pointer
      BY <1>5 DEF CompleteThrows, Fault
    <2>2. CASE CanSwap(q) /\ pointer' = Null
      BY <2>1, <2>2, ClearAccounts DEF CanSwap
    <2>3. CASE pointer' = pointer
      BY <1>1, <2>1, <2>3, EmptyAccounts
    <2> QED BY <2>1, <2>2, <2>3
  <1>6. CASE TransitionReads(q)
    <2>1. UNCHANGED <<pointer, objects, faults>> /\ Owns(q) = {}
      BY <1>1, <1>6, TransitionReadsEffect DEF TransitionReads, Owns
    <2> QED BY <1>1, <1>6, <2>1, TransitionReadsEffect, IdleAccounts DEF PutsLarge
  <1>7. CASE TransitionCommits(q)
    <2>1. /\ request[q].pc = "commit" /\ UNCHANGED <<objects, faults>>
          /\ \/ pointer = request[q].seen /\ pointer' = Null /\ CleanUpOrAnswer(q)
             \/ pointer' = pointer /\ Answer(q, "lost")
      BY <1>7 DEF TransitionCommits
    <2>2. CASE pointer = request[q].seen /\ pointer' = Null /\ CleanUpOrAnswer(q)
      BY <2>1, <2>2, ClearAccounts
    <2>3. CASE pointer' = pointer /\ Answer(q, "lost")
      BY <1>1, <2>1, <2>3, EmptyAccounts
    <2> QED BY <2>1, <2>2, <2>3
  <1> QED BY <1>2, <1>3, <1>4, <1>5, <1>6, <1>7 DEF TerminalStep

LEMMA CleanupAccounts ==
  ASSUME IInv, NEW q \in Requests,
         DeleteReplaced(q) \/ DeleteFails(q) \/ RequestDies(q)
  PROVE  Accounts(q)
  <1>1. TypeOK
    BY DEF IInv
  <1>2. PICK a \in {"ok", "lost", "error"} : Answer(q, a)
    BY DEF DeleteReplaced, DeleteFails, RequestDies
  <1>3. /\ request'[q].pc = "done"
        /\ \A p \in Requests \ {q} : request'[p] = request[p]
    BY <1>1, <1>2, AnswerEffect
  <1>4. CASE DeleteReplaced(q)
    <2>1. /\ request[q].pc = "cleanup" /\ UNCHANGED <<pointer, faults>>
          /\ objects' = objects \ {request[q].seen.key}
      BY <1>4 DEF DeleteReplaced
    <2>2. Unowned(q)' \subseteq Unowned(q)
      BY <2>1 DEF Unowned, Owns
    <2> QED BY <1>3, <2>1, <2>2 DEF Accounts, PutsLarge
  <1>5. CASE DeleteFails(q) \/ RequestDies(q)
    <2>1. UNCHANGED <<pointer, objects>> /\ faults' = faults + 1
      BY <1>5 DEF DeleteFails, RequestDies, Fault
    <2> QED BY <1>3, <2>1, IdleAccounts DEF PutsLarge
  <1> QED BY <1>4, <1>5

LEMMA SendEffect ==
  ASSUME TypeOK, NEW v \in Leases, NEW q \in Requests, Send(v, q)
  PROVE  /\ request[q].pc = "new" /\ request'[q].pc = "sent"
         /\ request'[q].kind = agent[v].phase /\ request'[q].lease = v
         /\ request'[q].step = agent[v].step
         /\ \A p \in Requests \ {q} : request'[p] = request[p]
  <1>1. PICK large \in BOOLEAN :
          request' = [request EXCEPT ![q] = [@ EXCEPT
                       !.kind = agent[v].phase, !.pc = "sent", !.lease = v,
                       !.step = agent[v].step,
                       !.large = large /\ agent[v].phase = "save"]]
    BY DEF Send
  <1>2. request \in [Requests -> Request] /\ request[q].pc = "new"
    BY DEF TypeOK, Send
  <1> QED BY <1>1, <1>2, ZenonT(60) DEF Request

LEMMA NextGarbageInv == IInv /\ GarbageInv /\ [Next]_vars => GarbageInv'
  <1> SUFFICES ASSUME IInv, GarbageInv, [Next]_vars PROVE GarbageInv'
    OBVIOUS
  <1>1. TypeOK /\ faults \in Nat
    BY DEF IInv, TypeOK
  <1>2. ASSUME UNCHANGED <<pointer, objects, request>>,
               faults' = faults \/ faults' = faults + 1
        PROVE  GarbageInv'
    <2>1. Garbage' = Garbage
      BY <1>2 DEF Garbage, Owns
    <2>2. IsFiniteSet(Garbage)
      <3>1. Garbage \in SUBSET objects
        BY DEF Garbage
      <3> QED BY <3>1, FS_Subset DEF GarbageInv
    <2>3. Cardinality(Garbage) \in Nat
      BY <2>2, FS_CardinalityType
    <2> QED BY <1>1, <1>2, <2>1, <2>3 DEF GarbageInv, PutsLarge
  <1>3. CASE RunNext
    BY <1>2, <1>3 DEF RunNext, Claim, Release
  <1>4. CASE AgentNext
    <2>1. PICK v \in Leases :
            \/ \E q \in Requests : Send(v, q)
            \/ EnterNode(v) \/ FinishWork(v) \/ Receive(v) \/ GiveUp(v)
            \/ ContainerDies(v)
      BY <1>4 DEF AgentNext
    <2>2. ASSUME NEW q \in Requests, Send(v, q) PROVE GarbageInv'
      <3>1. UNCHANGED <<pointer, objects, faults>>
        BY <2>2 DEF Send, AgentFrame
      <3>2. /\ request[q].pc = "new" /\ request'[q].pc = "sent"
            /\ \A p \in Requests \ {q} : request'[p] = request[p]
        BY <1>1, <2>2, SendEffect
      <3>3. Owns(q) = {} /\ PutsLarge(q)'
        BY <3>2 DEF Owns, PutsLarge
      <3> QED BY <1>1, <3>1, <3>2, <3>3, IdleAccounts, AccountStep
    <2>3. CASE EnterNode(v) \/ FinishWork(v) \/ Receive(v) \/ GiveUp(v)
               \/ ContainerDies(v)
      BY <1>2, <2>3
         DEF EnterNode, FinishWork, Receive, GiveUp, ContainerDies, AgentFrame, Fault
    <2> QED BY <2>1, <2>2, <2>3
  <1>5. CASE RequestNext
    <2>1. PICK q \in Requests :
            \/ SaveStep(q) \/ LoadStep(q) \/ TerminalStep(q)
            \/ DeleteReplaced(q) \/ DeleteFails(q) \/ RequestDies(q)
      BY <1>5 DEF RequestNext
    <2>2. Accounts(q)
      BY <2>1, SaveAccounts, LoadAccounts, TerminalAccounts, CleanupAccounts
    <2> QED BY <1>1, <2>2, AccountStep
  <1>6. CASE UNCHANGED vars
    BY <1>2, <1>6 DEF vars
  <1> QED BY <1>3, <1>4, <1>5, <1>6 DEF Next

LEMMA InitGarbageInv == Init => GarbageInv
  <1> SUFFICES ASSUME Init PROVE GarbageInv
    OBVIOUS
  <1>1. objects = {} /\ Garbage = {} /\ faults = 0
    BY DEF Init, Garbage
  <1>2. \A q \in Requests : PutsLarge(q)
    BY DEF Init, PutsLarge
  <1> QED BY <1>1, <1>2, FS_EmptySet DEF GarbageInv

\* Once no request is under way, the bucket holds at most one object besides the
\* one pointed at for each fault so far, for any number of requests and leases:
\* without a fault the saves, discards and terminal cleanups leave nothing behind
\* (handleEngineCheckpointSave, handleCompleteRun).
THEOREM GarbageBounded == Spec => []GarbageIsBounded
  <1>1. GarbageInv => GarbageIsBounded
    <2> SUFFICES ASSUME GarbageInv, Idle
                 PROVE  Cardinality(objects \ {pointer.key}) <= faults
      BY DEF GarbageIsBounded
    <2>1. \A q \in Requests : Owns(q) = {}
      BY DEF Idle, Owns
    <2>2. Garbage = objects \ {pointer.key}
      BY <2>1 DEF Garbage
    <2> QED BY <2>2 DEF GarbageInv
  <1> QED BY <1>1, InitIInv, NextIInv, InitGarbageInv, NextGarbageInv, PTL DEF Spec

(***************************************************************************)
(* Acknowledged steps.  The container of the newest lease is never behind    *)
(* the pointer: it resumed at the pointer, which only its own saves have      *)
(* moved since.  So a save that its container still waits for at the first   *)
(* read has read a pointer that is not ahead of it, and its compare and swap *)
(* replaces exactly that pointer: no swap takes the pointer back, and the     *)
(* step of an acknowledged save stays covered.                              *)
(***************************************************************************)

PcFitsKind(q) ==
    /\ request[q].pc \in {"put", "update", "discard"} => request[q].kind = "save"
    /\ request[q].pc = "get" => request[q].kind = "load"
    /\ request[q].pc = "cleanup" => request[q].kind # "load"

SenderIsOn(q) ==
    request[q].kind \in Calls =>
        request[q].lease \in Leases /\ agent[request[q].lease].phase # "off"

\* A container saves only after it has loaded, and its later saves are not
\* behind its earlier ones.
SaveFollowsLoad(q) ==
    request[q].kind = "save" =>
        /\ agent[request[q].lease].phase # "load"
        /\ agent[request[q].lease].phase \in {"work", "save"} =>
             request[q].step <= agent[request[q].lease].step

\* What the newest container is about to resume at is not behind the pointer.
LoadIsCurrent(q) ==
    (/\ request[q].kind = "load" /\ request[q].lease = lease
     /\ agent[request[q].lease].phase = "load") =>
        /\ request[q].pc = "get" => pointer.step <= request[q].seen.step
        /\ request[q].pc = "done" /\ request[q].answer = "ok" =>
             pointer.step <= request[q].step

CallInv(q) == PcFitsKind(q) /\ SenderIsOn(q) /\ SaveFollowsLoad(q) /\ LoadIsCurrent(q)

\* A container waits for the call of its phase.
WaitsForOwn(v) ==
    agent[v].waits # None =>
        /\ agent[v].phase \in Calls
        /\ request[agent[v].waits].lease = v
        /\ request[agent[v].waits].kind = agent[v].phase
        /\ request[agent[v].waits].pc # "new"
        /\ agent[v].phase = "save" =>
             request[agent[v].waits].step = agent[v].step

NotBehind(v) ==
    v = lease /\ agent[v].phase \in {"work", "save"} => pointer.step <= agent[v].step

\* A save that is to swap replaces a pointer that is not ahead of it.
SwapsForward(q) ==
    request[q].pc \in {"put", "update"} => request[q].seen.step <= request[q].step

IsSaved(q) ==
    /\ request[q].kind = "save"
    /\ request[q].pc = "cleanup" \/ (request[q].pc = "done" /\ request[q].answer = "ok")

SavedIsCovered(q) ==
    IsSaved(q) => status = "ended" \/ request[q].step <= pointer.step

AckInv ==
    /\ \A q \in Requests : CallInv(q)
    /\ \A v \in Leases : WaitsForOwn(v) /\ NotBehind(v)
    /\ late \/ (/\ AckedStepIsKept
                /\ \A q \in Requests : SwapsForward(q) /\ SavedIsCovered(q))

\* How the step of one request may move the row.
RowMoves(q) ==
    \/ pointer' = pointer /\ status' = status
    \/ pointer'.step = 0 /\ status' = "ended"
    \/ /\ request[q].pc = "update" /\ request[q].lease = lease
       /\ request[q].seen = pointer /\ pointer'.step = request[q].step
       /\ status' = status

\* How the step of one request may move the request.
CallMoves(q) ==
    /\ request[q].pc # "new" => SameCall(q)
    /\ request[q].kind = "save" /\ request[q].pc # "new" =>
         request'[q].step = request[q].step
    /\ request[q].pc = "new" => request'[q].kind = "cancel"
    /\ request'[q].pc # "new"

Tracks(q) ==
    /\ WorkerTypes /\ Moved(q) /\ RowMoves(q) /\ CallMoves(q)
    /\ PcFitsKind(q)' /\ LoadIsCurrent(q)'
    /\ late => late'
    /\ late' \/ (SwapsForward(q)' /\ SavedIsCovered(q)')

LEMMA TracksIsEnough ==
  ASSUME IInv, AckInv, NEW q \in Requests, Tracks(q)
  PROVE  AckInv'
  <1>1. /\ UNCHANGED <<lease, agent, acked>> /\ pointer' \in Pointer
        /\ pointer \in Pointer
        /\ request \in [Requests -> Request] /\ request' \in [Requests -> Request]
        /\ lease \in 0..MaxLease /\ agent \in [Leases -> Agent] /\ acked \in Steps
    BY DEF Tracks, WorkerTypes, IInv, TypeOK, Moved
  <1>2. /\ \A p \in Requests \ {q} : request'[p] = request[p]
        /\ RowMoves(q) /\ CallMoves(q)
    BY DEF Tracks, Moved
  <1>3. /\ pointer.step \in Nat /\ pointer'.step \in Nat /\ acked \in Nat
        /\ \A p \in Requests : /\ request[p].step \in Nat /\ request'[p].step \in Nat
                               /\ request[p].seen.step \in Nat
        /\ \A v \in Leases : agent[v].step \in Nat
    BY <1>1, BoundsAssumption DEF Pointer, Request, Agent, Steps
  <1>4. /\ \A p \in Requests : CallInv(p)
        /\ \A v \in Leases : WaitsForOwn(v) /\ NotBehind(v)
    BY DEF AckInv
  <1>5. \/ pointer'.step <= pointer.step
        \/ /\ request[q].kind = "save" /\ request[q].lease = lease /\ lease \in Leases
           /\ pointer'.step = request[q].step
    <2>1. CASE request[q].pc = "update"
      <3>1. request[q].kind = "save" /\ request[q].lease \in Leases
        BY <1>4, <2>1 DEF CallInv, PcFitsKind, SenderIsOn, Calls
      <3> QED BY <1>2, <1>3, <2>1, <3>1 DEF RowMoves
    <2>2. CASE request[q].pc # "update"
      BY <1>2, <1>3, <2>2 DEF RowMoves
    <2> QED BY <2>1, <2>2
  <1>6. ASSUME NEW v \in Leases PROVE NotBehind(v)'
    <2> SUFFICES ASSUME v = lease, agent[v].phase \in {"work", "save"}
                 PROVE  pointer'.step <= agent[v].step
      BY <1>1 DEF NotBehind
    <2>1. pointer.step <= agent[v].step
      BY <1>4 DEF NotBehind
    <2>2. CASE pointer'.step <= pointer.step
      BY <1>3, <2>1, <2>2
    <2>3. CASE request[q].kind = "save" /\ request[q].lease = lease
               /\ pointer'.step = request[q].step
      BY <1>4, <2>3 DEF CallInv, SaveFollowsLoad
    <2> QED BY <1>5, <2>2, <2>3
  <1>7. ASSUME NEW v \in Leases PROVE WaitsForOwn(v)'
    <2> SUFFICES ASSUME agent[v].waits # None PROVE WaitsForOwn(v)'
      BY <1>1 DEF WaitsForOwn
    <2>1. agent[v].waits \in Requests /\ WaitsForOwn(v)
      BY <1>1, <1>4 DEF Agent
    <2>2. CASE agent[v].waits # q
      BY <1>1, <1>2, <2>1, <2>2 DEF WaitsForOwn
    <2>3. CASE agent[v].waits = q
      <3>1. request[q].pc # "new"
        BY <2>1, <2>3 DEF WaitsForOwn
      <3>2. /\ request'[q].kind = request[q].kind
            /\ request'[q].lease = request[q].lease /\ request'[q].pc # "new"
            /\ request[q].kind = "save" => request'[q].step = request[q].step
        BY <1>2, <3>1 DEF CallMoves, SameCall
      <3> QED BY <1>1, <2>1, <2>3, <3>2 DEF WaitsForOwn
    <2> QED BY <2>2, <2>3
  <1>8. ASSUME NEW p \in Requests PROVE CallInv(p)'
    <2>1. CASE p = q
      <3>1. CASE request[q].pc = "new"
        <4>1. request'[q].kind = "cancel"
          BY <1>2, <3>1 DEF CallMoves
        <4> QED BY <2>1, <4>1
               DEF Tracks, CallInv, SenderIsOn, SaveFollowsLoad, Calls
      <3>2. CASE request[q].pc # "new"
        <4>1. /\ request'[q].kind = request[q].kind
              /\ request'[q].lease = request[q].lease
              /\ request[q].kind = "save" => request'[q].step = request[q].step
          BY <1>2, <3>2 DEF CallMoves, SameCall
        <4>2. SenderIsOn(q)' /\ SaveFollowsLoad(q)'
          BY <1>1, <1>4, <4>1 DEF CallInv, SenderIsOn, SaveFollowsLoad
        <4> QED BY <2>1, <4>2 DEF Tracks, CallInv
      <3> QED BY <3>1, <3>2
    <2>2. CASE p # q
      <3>1. request'[p] = request[p] /\ CallInv(p)
        BY <1>2, <1>4, <2>2
      <3>2. PcFitsKind(p)' /\ SenderIsOn(p)' /\ SaveFollowsLoad(p)'
        BY <1>1, <3>1 DEF CallInv, PcFitsKind, SenderIsOn, SaveFollowsLoad
      <3>3. LoadIsCurrent(p)'
        <4> SUFFICES ASSUME request[p].kind = "load", request[p].lease = lease,
                            agent[request[p].lease].phase = "load"
                     PROVE  LoadIsCurrent(p)'
          BY <1>1, <3>1 DEF LoadIsCurrent
        <4>1. pointer'.step <= pointer.step
          BY <1>4, <1>5 DEF CallInv, SaveFollowsLoad
        <4> QED BY <1>1, <1>3, <3>1, <4>1 DEF CallInv, LoadIsCurrent
      <3> QED BY <3>2, <3>3 DEF CallInv
    <2> QED BY <2>1, <2>2
  <1>9. CASE ~late'
    <2>1. /\ ~late /\ AckedStepIsKept /\ SwapsForward(q)' /\ SavedIsCovered(q)'
          /\ \A p \in Requests : SwapsForward(p) /\ SavedIsCovered(p)
      BY <1>9 DEF Tracks, AckInv
    <2>2. status' = "ended" \/ (status' = status /\ pointer.step <= pointer'.step)
      <3>1. request[q].pc = "update" => request[q].seen.step <= request[q].step
        BY <2>1 DEF SwapsForward
      <3> QED BY <1>2, <1>3, <3>1 DEF RowMoves
    <2>3. AckedStepIsKept'
      BY <1>1, <1>3, <2>1, <2>2 DEF AckedStepIsKept
    <2>4. ASSUME NEW p \in Requests PROVE SwapsForward(p)' /\ SavedIsCovered(p)'
      <3>1. CASE p = q
        BY <2>1, <3>1
      <3>2. CASE p # q
        <4>1. request'[p] = request[p] /\ SwapsForward(p) /\ SavedIsCovered(p)
          BY <1>2, <2>1, <3>2
        <4> QED BY <1>3, <2>2, <4>1 DEF SwapsForward, SavedIsCovered, IsSaved
      <3> QED BY <3>1, <3>2
    <2> QED BY <1>6, <1>7, <1>8, <2>3, <2>4 DEF AckInv
  <1>10. CASE late'
    BY <1>6, <1>7, <1>8, <1>10 DEF AckInv
  <1> QED BY <1>9, <1>10

\* A step after which the request neither swaps forward, nor has saved, nor has
\* loaded.
LEMMA PlainTracks ==
  ASSUME NEW q \in Requests, Kept(q), RowMoves(q), CallMoves(q), late => late',
         \/ request'[q].pc \in {"read", "commit"}
         \/ request'[q].pc = "discard" /\ request'[q].kind = "save"
         \/ request'[q].pc = "done" /\ request'[q].answer # "ok"
         \/ /\ request'[q].pc \in {"cleanup", "done"}
            /\ request'[q].kind \notin {"save", "load"}
  PROVE  Tracks(q)
  <1>1. WorkerTypes /\ Moved(q)
    BY DEF Kept
  <1>2. PcFitsKind(q)' /\ LoadIsCurrent(q)'
    BY DEF PcFitsKind, LoadIsCurrent
  <1>3. SwapsForward(q)' /\ SavedIsCovered(q)'
    BY DEF SwapsForward, SavedIsCovered, IsSaved
  <1> QED BY <1>1, <1>2, <1>3 DEF Tracks

\* The same for a request that gives up with an answer other than ok.
LEMMA FailTracks ==
  ASSUME IInv, NEW q \in Requests, Kept(q), RowMoves(q), late => late',
         request[q].pc # "new", \E a \in {"fatal", "lost", "error"} : Answer(q, a)
  PROVE  Tracks(q)
  <1>1. PICK a \in {"fatal", "lost", "error"} : Answer(q, a)
    OBVIOUS
  <1>2. /\ request'[q].pc = "done" /\ request'[q].answer # "ok" /\ SameCall(q)
        /\ request'[q].step = request[q].step
    BY <1>1, AnswerEffect DEF IInv
  <1>3. CallMoves(q)
    BY <1>2 DEF CallMoves
  <1> QED BY <1>2, <1>3, PlainTracks

LEMMA SaveTracks ==
  ASSUME IInv, AckInv, NEW q \in Requests, SaveStep(q)
  PROVE  Tracks(q)
  <1>1. /\ TypeOK /\ Kept(q) /\ WorkerTypes /\ Moved(q)
    BY SaveKeeps DEF IInv, Kept
  <1>2. CallInv(q) /\ (late \/ (SwapsForward(q) /\ SavedIsCovered(q)))
    BY DEF AckInv
  <1>3. CASE SaveReads(q)
    <2>1. /\ request[q].kind = "save" /\ request[q].pc = "sent"
          /\ UNCHANGED <<pointer, status>> /\ late' = (late \/ ~IsAwaited(q))
          /\ \/ /\ HoldsLease(request[q].lease)
                /\ See(q, IF request[q].large THEN "put" ELSE "update")
             \/ Answer(q, "lost")
      BY <1>3 DEF SaveReads
    <2>2. RowMoves(q)
      BY <2>1 DEF RowMoves
    <2>3. CASE Answer(q, "lost")
      BY <1>1, <2>1, <2>2, <2>3, FailTracks
    <2>4. CASE /\ HoldsLease(request[q].lease)
               /\ See(q, IF request[q].large THEN "put" ELSE "update")
      <3>1. /\ request'[q].pc \in {"put", "update"} /\ request'[q].seen = pointer
            /\ SameCall(q) /\ request'[q].step = request[q].step
        BY <1>1, <2>4, SeeEffect
      <3>2. CallMoves(q)
        BY <2>1, <3>1 DEF CallMoves
      <3>3. PcFitsKind(q)' /\ LoadIsCurrent(q)' /\ SavedIsCovered(q)'
        BY <2>1, <3>1
           DEF PcFitsKind, LoadIsCurrent, SavedIsCovered, IsSaved, SameCall
      <3>4. ASSUME IsAwaited(q) PROVE SwapsForward(q)'
        <4>1. PICK v \in Leases : agent[v].waits = q
          BY <3>4 DEF IsAwaited
        <4>2. WaitsForOwn(v) /\ NotBehind(v) /\ q # None
          BY NoneAssumption DEF AckInv
        <4>3. /\ v = lease /\ agent[v].phase = "save"
              /\ request[q].step = agent[v].step
          BY <2>1, <2>4, <4>1, <4>2 DEF WaitsForOwn, HoldsLease
        <4>4. pointer.step <= request[q].step
          BY <4>2, <4>3 DEF NotBehind
        <4> QED BY <3>1, <4>4 DEF SwapsForward
      <3> QED BY <1>1, <2>1, <2>2, <3>2, <3>3, <3>4 DEF Tracks
    <2> QED BY <2>1, <2>3, <2>4
  <1>4. CASE SavePuts(q)
    <2>1. /\ request[q].pc = "put" /\ UNCHANGED <<pointer, status, late>>
          /\ Goto(q, "update")
      BY <1>4 DEF SavePuts, WorkerFrame
    <2>2. /\ request'[q].pc = "update" /\ request'[q].seen = request[q].seen
          /\ SameCall(q) /\ request'[q].step = request[q].step
          /\ request[q].kind = "save"
      BY <1>1, <1>2, <2>1, GotoEffect DEF CallInv, PcFitsKind
    <2>3. RowMoves(q) /\ CallMoves(q)
      BY <2>1, <2>2 DEF RowMoves, CallMoves
    <2>4. PcFitsKind(q)' /\ LoadIsCurrent(q)' /\ SavedIsCovered(q)'
      BY <2>2 DEF PcFitsKind, LoadIsCurrent, SavedIsCovered, IsSaved, SameCall
    <2>5. late' \/ SwapsForward(q)'
      BY <1>2, <2>1, <2>2 DEF SwapsForward
    <2> QED BY <1>1, <2>1, <2>3, <2>4, <2>5 DEF Tracks
  <1>5. CASE SavePutThrows(q)
    <2>1. /\ UNCHANGED <<pointer, status, late>> /\ Answer(q, "error")
          /\ request[q].pc = "put"
      BY <1>5 DEF SavePutThrows, WorkerFrame
    <2> QED BY <1>1, <2>1, FailTracks DEF RowMoves
  <1>6. CASE SaveUpdates(q) /\ CanSwap(q)
    <2>1. /\ request[q].pc = "update" /\ pointer' = Stored(q) /\ status' = status
          /\ pointer = request[q].seen /\ late' = late /\ request[q].lease = lease
          /\ Goto(q, "cleanup") \/ Answer(q, "ok")
      BY <1>6 DEF SaveUpdates, CanSwap, HoldsLease, WorkerFrame
    <2>2. pointer'.step = request[q].step /\ request[q].kind = "save"
      BY <1>2, <2>1 DEF Stored, CallInv, PcFitsKind
    <2>3. /\ request'[q].pc \in {"cleanup", "done"}
          /\ SameCall(q) /\ request'[q].step = request[q].step
      BY <1>1, <2>1, GotoEffect, AnswerEffect
    <2>4. RowMoves(q) /\ CallMoves(q)
      BY <2>1, <2>2, <2>3 DEF RowMoves, CallMoves
    <2>5. PcFitsKind(q)' /\ LoadIsCurrent(q)' /\ SwapsForward(q)'
      BY <2>2, <2>3 DEF PcFitsKind, LoadIsCurrent, SwapsForward, SameCall
    <2>6. SavedIsCovered(q)'
      <3>1. request[q].step \in Nat
        BY <1>1, BoundsAssumption DEF TypeOK, Request, Steps
      <3> QED BY <2>2, <2>3, <3>1 DEF SavedIsCovered
    <2> QED BY <1>1, <2>1, <2>4, <2>5, <2>6 DEF Tracks
  <1>7. CASE SaveUpdates(q) /\ ~CanSwap(q)
    <2>1. /\ request[q].pc = "update" /\ UNCHANGED <<pointer, status, late>>
          /\ Goto(q, "discard") \/ Answer(q, "lost")
      BY <1>7 DEF SaveUpdates, WorkerFrame
    <2>2. RowMoves(q)
      BY <2>1 DEF RowMoves
    <2>3. CASE Answer(q, "lost")
      BY <1>1, <2>1, <2>2, <2>3, FailTracks
    <2>4. CASE Goto(q, "discard")
      <3>1. /\ request'[q].pc = "discard" /\ request'[q].kind = "save"
            /\ CallMoves(q)
        BY <1>1, <1>2, <2>1, <2>4, GotoEffect
           DEF CallInv, PcFitsKind, CallMoves, SameCall
      <3> QED BY <1>1, <2>1, <2>2, <3>1, PlainTracks
    <2> QED BY <2>1, <2>3, <2>4
  <1>8. CASE SaveUpdateThrows(q)
    <2>1. /\ request[q].pc = "update" /\ UNCHANGED <<status, late>>
          /\ Answer(q, "error")
          /\ \/ pointer' = pointer
             \/ /\ pointer' = Stored(q) /\ request[q].seen = pointer
                /\ request[q].lease = lease
      BY <1>8 DEF SaveUpdateThrows, WorkerFrame, CanSwap, HoldsLease
    <2>2. RowMoves(q)
      BY <2>1 DEF RowMoves, Stored
    <2> QED BY <1>1, <2>1, <2>2, FailTracks
  <1>9. CASE SaveDiscards(q)
    <2>1. /\ UNCHANGED <<pointer, status, late>> /\ Answer(q, "lost")
          /\ request[q].pc = "discard"
      BY <1>9 DEF SaveDiscards, WorkerFrame
    <2> QED BY <1>1, <2>1, FailTracks DEF RowMoves
  <1> QED BY <1>3, <1>4, <1>5, <1>6, <1>7, <1>8, <1>9 DEF SaveStep

LEMMA LoadTracks ==
  ASSUME IInv, AckInv, NEW q \in Requests, LoadStep(q)
  PROVE  Tracks(q)
  <1>1. /\ TypeOK /\ Kept(q) /\ WorkerTypes /\ Moved(q) /\ CallInv(q)
        /\ pointer.step \in Steps /\ request[q].seen.step \in Steps
    BY LoadKeeps DEF IInv, AckInv, Kept, TypeOK, Pointer, Request
  <1>2. UNCHANGED <<pointer, status, late, lease, agent>> /\ RowMoves(q)
    BY DEF LoadStep, LoadChecksLease, LoadReads, LoadGets, WorkerFrame, RowMoves
  <1>3. /\ request[q].kind = "load" /\ request[q].pc \in {"sent", "read", "get"}
    BY <1>1 DEF LoadStep, LoadChecksLease, LoadReads, LoadGets, CallInv, PcFitsKind
  <1>4. CASE \E a \in {"fatal", "lost", "error"} : Answer(q, a)
    BY <1>1, <1>2, <1>3, <1>4, FailTracks
  <1>5. CASE Goto(q, "read")
    <2>1. request'[q].pc = "read" /\ CallMoves(q)
      BY <1>1, <1>3, <1>5, GotoEffect DEF CallMoves
    <2> QED BY <1>1, <1>2, <2>1, PlainTracks
  <1>6. CASE See(q, "get")
    <2>1. request'[q].pc = "get" /\ request'[q].seen = pointer /\ SameCall(q)
      BY <1>1, <1>6, SeeEffect
    <2>2. CallMoves(q) /\ PcFitsKind(q)' /\ SwapsForward(q)' /\ SavedIsCovered(q)'
      BY <1>3, <2>1
         DEF CallMoves, PcFitsKind, SwapsForward, SavedIsCovered, IsSaved, SameCall
    <2>3. LoadIsCurrent(q)'
      <3>1. pointer.step \in Nat
        BY <1>1, BoundsAssumption DEF Steps
      <3> QED BY <1>2, <2>1, <3>1 DEF LoadIsCurrent
    <2> QED BY <1>1, <1>2, <2>2, <2>3 DEF Tracks
  <1>7. ASSUME NEW s \in Steps, Loaded(q, s),
               \/ s = pointer.step
               \/ request[q].pc = "get" /\ s = request[q].seen.step
        PROVE  Tracks(q)
    <2>1. request'[q].pc = "done" /\ request'[q].step = s /\ SameCall(q)
      BY <1>1, <1>7, LoadedEffect
    <2>2. CallMoves(q) /\ PcFitsKind(q)' /\ SwapsForward(q)' /\ SavedIsCovered(q)'
      BY <1>3, <2>1
         DEF CallMoves, PcFitsKind, SwapsForward, SavedIsCovered, IsSaved, SameCall
    <2>3. LoadIsCurrent(q)'
      <3>1. pointer.step \in Nat
        BY <1>1, BoundsAssumption DEF Steps
      <3> QED BY <1>1, <1>2, <1>7, <2>1, <3>1 DEF CallInv, LoadIsCurrent, SameCall
    <2> QED BY <1>1, <1>2, <2>2, <2>3 DEF Tracks
  <1> QED BY <1>1, <1>4, <1>5, <1>6, <1>7
          DEF LoadStep, LoadChecksLease, LoadReads, LoadGets

LEMMA TerminalTracks ==
  ASSUME IInv, AckInv, NEW q \in Requests, TerminalStep(q)
  PROVE  Tracks(q)
  <1>1. TypeOK /\ Kept(q) /\ late' = late
    BY TerminalKeeps
       DEF IInv, TerminalStep, CompleteChecksLease, CompleteReads, CompleteCommits,
           CompleteThrows, TransitionReads, TransitionCommits, WorkerFrame
  <1>2. RowMoves(q)
    BY DEF TerminalStep, CompleteChecksLease, CompleteReads, CompleteCommits,
           CompleteThrows, TransitionReads, TransitionCommits, RowMoves, Null
  <1>3. CASE TransitionReads(q)
    <2>1. /\ request[q].pc = "new" /\ request'[q].pc = "commit"
          /\ request'[q].kind = "cancel"
          /\ \A p \in Requests \ {q} : request'[p] = request[p]
      BY <1>1, <1>3, TransitionReadsEffect
    <2>2. CallMoves(q)
      BY <2>1 DEF CallMoves
    <2> QED BY <1>1, <1>2, <2>1, <2>2, PlainTracks
  <1>4. CASE ~TransitionReads(q)
    <2>1. /\ request[q].kind \in {"finish", "cancel"} /\ request[q].pc # "new"
          /\ \/ Goto(q, "read") \/ See(q, "commit") \/ CleanUpOrAnswer(q)
             \/ \E a \in {"fatal", "lost", "error"} : Answer(q, a)
      BY <1>4 DEF TerminalStep, CompleteChecksLease, CompleteReads, CompleteCommits,
                  CompleteThrows, TransitionCommits
    <2>2. CASE \E a \in {"fatal", "lost", "error"} : Answer(q, a)
      BY <1>1, <1>2, <2>1, <2>2, FailTracks
    <2>3. CASE Goto(q, "read") \/ See(q, "commit") \/ CleanUpOrAnswer(q)
      <3>1. request'[q].pc \in {"read", "commit", "cleanup", "done"} /\ SameCall(q)
        BY <1>1, <2>3, GotoEffect, SeeEffect, AnswerEffect DEF CleanUpOrAnswer
      <3>2. CallMoves(q) /\ request'[q].kind \notin {"save", "load"}
        BY <2>1, <3>1 DEF CallMoves, SameCall
      <3> QED BY <1>1, <1>2, <3>1, <3>2, PlainTracks
    <2> QED BY <2>1, <2>2, <2>3
  <1> QED BY <1>3, <1>4

LEMMA CleanupTracks ==
  ASSUME IInv, AckInv, NEW q \in Requests,
         DeleteReplaced(q) \/ DeleteFails(q) \/ RequestDies(q)
  PROVE  Tracks(q)
  <1>1. /\ TypeOK /\ Kept(q) /\ WorkerTypes /\ Moved(q) /\ CallInv(q)
        /\ late \/ (SwapsForward(q) /\ SavedIsCovered(q))
    BY CleanupKeeps DEF IInv, AckInv, Kept
  <1>2. UNCHANGED <<pointer, status, late>> /\ RowMoves(q) /\ request[q].pc # "new"
    BY DEF DeleteReplaced, DeleteFails, RequestDies, WorkerFrame, RowMoves
  <1>3. CASE \E a \in {"fatal", "lost", "error"} : Answer(q, a)
    BY <1>1, <1>2, <1>3, FailTracks
  <1>4. CASE request[q].pc = "cleanup" /\ Answer(q, "ok")
    <2>1. /\ request'[q].pc = "done" /\ SameCall(q)
          /\ request'[q].step = request[q].step /\ request[q].kind # "load"
      BY <1>1, <1>4, AnswerEffect DEF CallInv, PcFitsKind
    <2>2. CallMoves(q) /\ PcFitsKind(q)' /\ LoadIsCurrent(q)' /\ SwapsForward(q)'
      BY <1>2, <2>1 DEF CallMoves, PcFitsKind, LoadIsCurrent, SwapsForward, SameCall
    <2>3. late' \/ SavedIsCovered(q)'
      BY <1>1, <1>2, <1>4, <2>1 DEF SavedIsCovered, IsSaved, SameCall
    <2> QED BY <1>1, <1>2, <2>2, <2>3 DEF Tracks
  <1> QED BY <1>3, <1>4 DEF DeleteReplaced, DeleteFails, RequestDies

\* How a container that sends nothing may move.
AgentMoves(v) ==
    /\ \A w \in Leases \ {v} : agent'[w] = agent[w]
    /\ agent[v].phase # "off" /\ agent'[v].phase # "off"
    /\ agent'[v].waits = None
    /\ agent'[v].phase = "load" => agent[v].phase = "load"
    /\ agent'[v].phase \in {"work", "save"} =>
         \/ /\ agent[v].phase \in {"work", "save"}
            /\ agent[v].step <= agent'[v].step
         \/ /\ agent[v].phase = "load"
            /\ v = lease => pointer.step <= agent'[v].step

LEMMA AgentTracks ==
  ASSUME IInv, AckInv, NEW v \in Leases, AgentMoves(v), agent' \in [Leases -> Agent],
         AgentFrame, UNCHANGED request, late \/ AckedStepIsKept'
  PROVE  AckInv'
  <1>1. /\ UNCHANGED <<status, lease, pointer, late, request>>
        /\ request \in [Requests -> Request] /\ pointer \in Pointer
        /\ agent \in [Leases -> Agent]
        /\ \A w \in Leases \ {v} : agent'[w] = agent[w]
    BY DEF AgentFrame, IInv, TypeOK, AgentMoves
  <1>2. /\ pointer.step \in Nat /\ \A p \in Requests : request[p].step \in Nat
        /\ agent[v].step \in Nat /\ agent'[v].step \in Nat
    BY <1>1, BoundsAssumption DEF Pointer, Request, Agent, Steps
  <1>3. ASSUME NEW q \in Requests PROVE CallInv(q)'
    <2>1. CallInv(q)
      BY DEF AckInv
    <2>2. CASE request[q].kind \notin Calls
      BY <1>1, <2>1, <2>2
         DEF CallInv, PcFitsKind, SenderIsOn, SaveFollowsLoad, LoadIsCurrent, Calls
    <2>3. CASE request[q].kind \in Calls /\ request[q].lease # v
      <3>1. request[q].lease \in Leases
        BY <2>1, <2>3 DEF CallInv, SenderIsOn
      <3>2. agent'[request[q].lease] = agent[request[q].lease]
        BY <1>1, <2>3, <3>1
      <3> QED BY <1>1, <2>1, <3>2
             DEF CallInv, PcFitsKind, SenderIsOn, SaveFollowsLoad, LoadIsCurrent
    <2>4. CASE request[q].kind \in Calls /\ request[q].lease = v
      <3>1. PcFitsKind(q)' /\ SenderIsOn(q)'
        BY <1>1, <2>1, <2>4 DEF CallInv, PcFitsKind, SenderIsOn, AgentMoves
      <3>2. SaveFollowsLoad(q)'
        BY <1>1, <1>2, <2>1, <2>4 DEF CallInv, SaveFollowsLoad, AgentMoves
      <3>3. LoadIsCurrent(q)'
        BY <1>1, <2>1, <2>4 DEF CallInv, LoadIsCurrent, AgentMoves
      <3> QED BY <3>1, <3>2, <3>3 DEF CallInv
    <2> QED BY <2>2, <2>3, <2>4
  <1>4. ASSUME NEW w \in Leases PROVE WaitsForOwn(w)' /\ NotBehind(w)'
    <2>1. WaitsForOwn(w) /\ NotBehind(w)
      BY DEF AckInv
    <2>2. CASE w # v
      BY <1>1, <2>1, <2>2 DEF WaitsForOwn, NotBehind
    <2>3. CASE w = v
      <3>1. WaitsForOwn(v)'
        BY DEF WaitsForOwn, AgentMoves
      <3>2. NotBehind(v)'
        BY <1>1, <1>2, <2>1, <2>3 DEF NotBehind, AgentMoves
      <3> QED BY <2>3, <3>1, <3>2
    <2> QED BY <2>2, <2>3
  <1>5. late' \/ (/\ AckedStepIsKept'
                  /\ \A q \in Requests : SwapsForward(q)' /\ SavedIsCovered(q)')
    BY <1>1 DEF AckInv, SwapsForward, SavedIsCovered, IsSaved
  <1> QED BY <1>3, <1>4, <1>5 DEF AckInv

LEMMA SendTracks ==
  ASSUME IInv, AckInv, NEW v \in Leases, NEW q \in Requests, Send(v, q)
  PROVE  AckInv'
  <1>1. /\ TypeOK /\ agent \in [Leases -> Agent] /\ None # q
        /\ UNCHANGED <<status, lease, pointer, late, acked>>
        /\ agent[v].phase \in Calls
    BY NoneAssumption DEF IInv, TypeOK, Send, AgentFrame
  <1>2. /\ request[q].pc = "new" /\ request'[q].pc = "sent"
        /\ request'[q].kind = agent[v].phase /\ request'[q].lease = v
        /\ request'[q].step = agent[v].step
        /\ \A p \in Requests \ {q} : request'[p] = request[p]
    BY <1>1, SendEffect
  <1>3. agent' = [agent EXCEPT ![v] = [@ EXCEPT !.waits = q,
                                                !.tries = agent[v].tries + 1]]
    BY DEF Send
  <1>4. /\ agent'[v].waits = q
        /\ \A w \in Leases \ {v} : agent'[w] = agent[w]
        /\ \A w \in Leases : /\ agent'[w].phase = agent[w].phase
                             /\ agent'[w].step = agent[w].step
    BY <1>1, <1>3 DEF Agent
  <1>5. ASSUME NEW p \in Requests PROVE CallInv(p)'
    <2>1. CASE p # q
      <3>1. request'[p] = request[p] /\ CallInv(p)
        BY <1>2, <2>1 DEF AckInv
      <3>2. PcFitsKind(p)' /\ SenderIsOn(p)'
        BY <1>4, <3>1 DEF CallInv, PcFitsKind, SenderIsOn
      <3>3. SaveFollowsLoad(p)' /\ LoadIsCurrent(p)'
        BY <1>1, <1>4, <3>1
           DEF CallInv, SenderIsOn, SaveFollowsLoad, LoadIsCurrent, Calls
      <3> QED BY <3>2, <3>3 DEF CallInv
    <2>2. CASE p = q
      <3>1. PcFitsKind(q)' /\ SenderIsOn(q)' /\ LoadIsCurrent(q)'
        BY <1>1, <1>2, <1>4 DEF PcFitsKind, SenderIsOn, LoadIsCurrent, Calls
      <3>2. SaveFollowsLoad(q)'
        <4>1. agent[v].step \in Nat
          BY <1>1, BoundsAssumption DEF Agent, Steps
        <4>2. /\ request'[q].kind = agent'[v].phase
              /\ request'[q].step <= agent'[v].step
          BY <1>2, <1>4, <4>1
        <4> QED BY <1>2, <4>2 DEF SaveFollowsLoad
      <3> QED BY <2>2, <3>1, <3>2 DEF CallInv
    <2> QED BY <2>1, <2>2
  <1>6. ASSUME NEW w \in Leases PROVE WaitsForOwn(w)' /\ NotBehind(w)'
    <2>1. WaitsForOwn(w) /\ NotBehind(w) /\ agent[w].waits \in Requests \cup {None}
      BY <1>1 DEF AckInv, Agent
    <2>2. NotBehind(w)'
      BY <1>1, <1>4, <2>1 DEF NotBehind
    <2>3. CASE w = v
      BY <1>1, <1>2, <1>4, <2>2, <2>3 DEF WaitsForOwn
    <2>4. CASE w # v
      <3>1. agent'[w] = agent[w]
        BY <1>4, <2>4
      <3>2. agent[w].waits # q
        BY <1>1, <1>2, <2>1 DEF WaitsForOwn
      <3> QED BY <1>2, <2>1, <2>2, <3>1, <3>2 DEF WaitsForOwn
    <2> QED BY <2>3, <2>4
  <1>7. late' \/ (/\ AckedStepIsKept'
                  /\ \A p \in Requests : SwapsForward(p)' /\ SavedIsCovered(p)')
    BY <1>1, <1>2
       DEF AckInv, AckedStepIsKept, SwapsForward, SavedIsCovered, IsSaved
  <1> QED BY <1>5, <1>6, <1>7 DEF AckInv

\* A container that stops waiting, without a new step.
LEMMA LeavesTracks ==
  ASSUME IInv, AckInv, NEW v \in Leases, agent' \in [Leases -> Agent],
         \A w \in Leases \ {v} : agent'[w] = agent[w],
         agent[v].phase # "off", agent'[v].waits = None,
         agent'[v].step = agent[v].step,
         \/ agent'[v].phase \in {"finish", "stopped"}
         \/ agent'[v].phase = agent[v].phase,
         AgentFrame, UNCHANGED <<request, acked>>
  PROVE  AckInv'
  <1>1. agent[v].step \in Nat
    BY BoundsAssumption DEF IInv, TypeOK, Agent, Steps
  <1>2. AgentMoves(v)
    BY <1>1 DEF AgentMoves
  <1>3. late \/ AckedStepIsKept'
    BY DEF AckInv, AckedStepIsKept, AgentFrame
  <1> QED BY <1>2, <1>3, AgentTracks

LEMMA RetryTracks ==
  ASSUME IInv, AckInv, NEW v \in Leases, agent[v].waits # None, Retry(v),
         AgentFrame, UNCHANGED <<request, acked>>
  PROVE  AckInv'
  <1>1. /\ TypeOK /\ agent \in [Leases -> Agent] /\ agent[v].phase \in Calls
        /\ agent' \in [Leases -> Agent]
        /\ \A w \in Leases \ {v} : agent'[w] = agent[w]
    BY RetryEffect DEF IInv, TypeOK, AckInv, WaitsForOwn
  <1>2. CASE agent[v].tries < MaxTries
    <2>1. agent' = [agent EXCEPT ![v] = [@ EXCEPT !.waits = None]]
      BY <1>2 DEF Retry
    <2>2. /\ agent'[v].waits = None /\ agent'[v].step = agent[v].step
          /\ agent'[v].phase = agent[v].phase /\ agent[v].phase # "off"
      BY <1>1, <2>1 DEF Agent, Calls
    <2> QED BY <1>1, <2>2, LeavesTracks
  <1>3. CASE ~(agent[v].tries < MaxTries)
    <2>1. /\ agent' = [agent EXCEPT ![v] = [@ EXCEPT !.waits = None, !.tries = 0,
                                                     !.phase = AfterFailure(v)]]
          /\ AfterFailure(v) \in {"stopped", "finish"}
      BY <1>3 DEF Retry, AfterFailure
    <2>2. /\ agent'[v].waits = None /\ agent'[v].step = agent[v].step
          /\ agent'[v].phase \in {"stopped", "finish"} /\ agent[v].phase # "off"
      BY <1>1, <2>1 DEF Agent, Calls
    <2> QED BY <1>1, <2>2, LeavesTracks
  <1> QED BY <1>2, <1>3

LEMMA ReceiveTracks ==
  ASSUME IInv, AckInv, NEW v \in Leases, Receive(v), IInv'
  PROVE  AckInv'
  <1> DEFINE q == agent[v].waits
  <1>1. /\ TypeOK /\ agent \in [Leases -> Agent] /\ agent' \in [Leases -> Agent]
        /\ request \in [Requests -> Request]
    BY DEF IInv, TypeOK
  <1>2. /\ q \in Requests /\ q # None /\ request[q].pc = "done" /\ AgentFrame
        /\ UNCHANGED <<request, faults>>
        /\ UNCHANGED <<status, lease, pointer, late>>
    BY <1>1 DEF Receive, Agent, AgentFrame
  <1>3. /\ agent[v].phase \in Calls /\ request[q].lease = v
        /\ request[q].kind = agent[v].phase
        /\ agent[v].phase = "save" => request[q].step = agent[v].step
        /\ CallInv(q) /\ (late \/ SavedIsCovered(q)) /\ (late \/ AckedStepIsKept)
    BY <1>2 DEF AckInv, WaitsForOwn
  <1>4. /\ request[q].step \in Nat /\ agent[v].step \in Nat /\ acked \in Nat
        /\ pointer.step \in Nat
    BY <1>1, <1>2, BoundsAssumption DEF TypeOK, Request, Agent, Pointer, Steps
  <1>5. CASE request[q].answer = "ok"
    <2>1. /\ agent' = [agent EXCEPT ![v] = [@ EXCEPT !.waits = None,
                        !.phase = IF agent[v].phase = "finish" THEN "stopped"
                                                               ELSE "work",
                        !.step = request[q].step]]
          /\ acked' = IF agent[v].phase = "save" /\ request[q].step > acked
                     THEN request[q].step ELSE acked
      BY <1>5 DEF Receive
    <2> DEFINE ph == IF agent[v].phase = "finish" THEN "stopped" ELSE "work"
    <2>2. agent' = [agent EXCEPT ![v] = [@ EXCEPT !.waits = None, !.phase = ph,
                                                  !.step = request[q].step]]
      BY <2>1
    <2>3. /\ ph \in {"stopped", "work"}
          /\ ph = "work" => agent[v].phase \in {"load", "save"}
      BY <1>3 DEF Calls
    <2> HIDE DEF ph
    <2>4. /\ agent'[v].waits = None /\ agent'[v].phase = ph
          /\ agent'[v].step = request[q].step
          /\ \A w \in Leases \ {v} : agent'[w] = agent[w]
      BY <1>1, <2>2 DEF Agent
    <2>5. agent[v].phase = "load" /\ v = lease => pointer.step <= request[q].step
      BY <1>2, <1>3, <1>5 DEF CallInv, LoadIsCurrent
    <2>6. AgentMoves(v)
      BY <1>3, <1>4, <2>3, <2>4, <2>5 DEF AgentMoves, Calls
    <2>7. late \/ AckedStepIsKept'
      <3>1. CASE agent[v].phase = "save" /\ request[q].step > acked
        <4>1. acked' = request[q].step /\ IsSaved(q)
          BY <1>2, <1>3, <1>5, <2>1, <3>1 DEF IsSaved
        <4> QED BY <1>2, <1>3, <4>1 DEF SavedIsCovered, AckedStepIsKept
      <3>2. CASE ~(agent[v].phase = "save" /\ request[q].step > acked)
        <4>1. acked' = acked
          BY <2>1, <3>2
        <4> QED BY <1>2, <1>3, <4>1 DEF AckedStepIsKept
      <3> QED BY <3>1, <3>2
    <2> QED BY <1>1, <1>2, <2>6, <2>7, AgentTracks
  <1>6. CASE request[q].answer = "fatal"
    <2>1. /\ agent' = [agent EXCEPT ![v] = [@ EXCEPT !.waits = None,
                                              !.phase = "finish", !.tries = 0]]
          /\ acked' = acked
      BY <1>6 DEF Receive
    <2>2. /\ agent'[v].waits = None /\ agent'[v].step = agent[v].step
          /\ agent'[v].phase = "finish" /\ agent[v].phase # "off"
          /\ \A w \in Leases \ {v} : agent'[w] = agent[w]
      BY <1>1, <1>3, <2>1 DEF Agent, Calls
    <2> QED BY <1>1, <1>2, <2>1, <2>2, LeavesTracks
  <1>7. CASE request[q].answer = "lost"
    <2>1. /\ agent' = [agent EXCEPT ![v] = [@ EXCEPT !.waits = None,
                                                     !.phase = "stopped"]]
          /\ acked' = acked
      BY <1>7 DEF Receive
    <2>2. /\ agent'[v].waits = None /\ agent'[v].step = agent[v].step
          /\ agent'[v].phase = "stopped" /\ agent[v].phase # "off"
          /\ \A w \in Leases \ {v} : agent'[w] = agent[w]
      BY <1>1, <1>3, <2>1 DEF Agent, Calls
    <2> QED BY <1>1, <1>2, <2>1, <2>2, LeavesTracks
  <1>8. CASE request[q].answer = "error"
    <2>1. Retry(v) /\ acked' = acked
      BY <1>8 DEF Receive
    <2> QED BY <1>2, <2>1, RetryTracks
  <1> QED BY <1>5, <1>6, <1>7, <1>8 DEF Receive

LEMMA WorkTracks ==
  ASSUME IInv, AckInv, NEW v \in Leases, IInv',
         EnterNode(v) \/ FinishWork(v) \/ GiveUp(v) \/ ContainerDies(v)
  PROVE  AckInv'
  <1>1. /\ TypeOK /\ agent \in [Leases -> Agent] /\ agent' \in [Leases -> Agent]
        /\ WaitsForOwn(v) /\ NotBehind(v)
    BY DEF IInv, TypeOK, AckInv
  <1>2. AgentFrame /\ UNCHANGED <<request, acked>>
    BY DEF EnterNode, FinishWork, GiveUp, ContainerDies
  <1>3. CASE EnterNode(v)
    <2>1. /\ agent[v].phase = "work"
          /\ agent' = [agent EXCEPT ![v] = [@ EXCEPT !.phase = "save", !.tries = 0,
                                              !.step = agent[v].step + 1]]
      BY <1>3 DEF EnterNode
    <2>2. agent[v].waits = None /\ agent[v].step \in Nat
      BY <1>1, <2>1, BoundsAssumption DEF WaitsForOwn, Calls, Agent, Steps
    <2>3. /\ agent'[v].phase = "save" /\ agent'[v].waits = None
          /\ agent'[v].step = agent[v].step + 1
          /\ \A w \in Leases \ {v} : agent'[w] = agent[w]
      BY <1>1, <2>1, <2>2 DEF Agent
    <2>4. AgentMoves(v)
      BY <2>1, <2>2, <2>3 DEF AgentMoves
    <2>5. late \/ AckedStepIsKept'
      BY <1>2 DEF AckInv, AckedStepIsKept, AgentFrame
    <2> QED BY <1>1, <1>2, <2>4, <2>5, AgentTracks
  <1>4. CASE FinishWork(v)
    <2>1. /\ agent[v].phase = "work"
          /\ agent' = [agent EXCEPT ![v] = [@ EXCEPT !.phase = "finish", !.tries = 0]]
      BY <1>4 DEF FinishWork
    <2>2. agent[v].waits = None
      BY <1>1, <2>1 DEF WaitsForOwn, Calls
    <2>3. /\ agent'[v].waits = None /\ agent'[v].step = agent[v].step
          /\ agent'[v].phase = "finish"
          /\ \A w \in Leases \ {v} : agent'[w] = agent[w]
      BY <1>1, <2>1, <2>2 DEF Agent
    <2> QED BY <1>1, <1>2, <2>1, <2>3, LeavesTracks
  <1>5. CASE GiveUp(v)
    <2>1. Retry(v) /\ agent[v].waits # None
      BY <1>5 DEF GiveUp
    <2> QED BY <1>2, <2>1, RetryTracks
  <1>6. CASE ContainerDies(v)
    <2>1. /\ agent[v].phase # "off"
          /\ agent' = [agent EXCEPT ![v] = [@ EXCEPT !.phase = "stopped",
                                                     !.waits = None]]
      BY <1>6 DEF ContainerDies
    <2>2. /\ agent'[v].waits = None /\ agent'[v].step = agent[v].step
          /\ agent'[v].phase = "stopped"
          /\ \A w \in Leases \ {v} : agent'[w] = agent[w]
      BY <1>1, <2>1 DEF Agent
    <2> QED BY <1>1, <1>2, <2>1, <2>2, LeavesTracks
  <1> QED BY <1>3, <1>4, <1>5, <1>6

LEMMA RunTracks ==
  ASSUME IInv, AckInv, RunNext
  PROVE  AckInv'
  <1>1. TypeOK /\ FutureOff /\ agent \in [Leases -> Agent] /\ lease \in 0..MaxLease
    BY DEF IInv, TypeOK
  <1>2. /\ UNCHANGED <<pointer, request, acked, late>>
        /\ status # "ended" /\ status' # "ended"
    BY DEF RunNext, Claim, Release
  <1>3. late' \/ (/\ AckedStepIsKept'
                  /\ \A q \in Requests : SwapsForward(q)' /\ SavedIsCovered(q)')
    BY <1>2 DEF AckInv, AckedStepIsKept, SwapsForward, SavedIsCovered, IsSaved
  <1>4. CASE Claim
    <2>1. /\ lease' = lease + 1 /\ lease' \in Leases
          /\ agent' = [agent EXCEPT ![lease'].phase = "load"]
      BY <1>1, <1>4, BoundsAssumption DEF Claim, Leases
    <2>2. agent[lease'].phase = "off" /\ agent[lease'].waits = None
      BY <1>1, <2>1 DEF FutureOff
    <2>3. /\ \A v \in Leases \ {lease'} : agent'[v] = agent[v]
          /\ agent'[lease'].phase = "load" /\ agent'[lease'].waits = None
      BY <1>1, <2>1, <2>2 DEF Agent
    <2>4. ASSUME NEW q \in Requests PROVE CallInv(q)'
      <3>1. CallInv(q)
        BY DEF AckInv
      <3>2. CASE request[q].kind \notin Calls
        BY <1>2, <3>1, <3>2
           DEF CallInv, PcFitsKind, SenderIsOn, SaveFollowsLoad, LoadIsCurrent, Calls
      <3>3. CASE request[q].kind \in Calls
        <4>1. request[q].lease \in Leases /\ request[q].lease # lease'
          BY <2>2, <3>1, <3>3 DEF CallInv, SenderIsOn
        <4>2. agent'[request[q].lease] = agent[request[q].lease]
          BY <2>3, <4>1
        <4> QED BY <1>2, <3>1, <4>1, <4>2
               DEF CallInv, PcFitsKind, SenderIsOn, SaveFollowsLoad, LoadIsCurrent
      <3> QED BY <3>2, <3>3
    <2>5. ASSUME NEW v \in Leases PROVE WaitsForOwn(v)' /\ NotBehind(v)'
      <3>1. WaitsForOwn(v)
        BY DEF AckInv
      <3>2. CASE v = lease'
        BY <2>3, <3>2 DEF WaitsForOwn, NotBehind
      <3>3. CASE v # lease'
        BY <1>2, <2>3, <3>1, <3>3 DEF WaitsForOwn, NotBehind
      <3> QED BY <3>2, <3>3
    <2> QED BY <1>3, <2>4, <2>5 DEF AckInv
  <1>5. CASE Release
    <2>1. UNCHANGED <<lease, agent>>
      BY <1>5 DEF Release
    <2>2. \A q \in Requests : CallInv(q)'
      BY <1>2, <2>1 DEF AckInv, CallInv, PcFitsKind, SenderIsOn, SaveFollowsLoad,
                        LoadIsCurrent
    <2>3. \A v \in Leases : WaitsForOwn(v)' /\ NotBehind(v)'
      BY <1>2, <2>1 DEF AckInv, WaitsForOwn, NotBehind
    <2> QED BY <1>3, <2>2, <2>3 DEF AckInv
  <1> QED BY <1>4, <1>5 DEF RunNext

LEMMA NextAckInv == IInv /\ AckInv /\ [Next]_vars => AckInv'
  <1> SUFFICES ASSUME IInv, AckInv, [Next]_vars PROVE AckInv'
    OBVIOUS
  <1>1. IInv'
    BY NextIInv
  <1>2. CASE RunNext
    BY <1>2, RunTracks
  <1>3. CASE AgentNext
    BY <1>1, <1>3, SendTracks, ReceiveTracks, WorkTracks DEF AgentNext
  <1>4. CASE RequestNext
    <2>1. PICK q \in Requests :
            \/ SaveStep(q) \/ LoadStep(q) \/ TerminalStep(q)
            \/ DeleteReplaced(q) \/ DeleteFails(q) \/ RequestDies(q)
      BY <1>4 DEF RequestNext
    <2>2. Tracks(q)
      BY <2>1, SaveTracks, LoadTracks, TerminalTracks, CleanupTracks
    <2> QED BY <2>2, TracksIsEnough
  <1>5. CASE UNCHANGED vars
    BY <1>5 DEF vars, AckInv, CallInv, PcFitsKind, SenderIsOn, SaveFollowsLoad,
                LoadIsCurrent, WaitsForOwn, NotBehind, AckedStepIsKept, SwapsForward,
                SavedIsCovered, IsSaved
  <1> QED BY <1>2, <1>3, <1>4, <1>5 DEF Next

LEMMA InitAckInv == Init => AckInv
  <1> SUFFICES ASSUME Init PROVE AckInv
    OBVIOUS
  <1>1. \A q \in Requests : CallInv(q) /\ SwapsForward(q) /\ SavedIsCovered(q)
    BY DEF Init, CallInv, PcFitsKind, SenderIsOn, SaveFollowsLoad, LoadIsCurrent, Calls,
           SwapsForward, SavedIsCovered, IsSaved
  <1>2. \A v \in Leases : WaitsForOwn(v) /\ NotBehind(v)
    BY DEF Init, WaitsForOwn, NotBehind
  <1>3. AckedStepIsKept
    BY DEF Init, AckedStepIsKept, Null
  <1> QED BY <1>1, <1>2, <1>3 DEF AckInv

\* As long as no save reaches the Worker after its container has given up on it,
\* whoever loads the checkpoint of an unfinished run resumes at the last step a
\* container was told is saved, or later: whatever number of retries, takeovers,
\* lost answers and crashes (handleEngineCheckpointSave's compare and swap).
THEOREM AckedStepKept == Spec => []AckedStepSurvives
  <1>1. AckInv => AckedStepSurvives
    BY DEF AckInv, AckedStepSurvives
  <1> QED BY <1>1, InitIInv, NextIInv, InitAckInv, NextAckInv, PTL DEF Spec
=============================================================================

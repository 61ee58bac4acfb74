------------------------ MODULE PreinstallJobsProofs ------------------------
(***************************************************************************)
(* The theorems about PreinstallJobs, for any number of invocations,        *)
(* attempts, operator changes and faults and any set of catalogs.           *)
(*                                                                         *)
(* A completed job has its plan installed because a worker's remaining      *)
(* entries and the installed ones always add up to its plan (PlanProgress). *)
(* That there is one worker needs what the compare-and-set rests on: a      *)
(* claim that is about to be taken over has expired (TakesOverExpired),     *)
(* since a new locked_at differs from every one that was read before.  A    *)
(* worker whose completing UPDATE threw may find the row completed; nobody   *)
(* claims that (ReadsOpenJob).                                              *)
(***************************************************************************)
EXTENDS PreinstallJobs, FiniteSetTheorems, TLAPS

PlanProgress ==
    \A w \in Workers : worker[w].pc = "install" =>
        /\ worker[w].plan \in Catalogs \cup {{}}
        /\ worker[w].plan \ worker[w].todo \subseteq installed

TakesOverExpired ==
    \A w \in Workers :
        /\ worker[w].pc = "claim" /\ worker[w].status = "in_progress"
        /\ row.status = "in_progress" /\ row.lock = worker[w].lock
        => row.expired

ReadsOpenJob ==
    \A w \in Workers : worker[w].pc = "claim" => worker[w].status # "completed"

\* Unless some invocation was slow, who works on the job holds a fresh claim.
HolderIsAlone ==
    ~slow => \A w \in Workers : Holds(w) =>
        /\ \/ row.status = "in_progress" /\ ~row.expired
           \/ row.status = "completed" /\ worker[w].pc = "fail"
        /\ \A v \in Workers : Holds(v) => v = w

JobInv ==
    /\ PlanProgress /\ CompletedMeansInstalled /\ TakesOverExpired
    /\ ReadsOpenJob /\ HolderIsAlone

IInv == TypeOK /\ JobInv

\* Only the invocation w changes.
OnlyWorker(w) ==
    /\ worker' \in [Workers -> Worker]
    /\ \A v \in Workers \ {w} : worker'[v] = worker[v]

LEMMA IdleType == Idle \in Worker
  BY PreinstallAssumption, FS_CardinalityType
     DEF Idle, Worker, Status, Waiting, Locks, Plans, Working

LEMMA ToIdle ==
  ASSUME TypeOK, NEW w \in Workers, worker' = [worker EXCEPT ![w] = Idle]
  PROVE  OnlyWorker(w) /\ worker'[w].pc = "idle"
  <1>1. OnlyWorker(w) /\ worker'[w] = Idle
    BY IdleType DEF TypeOK, OnlyWorker
  <1> QED BY <1>1 DEF Idle

\* A new locked_at is one that nobody knows: the row's and the claimer's are
\* the same, so the others leave at least one free.
LEMMA NewLockIsNew ==
  ASSUME TypeOK, NEW w \in Workers, row.lock = worker[w].lock
  PROVE  /\ NewLock \in Locks
         /\ \A v \in Workers : worker[v].lock # NewLock
  <1> DEFINE N == Cardinality(Workers)
             f == [v \in Workers |-> worker[v].lock]
             T == {worker[v].lock : v \in Workers}
  <1>1. IsFiniteSet(Workers) /\ N \in Nat
    BY PreinstallAssumption, FS_CardinalityType
  <1>2. f \in Surjection(Workers, T)
    BY DEF Surjection
  <1>3. IsFiniteSet(T) /\ Cardinality(T) <= N
    BY <1>1, <1>2, FS_Surjection
  <1>4. \E n \in 1..(N + 1) : n \notin T
    <2> SUFFICES ASSUME 1..(N + 1) \subseteq T PROVE FALSE
      OBVIOUS
    <2>1. Cardinality(1..(N + 1)) <= Cardinality(T)
      BY <1>3, FS_Subset
    <2>2. Cardinality(1..(N + 1)) = N + 1
      BY <1>1, FS_Interval
    <2>3. Cardinality(T) \in Nat
      BY <1>3, FS_CardinalityType
    <2> QED BY <1>1, <1>3, <2>1, <2>2, <2>3
  <1> HIDE DEF N, f
  <1>5. \E n \in Locks \ {0} : n # row.lock /\ \A v \in Workers : worker[v].lock # n
    <2>1. PICK n \in 1..(N + 1) : n \notin T
      BY <1>4
    <2>2. n \in Locks \ {0}
      BY <1>1, <2>1 DEF Locks, N
    <2> QED BY <2>1, <2>2
  <1> QED BY <1>5 DEF NewLock

(***************************************************************************)
(* Steps by their shape.                                                   *)
(***************************************************************************)

\* An invocation goes on and leaves the row.
LEMMA WorkerStep ==
  ASSUME IInv, NEW w \in Workers, OnlyWorker(w), UNCHANGED <<row, slow>>,
         installed \subseteq installed',
         worker'[w].pc \in Working => worker[w].pc \in Working,
         worker'[w].pc = "fail" => Holds(w),
         worker'[w].pc = "install" =>
            /\ worker'[w].plan \in Catalogs \cup {{}}
            /\ worker'[w].plan \ worker'[w].todo \subseteq installed',
         worker'[w].pc = "claim" => /\ row.status = "in_progress" => row.expired
                                    /\ worker'[w].status # "completed"
  PROVE  JobInv'
  <1>1. JobInv /\ \A v \in Workers \ {w} : worker'[v] = worker[v]
    BY DEF IInv, OnlyWorker
  <1>2. PlanProgress'
    BY <1>1 DEF JobInv, PlanProgress
  <1>3. CompletedMeansInstalled'
    BY <1>1 DEF JobInv, CompletedMeansInstalled
  <1>4. TakesOverExpired' /\ ReadsOpenJob'
    BY <1>1 DEF JobInv, TakesOverExpired, ReadsOpenJob
  <1>5. HolderIsAlone'
    <2>1. Holds(w)' => Holds(w)
      BY DEF Holds
    <2>2. "fail" \notin Working
      BY DEF Working
    <2> QED BY <1>1, <2>1, <2>2 DEF JobInv, HolderIsAlone, Holds
  <1> QED BY <1>2, <1>3, <1>4, <1>5 DEF JobInv

\* The row changes and nobody works on it, or it is not claimed.
LEMMA RowStep ==
  ASSUME IInv, UNCHANGED <<worker, slow, installed>>,
         row.status \notin {"in_progress", "completed"},
         row'.status \notin {"in_progress", "completed"}
  PROVE  JobInv'
  <1>1. JobInv
    BY DEF IInv
  <1>2. PlanProgress' /\ CompletedMeansInstalled' /\ TakesOverExpired' /\ ReadsOpenJob'
    BY <1>1 DEF JobInv, PlanProgress, CompletedMeansInstalled, TakesOverExpired, ReadsOpenJob
  <1>3. HolderIsAlone'
    BY <1>1 DEF JobInv, HolderIsAlone, Holds
  <1> QED BY <1>2, <1>3 DEF JobInv

\* What neither the job nor an invocation is changed by.
LEMMA ConfigStep ==
  ASSUME IInv, UNCHANGED <<row, worker, slow, installed>>
  PROVE  JobInv'
  BY DEF IInv, JobInv, PlanProgress, CompletedMeansInstalled, TakesOverExpired,
         ReadsOpenJob, HolderIsAlone, Holds

LEMMA EndClaimStep ==
  ASSUME IInv, NEW w \in Workers, Holds(w),
         NEW status \in Status \ {"in_progress"}, NEW due \in BOOLEAN, NEW plan \in Plans,
         status = "completed" => plan # None /\ plan \subseteq installed,
         EndClaim(w, status, due, plan), UNCHANGED <<slow, installed>>
  PROVE  row' \in Row /\ worker' \in [Workers -> Worker] /\ JobInv'
  <1>1. TypeOK /\ JobInv
    BY DEF IInv
  <1>2. /\ row' = [row EXCEPT !.status = status, !.lock = 0, !.due = due,
                              !.plan = plan, !.expired = FALSE]
        /\ worker' = [worker EXCEPT ![w] = Idle]
    BY DEF EndClaim, Release
  <1>3. row \in Row /\ 0 \in Locks
    BY <1>1, PreinstallAssumption, FS_CardinalityType DEF TypeOK, Locks
  <1>4. row' \in Row /\ row'.status = status /\ row'.plan = plan
    BY <1>2, <1>3 DEF Row
  <1>5. /\ worker' \in [Workers -> Worker] /\ worker'[w].pc = "idle"
        /\ \A v \in Workers \ {w} : worker'[v] = worker[v]
    BY <1>1, <1>2, ToIdle DEF OnlyWorker
  <1>6. PlanProgress'
    BY <1>1, <1>5 DEF JobInv, PlanProgress
  <1>7. CompletedMeansInstalled' /\ TakesOverExpired' /\ ReadsOpenJob'
    BY <1>1, <1>4, <1>5 DEF JobInv, CompletedMeansInstalled, TakesOverExpired, ReadsOpenJob
  <1>8. HolderIsAlone'
    BY <1>1, <1>5 DEF JobInv, HolderIsAlone, Holds, Working
  <1> QED BY <1>4, <1>5, <1>6, <1>7, <1>8 DEF JobInv

LEMMA FaultType ==
  ASSUME TypeOK, Fault
  PROVE  faults' \in 0..MaxFaults
  BY PreinstallAssumption DEF TypeOK, Fault

LEMMA ChangeType ==
  ASSUME TypeOK, Change
  PROVE  changes' \in 0..MaxChanges
  BY PreinstallAssumption DEF TypeOK, Change

(***************************************************************************)
(* Enqueueing and time.                                                    *)
(***************************************************************************)

LEMMA EnqueueKeeps ==
  ASSUME IInv, Enqueue \/ BecomeDue
  PROVE  IInv'
  <1>1. TypeOK /\ row \in Row
    BY DEF IInv, TypeOK
  <1>2. UNCHANGED <<worker, installed, slow, faults, Config>>
    BY DEF Enqueue, BecomeDue
  <1>3. /\ row' \in Row /\ row.status \notin {"in_progress", "completed"}
        /\ row'.status \notin {"in_progress", "completed"}
    BY <1>1 DEF Enqueue, BecomeDue, Row, Status, Waiting
  <1>4. JobInv'
    BY <1>2, <1>3, RowStep
  <1> QED BY <1>1, <1>2, <1>3, <1>4 DEF IInv, TypeOK, Config

LEMMA ExpireKeeps ==
  ASSUME IInv, LeaseExpires
  PROVE  IInv'
  <1>1. TypeOK /\ JobInv /\ row \in Row
    BY DEF IInv, TypeOK
  <1>2. /\ row.status = "in_progress" /\ row' = [row EXCEPT !.expired = TRUE]
        /\ UNCHANGED <<worker, installed, Config>>
    BY DEF LeaseExpires
  <1>3. /\ row' \in Row /\ row'.expired = TRUE /\ row'.status = "in_progress"
        /\ row'.plan = row.plan
    BY <1>1, <1>2 DEF Row
  <1>4. /\ slow' \in BOOLEAN /\ faults' \in 0..MaxFaults
        /\ ~slow' => \A w \in Workers : ~Holds(w)
    BY <1>1, FaultType DEF LeaseExpires, TypeOK
  <1>5. PlanProgress' /\ CompletedMeansInstalled' /\ TakesOverExpired' /\ ReadsOpenJob'
    BY <1>1, <1>2, <1>3
       DEF JobInv, PlanProgress, CompletedMeansInstalled, TakesOverExpired, ReadsOpenJob
  <1>6. HolderIsAlone'
    BY <1>2, <1>4 DEF HolderIsAlone, Holds
  <1> QED BY <1>1, <1>2, <1>3, <1>4, <1>5, <1>6 DEF IInv, JobInv, TypeOK, Config

(***************************************************************************)
(* The invocations.                                                        *)
(***************************************************************************)

LEMMA ReadKeeps ==
  ASSUME IInv, NEW w \in Workers, ReadJob(w)
  PROVE  IInv'
  <1>1. TypeOK /\ row \in Row /\ worker \in [Workers -> Worker]
    BY DEF IInv, TypeOK
  <1> DEFINE new == [Idle EXCEPT !.pc = "claim", !.status = row.status, !.lock = row.lock,
                                 !.attempts = row.attempts, !.stored = row.plan]
  <1>2. /\ Due /\ worker' = [worker EXCEPT ![w] = new]
        /\ UNCHANGED <<row, installed, slow, faults, Config>>
    BY DEF ReadJob
  <1>3. new \in Worker /\ new.pc = "claim" /\ new.status = row.status
    BY <1>1, IdleType DEF Worker, Row, Idle
  <1> HIDE DEF new
  <1>4. OnlyWorker(w) /\ worker'[w] = new
    BY <1>1, <1>2, <1>3 DEF OnlyWorker
  <1>5. (row.status = "in_progress" => row.expired) /\ row.status # "completed"
    BY <1>2 DEF Due, Waiting
  <1>6. JobInv'
    BY <1>2, <1>3, <1>4, <1>5, WorkerStep DEF Working
  <1> QED BY <1>1, <1>2, <1>4, <1>6 DEF IInv, TypeOK, Config, OnlyWorker

LEMMA ClaimKeeps ==
  ASSUME IInv, NEW w \in Workers, Claim(w)
  PROVE  IInv'
  <1>1. TypeOK /\ JobInv /\ row \in Row /\ worker \in [Workers -> Worker] /\ worker[w] \in Worker
    BY DEF IInv, TypeOK
  <1>2. worker[w].pc = "claim" /\ UNCHANGED <<installed, slow, faults, Config>>
    BY DEF Claim
  <1>3. CASE ~Unclaimed(w)
    <2>1. worker' = [worker EXCEPT ![w] = Idle] /\ row' = row
      BY <1>3 DEF Claim
    <2>2. OnlyWorker(w) /\ worker'[w].pc = "idle"
      BY <1>1, <2>1, ToIdle
    <2>3. JobInv'
      BY <1>2, <2>1, <2>2, WorkerStep DEF Working
    <2> QED BY <1>1, <1>2, <2>1, <2>2, <2>3 DEF IInv, TypeOK, Config, OnlyWorker
  <1>4. CASE Unclaimed(w)
    <2> DEFINE n == NextAttempt(worker[w].attempts)
    <2>1. n \in 0..MaxAttempts
      BY <1>1, PreinstallAssumption DEF NextAttempt, Worker
    <2>2. /\ row' = [row EXCEPT !.status = "in_progress", !.lock = NewLock,
                                !.attempts = n, !.expired = FALSE]
          /\ worker' = [worker EXCEPT ![w] = [worker[w] EXCEPT !.pc = "check",
                                                               !.attempts = n]]
      BY <1>1, <1>4 DEF Claim
    <2> HIDE DEF n
    <2>3. /\ NewLock \in Locks /\ \A v \in Workers : worker[v].lock # NewLock
      BY <1>1, <1>4, NewLockIsNew DEF Unclaimed
    <2>4. /\ row' \in Row /\ row'.status = "in_progress" /\ row'.lock = NewLock
          /\ ~row'.expired
      BY <1>1, <2>1, <2>2, <2>3 DEF Row, Status
    <2>5. [worker[w] EXCEPT !.pc = "check", !.attempts = n] \in Worker
      BY <1>1, <2>1 DEF Worker, Working
    <2>6. OnlyWorker(w) /\ worker'[w].pc = "check" /\ worker'[w].lock = worker[w].lock
      <3>1. worker' \in [Workers -> Worker]
        BY <1>1, <2>2, <2>5
      <3>2. worker'[w] = [worker[w] EXCEPT !.pc = "check", !.attempts = n]
        BY <1>1, <2>2
      <3>3. \A v \in Workers \ {w} : worker'[v] = worker[v]
        BY <1>1, <2>2
      <3> QED BY <1>1, <3>1, <3>2, <3>3 DEF OnlyWorker, Worker
    <2>7. slow \/ \A v \in Workers : ~Holds(v)
      <3> SUFFICES ASSUME ~slow, NEW v \in Workers, Holds(v) PROVE FALSE
        OBVIOUS
      <3>1. (row.status = "in_progress" /\ ~row.expired) \/ row.status = "completed"
        BY <1>1 DEF JobInv, HolderIsAlone
      <3> QED BY <1>1, <1>2, <1>4, <3>1 DEF JobInv, TakesOverExpired, ReadsOpenJob, Unclaimed
    <2>8. PlanProgress' /\ CompletedMeansInstalled'
      BY <1>1, <1>2, <2>4, <2>6
         DEF JobInv, PlanProgress, CompletedMeansInstalled, OnlyWorker
    <2>9. TakesOverExpired' /\ ReadsOpenJob'
      BY <1>1, <2>3, <2>4, <2>6 DEF JobInv, TakesOverExpired, ReadsOpenJob, OnlyWorker
    <2>10. HolderIsAlone'
      <3> SUFFICES ASSUME ~slow' PROVE HolderIsAlone'
        BY DEF HolderIsAlone
      <3>1. \A v \in Workers \ {w} : ~Holds(v)'
        BY <1>2, <2>6, <2>7 DEF Holds, OnlyWorker
      <3> QED BY <2>4, <3>1 DEF HolderIsAlone
    <2>11. JobInv'
      BY <2>8, <2>9, <2>10 DEF JobInv
    <2> QED BY <1>1, <1>2, <2>4, <2>6, <2>11 DEF IInv, TypeOK, Config, OnlyWorker
  <1> QED BY <1>3, <1>4

\* The type of everything but the row and the invocations.
LEMMA EndKeeps ==
  ASSUME IInv, row' \in Row, worker' \in [Workers -> Worker], JobInv',
         UNCHANGED <<installed, slow, faults, Config>>
  PROVE  IInv'
  BY DEF IInv, TypeOK, Config

LEMMA CheckKeeps ==
  ASSUME IInv, NEW w \in Workers, CheckEnabled(w)
  PROVE  IInv'
  <1>1. /\ TypeOK /\ row \in Row /\ row.plan \in Plans
        /\ worker \in [Workers -> Worker] /\ worker[w] \in Worker
    BY DEF IInv, TypeOK, Row
  <1>2. Holds(w) /\ UNCHANGED <<installed, slow, faults, Config>>
    BY DEF CheckEnabled, Holds, Working
  <1> worker[w].pc \in Working
    BY DEF CheckEnabled, Working
  <1>3. CASE EndClaim(w, "paused_by_operator", FALSE, row.plan)
    <2>1. "paused_by_operator" \in Status \ {"in_progress"}
      BY DEF Status, Waiting
    <2>2. row' \in Row /\ worker' \in [Workers -> Worker] /\ JobInv'
      BY <1>1, <1>2, <1>3, <2>1, EndClaimStep
    <2> QED BY <1>2, <2>2, EndKeeps
  <1>4. CASE worker' = [worker EXCEPT ![w].pc = "resolve"] /\ UNCHANGED row
    <2>1. OnlyWorker(w) /\ worker'[w].pc = "resolve"
      BY <1>1, <1>4 DEF OnlyWorker, Worker, Working
    <2>2. JobInv'
      BY <1>2, <1>4, <2>1, WorkerStep
    <2> QED BY <1>1, <1>2, <1>4, <2>1, <2>2, EndKeeps DEF OnlyWorker
  <1> QED BY <1>3, <1>4 DEF CheckEnabled

\* An error leaves the row to the catch block.
LEMMA RaiseStep ==
  ASSUME IInv, NEW w \in Workers, Holds(w), NEW error \in {"plain", "config"},
         Raise(w, error), UNCHANGED <<row, slow>>, installed \subseteq installed'
  PROVE  worker' \in [Workers -> Worker] /\ JobInv'
  <1>1. worker \in [Workers -> Worker] /\ worker[w] \in Worker
    BY DEF IInv, TypeOK
  <1>2. worker' = [worker EXCEPT ![w] = [worker[w] EXCEPT !.pc = "fail", !.error = error]]
    BY <1>1 DEF Raise
  <1>3. /\ [worker[w] EXCEPT !.pc = "fail", !.error = error] \in Worker
        /\ [worker[w] EXCEPT !.pc = "fail", !.error = error].pc = "fail"
    BY <1>1 DEF Worker
  <1>4. OnlyWorker(w) /\ worker'[w].pc = "fail"
    BY <1>1, <1>2, <1>3 DEF OnlyWorker
  <1> QED BY <1>4, WorkerStep DEF OnlyWorker, Working

LEMMA ResolveKeeps ==
  ASSUME IInv, NEW w \in Workers, ResolvePlan(w)
  PROVE  IInv'
  <1> DEFINE plan == IF worker[w].stored # None THEN worker[w].stored ELSE catalog
             new == [worker[w] EXCEPT !.pc = "install", !.plan = plan, !.todo = plan]
  <1>1. /\ TypeOK /\ row \in Row
        /\ worker \in [Workers -> Worker] /\ worker[w] \in Worker
    BY DEF IInv, TypeOK
  <1>2. Holds(w) /\ UNCHANGED <<row, installed, slow, faults, Config>>
    BY DEF ResolvePlan, Holds, Working
  <1> worker[w].pc \in Working
    BY DEF ResolvePlan, Working
  <1>3. CASE worker' = [worker EXCEPT ![w].pc = "install", ![w].plan = plan,
                                      ![w].todo = plan]
    <2>1. plan \in Catalogs \cup {{}}
      BY <1>1 DEF TypeOK, Worker, Plans
    <2>2. worker' = [worker EXCEPT ![w] = new]
      BY <1>1, <1>3
    <2> HIDE DEF plan
    <2>3. plan \in Plans /\ plan \in SUBSET Entries
      BY <2>1 DEF Plans, Entries
    <2>4. /\ new \in Worker /\ new.pc = "install" /\ new.plan = plan
          /\ new.todo = plan
      BY <1>1, <2>3 DEF Worker, Working
    <2> HIDE DEF new
    <2>5. OnlyWorker(w) /\ worker'[w] = new
      BY <1>1, <2>2, <2>4 DEF OnlyWorker
    <2>6. JobInv'
      BY <1>2, <2>1, <2>4, <2>5, WorkerStep
    <2> QED BY <1>1, <1>2, <2>5, <2>6, EndKeeps DEF OnlyWorker
  <1>4. CASE Raise(w, "config") \/ Raise(w, "plain")
    <2>1. worker' \in [Workers -> Worker] /\ JobInv'
      BY <1>2, <1>4, RaiseStep
    <2> QED BY <1>1, <1>2, <2>1, EndKeeps
  <1> QED BY <1>3, <1>4 DEF ResolvePlan

LEMMA InstallKeeps ==
  ASSUME IInv, NEW w \in Workers, InstallEntry(w)
  PROVE  IInv'
  <1>1. /\ TypeOK /\ JobInv /\ worker \in [Workers -> Worker] /\ worker[w] \in Worker
    BY DEF IInv, TypeOK
  <1>2. /\ Holds(w) /\ worker[w].pc = "install" /\ UNCHANGED <<row, slow, Config>>
    BY DEF InstallEntry, Holds, Working
  <1> worker[w].pc \in Working
    BY <1>2 DEF Working
  <1>3. PICK e \in worker[w].todo :
          \/ /\ installed' = installed \cup {e}
             /\ worker' = [worker EXCEPT ![w].todo = @ \ {e}]
             /\ UNCHANGED faults
          \/ installed' = installed \cup {e} /\ Raise(w, "plain") /\ Fault
          \/ UNCHANGED <<installed, faults>> /\ Raise(w, "plain")
    BY DEF InstallEntry
  <1>4. e \in Entries /\ worker[w].todo \in SUBSET Entries
    BY <1>1 DEF Worker
  <1>5. /\ installed' \subseteq Entries /\ installed \subseteq installed'
        /\ faults' \in 0..MaxFaults
    BY <1>1, <1>3, <1>4, FaultType DEF TypeOK
  <1>6. worker' \in [Workers -> Worker] /\ JobInv'
    <2>1. CASE Raise(w, "plain")
      BY <1>2, <1>5, <2>1, RaiseStep
    <2>2. CASE /\ installed' = installed \cup {e}
               /\ worker' = [worker EXCEPT ![w].todo = @ \ {e}]
      <3> DEFINE new == [worker[w] EXCEPT !.todo = worker[w].todo \ {e}]
      <3>1. worker' = [worker EXCEPT ![w] = new]
        BY <1>1, <2>2
      <3>2. /\ new \in Worker /\ new.pc = "install" /\ new.plan = worker[w].plan
            /\ new.todo = worker[w].todo \ {e}
        BY <1>1, <1>2, <1>4 DEF Worker
      <3> HIDE DEF new
      <3>3. OnlyWorker(w) /\ worker'[w] = new
        BY <1>1, <3>1, <3>2 DEF OnlyWorker
      <3>4. /\ worker[w].plan \in Catalogs \cup {{}}
            /\ worker[w].plan \ worker[w].todo \subseteq installed
        BY <1>1, <1>2 DEF JobInv, PlanProgress
      <3> QED BY <1>2, <1>5, <2>2, <3>2, <3>3, <3>4, WorkerStep DEF OnlyWorker
    <2> QED BY <1>3, <2>1, <2>2
  <1> QED BY <1>1, <1>2, <1>5, <1>6 DEF IInv, TypeOK, Config

LEMMA CompleteKeeps ==
  ASSUME IInv, NEW w \in Workers, Complete(w)
  PROVE  IInv'
  <1>1. /\ Holds(w) /\ worker[w].pc = "install" /\ worker[w].todo = {}
        /\ EndClaim(w, "completed", TRUE, worker[w].plan)
        /\ UNCHANGED <<installed, slow, faults, Config>>
    BY DEF Complete, PlanDone, Holds, Working
  <1>2. /\ worker[w].plan \in Catalogs \cup {{}}
        /\ worker[w].plan \ worker[w].todo \subseteq installed
    BY <1>1 DEF IInv, JobInv, PlanProgress
  <1>3. /\ worker[w].plan \in Plans /\ worker[w].plan # None
        /\ worker[w].plan \subseteq installed
    BY <1>1, <1>2, PreinstallAssumption DEF Plans
  <1>4. "completed" \in Status \ {"in_progress"}
    BY DEF Status
  <1>5. row' \in Row /\ worker' \in [Workers -> Worker] /\ JobInv'
    BY <1>1, <1>3, <1>4, EndClaimStep
  <1> QED BY <1>1, <1>5, EndKeeps

LEMMA ThrowKeeps ==
  ASSUME IInv, NEW w \in Workers, UpdateThrows(w)
  PROVE  IInv'
  <1>1. /\ TypeOK /\ JobInv /\ row \in Row
        /\ worker \in [Workers -> Worker] /\ worker[w] \in Worker
    BY DEF IInv, TypeOK
  <1>2. /\ Holds(w) /\ Raise(w, "plain") /\ faults' \in 0..MaxFaults
        /\ UNCHANGED <<installed, slow, Config>>
    BY <1>1, FaultType DEF UpdateThrows, Holds, Working
  <1>3. CASE row' = row
    <2>1. worker' \in [Workers -> Worker] /\ JobInv'
      BY <1>2, <1>3, RaiseStep
    <2> QED BY <1>1, <1>2, <1>3, <2>1 DEF IInv, TypeOK, Config
  <1>4. CASE /\ worker[w].pc = "install" /\ worker[w].todo = {}
             /\ Release("completed", TRUE, worker[w].plan)
    <2>1. /\ worker[w].plan \in Plans /\ worker[w].plan # None
          /\ worker[w].plan \subseteq installed
      BY <1>1, <1>4, PreinstallAssumption DEF JobInv, PlanProgress, Plans
    <2>2. 0 \in Locks /\ "completed" \in Status
      BY PreinstallAssumption, FS_CardinalityType DEF Locks, Status
    <2>3. /\ row' \in Row /\ row'.status = "completed" /\ row'.plan = worker[w].plan
      BY <1>1, <1>4, <2>1, <2>2 DEF Release, Row
    <2> DEFINE new == [worker[w] EXCEPT !.pc = "fail", !.error = "plain"]
    <2>4. worker' = [worker EXCEPT ![w] = new] /\ new \in Worker /\ new.pc = "fail"
      BY <1>1, <1>2 DEF Raise, Worker
    <2> HIDE DEF new
    <2>5. OnlyWorker(w) /\ worker'[w].pc = "fail"
      BY <1>1, <2>4 DEF OnlyWorker
    <2>6. PlanProgress' /\ CompletedMeansInstalled' /\ TakesOverExpired' /\ ReadsOpenJob'
      BY <1>1, <1>2, <2>1, <2>3, <2>5
         DEF JobInv, PlanProgress, CompletedMeansInstalled, TakesOverExpired, ReadsOpenJob,
             OnlyWorker
    <2>7. HolderIsAlone'
      BY <1>1, <1>2, <2>3, <2>5 DEF JobInv, HolderIsAlone, Holds, OnlyWorker
    <2> QED BY <1>1, <1>2, <2>3, <2>5, <2>6, <2>7 DEF IInv, JobInv, TypeOK, Config, OnlyWorker
  <1> QED BY <1>3, <1>4 DEF UpdateThrows, PlanDone

LEMMA RecordKeeps ==
  ASSUME IInv, NEW w \in Workers, RecordError(w)
  PROVE  IInv'
  <1>1. Holds(w) /\ UNCHANGED <<installed, slow, faults, Config>>
    BY DEF RecordError, Holds
  <1>2. PICK status \in {"blocked_by_config", "failed", "queued"}, due \in BOOLEAN,
             plan \in {None, row.plan} : EndClaim(w, status, due, plan)
    BY DEF RecordError
  <1>3. status \in Status \ {"in_progress"} /\ status # "completed" /\ plan \in Plans
    BY <1>2 DEF Status, Waiting, IInv, TypeOK, Row, Plans
  <1>4. row' \in Row /\ worker' \in [Workers -> Worker] /\ JobInv'
    BY <1>1, <1>2, <1>3, EndClaimStep
  <1> QED BY <1>1, <1>4, EndKeeps

LEMMA CrashKeeps ==
  ASSUME IInv, NEW w \in Workers, Crash(w)
  PROVE  IInv'
  <1>1. TypeOK
    BY DEF IInv
  <1>2. /\ worker' = [worker EXCEPT ![w] = Idle] /\ faults' \in 0..MaxFaults
        /\ UNCHANGED <<row, installed, slow, Config>>
    BY <1>1, FaultType DEF Crash
  <1>3. OnlyWorker(w) /\ worker'[w].pc = "idle"
    BY <1>1, <1>2, ToIdle
  <1>4. JobInv'
    BY <1>2, <1>3, WorkerStep DEF Working
  <1> QED BY <1>1, <1>2, <1>3, <1>4 DEF IInv, TypeOK, Config, OnlyWorker

(***************************************************************************)
(* The operator.                                                           *)
(***************************************************************************)

LEMMA OperatorKeeps ==
  ASSUME IInv, SaveCatalog \/ ChangeEnvironment
  PROVE  IInv'
  <1>1. TypeOK /\ row \in Row
    BY DEF IInv, TypeOK
  <1>2. /\ UNCHANGED <<worker, installed, slow, faults>>
        /\ changes' \in 0..MaxChanges /\ catalog' \in Catalogs \cup {{}}
        /\ saving' \in {"none", "deleted", "inserted"}
        /\ valid' \in BOOLEAN /\ enabled' \in BOOLEAN
    <2>1. CASE ChangeEnvironment
      BY <1>1, <2>1, ChangeType DEF ChangeEnvironment, TypeOK
    <2>2. CASE SaveCatalog
      BY <1>1, <2>2, ChangeType
         DEF SaveCatalog, DeleteCatalog, InsertCatalog, RequeueBlocked, AbandonSave, TypeOK
    <2> QED BY <2>1, <2>2
  <1>3. CASE row' = row
    <2>1. JobInv'
      BY <1>2, <1>3, ConfigStep
    <2> QED BY <1>1, <1>2, <1>3, <2>1 DEF IInv, TypeOK
  <1>4. CASE /\ row.status = "blocked_by_config"
             /\ row' = [row EXCEPT !.status = "queued", !.lock = 0, !.due = TRUE,
                                   !.plan = None]
    <2>1. 0 \in Locks /\ None \in Plans /\ "queued" \in Status
      BY PreinstallAssumption, FS_CardinalityType DEF Locks, Plans, Status, Waiting
    <2>2. row' \in Row /\ row'.status = "queued"
      BY <1>1, <1>4, <2>1 DEF Row
    <2>3. JobInv'
      BY <1>2, <1>4, <2>2, RowStep
    <2> QED BY <1>1, <1>2, <2>2, <2>3 DEF IInv, TypeOK
  <1>5. CASE RequeueBlocked
    BY <1>3, <1>4, <1>5 DEF RequeueBlocked
  <1>6. CASE DeleteCatalog \/ InsertCatalog \/ AbandonSave \/ ChangeEnvironment
    BY <1>3, <1>6 DEF DeleteCatalog, InsertCatalog, AbandonSave, ChangeEnvironment
  <1> QED BY <1>5, <1>6 DEF SaveCatalog

(***************************************************************************)
(* The theorems.                                                           *)
(***************************************************************************)

LEMMA InitIInv == Init => IInv
  <1> SUFFICES ASSUME Init PROVE IInv
    OBVIOUS
  <1>1. /\ row = [status |-> "none", attempts |-> 0, lock |-> 0, plan |-> None,
                  due |-> TRUE, expired |-> FALSE]
        /\ worker = [w \in Workers |-> Idle] /\ installed = {}
    BY DEF Init
  <1>2. 0 \in Locks /\ None \in Plans /\ "none" \in Status /\ 0 \in 0..MaxAttempts
    BY PreinstallAssumption, FS_CardinalityType DEF Locks, Plans, Status
  <1>3. row \in Row /\ row.status = "none"
    BY <1>1, <1>2 DEF Row
  <1>4. worker \in [Workers -> Worker]
    BY <1>1, IdleType
  <1>5. TypeOK
    <2>1. /\ catalog \in Catalogs \cup {{}} /\ installed \subseteq Entries
          /\ saving \in {"none", "deleted", "inserted"}
      BY PreinstallAssumption DEF Init
    <2>2. changes \in 0..MaxChanges /\ faults \in 0..MaxFaults
      BY PreinstallAssumption DEF Init
    <2>3. valid \in BOOLEAN /\ enabled \in BOOLEAN /\ slow \in BOOLEAN
      BY DEF Init
    <2> QED BY <1>3, <1>4, <2>1, <2>2, <2>3 DEF TypeOK
  <1>6. \A w \in Workers : worker[w].pc = "idle"
    BY <1>1 DEF Idle
  <1>7. JobInv
    BY <1>3, <1>6
       DEF JobInv, PlanProgress, CompletedMeansInstalled, TakesOverExpired,
           ReadsOpenJob, HolderIsAlone, Holds, Working
  <1> QED BY <1>5, <1>7 DEF IInv

LEMMA NextIInv == IInv /\ [Next]_vars => IInv'
  <1> SUFFICES ASSUME IInv, [Next]_vars PROVE IInv'
    OBVIOUS
  <1>1. CASE Enqueue \/ BecomeDue \/ LeaseExpires
    BY <1>1, EnqueueKeeps, ExpireKeeps
  <1>2. ASSUME NEW w \in Workers, Process(w) \/ UpdateThrows(w) \/ Crash(w)
        PROVE  IInv'
    BY <1>2, ReadKeeps, ClaimKeeps, CheckKeeps, ResolveKeeps, InstallKeeps,
       CompleteKeeps, ThrowKeeps, RecordKeeps, CrashKeeps DEF Process
  <1>3. CASE SaveCatalog \/ ChangeEnvironment
    BY <1>3, OperatorKeeps
  <1>4. CASE UNCHANGED vars
    <2>1. UNCHANGED <<row, worker, catalog, saving, valid, enabled, installed, slow,
                      changes, faults>>
      BY <1>4 DEF vars
    <2>2. JobInv'
      BY <2>1, ConfigStep
    <2> QED BY <2>1, <2>2 DEF IInv, TypeOK
  <1> QED BY <1>1, <1>2, <1>3, <1>4 DEF Next

THEOREM SpecIInv == Spec => []IInv
  BY InitIInv, NextIInv, PTL DEF Spec

\* Every variable of the preinstall job keeps its type.
THEOREM PreinstallTypeCorrect == Spec => []TypeOK
  <1>1. IInv => TypeOK
    BY DEF IInv
  <1> QED BY SpecIInv, <1>1, PTL

\* A job that says completed has all of its plan installed, also when workers
\* without a claim write its row.
THEOREM CompletedIsInstalled == Spec => []CompletedMeansInstalled
  <1>1. IInv => CompletedMeansInstalled
    BY DEF IInv, JobInv
  <1> QED BY SpecIInv, <1>1, PTL

\* The claim's compare-and-set excludes a second worker for as long as none
\* outlives its lease.
THEOREM WorkersExclude == Spec => []OneWorkerPerJob
  <1>1. IInv => OneWorkerPerJob
    BY DEF IInv, JobInv, HolderIsAlone, OneWorkerPerJob
  <1> QED BY SpecIInv, <1>1, PTL
=============================================================================

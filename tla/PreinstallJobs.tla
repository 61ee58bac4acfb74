-------------------------- MODULE PreinstallJobs --------------------------
(***************************************************************************)
(* The featured-app preinstall job of one space: its row, the invocations   *)
(* of processFeaturedAppPreinstallJobs that work on it (after the creation  *)
(* of a space, on visits to the list of spaces and by the quarter-hour       *)
(* cron), and the operator, who replaces the catalog, breaks or repairs its *)
(* configuration and switches preinstallation off and on                    *)
(* (featured-app-preinstall-jobs.ts).                                       *)
(*                                                                         *)
(* Every SQL statement and every installation is a step.  A claim is a      *)
(* compare-and-set on status and locked_at; the statements that end a       *)
(* claim name the row by its id alone.  Attempts count up to MaxAttempts,   *)
(* beyond which the code does not tell them apart.                          *)
(***************************************************************************)
EXTENDS Naturals, FiniteSets

CONSTANTS
    Workers,      \* invocations that may be open at a time
    Catalogs,     \* catalogs the operator may save, each a set of entries
    FirstCatalog, \* the one that is there at the start
    None,         \* no stored plan
    MaxAttempts,  \* FEATURED_APP_PREINSTALL_MAX_ATTEMPTS
    MaxChanges,   \* bound on what the operator does
    MaxFaults     \* bound on crashes, lost answers and slow workers

ASSUME PreinstallAssumption ==
    /\ FirstCatalog \in Catalogs /\ None \notin Catalogs \cup {{}}
    /\ MaxAttempts \in Nat \ {0}
    /\ IsFiniteSet(Workers)
    /\ MaxChanges \in Nat /\ MaxFaults \in Nat

VARIABLES
    row,        \* the row of the job
    worker,     \* progress of each invocation
    catalog,    \* the saved catalog
    saving,     \* how far a change of the catalog has got
    valid,      \* the configuration of catalog and installer can be read
    enabled,    \* preinstallation is switched on
    installed,  \* entries that the installer has applied to the space
    slow,       \* some invocation has outlived its lease
    changes,    \* operator changes so far
    faults      \* faults so far

vars == <<row, worker, catalog, saving, valid, enabled, installed, slow, changes, faults>>

Entries == UNION Catalogs
Plans == Catalogs \cup {{}, None}

Waiting == {"queued", "blocked_by_config", "paused_by_operator"}
Status == Waiting \cup {"none", "in_progress", "completed", "failed"}
\* A locked_at is only compared for equality with one that was read before:
\* a number that no one knows stands for a new one.
Locks == 0..(Cardinality(Workers) + 1)
\* lock is locked_at, 0 for NULL; due and expired are what has become of
\* next_attempt_at and of the lease since they were written.
Row == [status : Status, attempts : 0..MaxAttempts, lock : Locks,
        plan : Plans, due : BOOLEAN, expired : BOOLEAN]

Working == {"check", "resolve", "install"}
Worker == [pc : Working \cup {"idle", "claim", "fail"}, status : Status,
           lock : Locks, attempts : 0..MaxAttempts, stored : Plans,
           plan : Plans, todo : SUBSET Entries, error : {"none", "plain", "config"}]

TypeOK ==
    /\ row \in Row
    /\ worker \in [Workers -> Worker]
    /\ catalog \in Catalogs \cup {{}}
    /\ saving \in {"none", "deleted", "inserted"}
    /\ valid \in BOOLEAN /\ enabled \in BOOLEAN /\ slow \in BOOLEAN
    /\ installed \subseteq Entries
    /\ changes \in 0..MaxChanges /\ faults \in 0..MaxFaults

Idle == [pc |-> "idle", status |-> "none", lock |-> 0, attempts |-> 0,
         stored |-> None, plan |-> None, todo |-> {}, error |-> "none"]

Init ==
    /\ row = [status |-> "none", attempts |-> 0, lock |-> 0, plan |-> None,
              due |-> TRUE, expired |-> FALSE]
    /\ worker = [w \in Workers |-> Idle]
    /\ catalog = FirstCatalog /\ saving = "none"
    /\ valid \in BOOLEAN /\ enabled = TRUE
    /\ installed = {} /\ slow = FALSE
    /\ changes = 0 /\ faults = 0

Fault == faults < MaxFaults /\ faults' = faults + 1
Config == <<catalog, saving, valid, enabled, changes>>

(***************************************************************************)
(* Enqueueing and time.                                                    *)
(***************************************************************************)

\* enqueueFeaturedAppPreinstallJob: INSERT ... ON CONFLICT DO NOTHING.
Enqueue ==
    /\ row.status = "none" /\ enabled
    /\ row' = IF valid THEN [row EXCEPT !.status = "queued"]
              ELSE [row EXCEPT !.status = "blocked_by_config", !.due = FALSE]
    /\ UNCHANGED <<worker, installed, slow, faults, Config>>

BecomeDue ==
    /\ row.status \in Waiting /\ ~row.due
    /\ row' = [row EXCEPT !.due = TRUE]
    /\ UNCHANGED <<worker, installed, slow, faults, Config>>

\* The invocation that wrote locked_at, while it works.
Holds(w) == worker[w].pc \in Working \cup {"fail"}

\* Fifteen minutes pass; a worker that is still at it is slow.
LeaseExpires ==
    /\ row.status = "in_progress" /\ ~row.expired
    /\ row' = [row EXCEPT !.expired = TRUE]
    /\ IF \E w \in Workers : Holds(w)
       THEN slow' = TRUE /\ Fault
       ELSE UNCHANGED <<slow, faults>>
    /\ UNCHANGED <<worker, installed, Config>>

(***************************************************************************)
(* processFeaturedAppPreinstallJobs.                                       *)
(***************************************************************************)

\* Mutant: a claim is never taken over.
DueUnlessClaimed == row.status \in Waiting /\ row.due

\* duePreinstallJobs and the predicate of the SELECT.
Due ==
    \/ row.status \in Waiting /\ row.due
    \/ row.status = "in_progress" /\ row.expired

\* The SELECT: the invocation keeps the row as it read it.
ReadJob(w) ==
    /\ worker[w].pc = "idle" /\ Due
    /\ worker' = [worker EXCEPT ![w] =
          [Idle EXCEPT !.pc = "claim", !.status = row.status, !.lock = row.lock,
                       !.attempts = row.attempts, !.stored = row.plan]]
    /\ UNCHANGED <<row, installed, slow, faults, Config>>

\* Mutant: the claim compares the status only.
SameStatus(w) == row.status = worker[w].status

\* The condition of the claim's UPDATE.
Unclaimed(w) == row.status = worker[w].status /\ row.lock = worker[w].lock

NextAttempt(n) == IF n < MaxAttempts THEN n + 1 ELSE MaxAttempts

\* The timestamp of the claim.
NewLock == CHOOSE n \in Locks \ {0} :
                n # row.lock /\ \A w \in Workers : worker[w].lock # n

\* claimFeaturedAppPreinstallJob.
Claim(w) ==
    /\ worker[w].pc = "claim"
    /\ IF Unclaimed(w)
       THEN /\ row' = [row EXCEPT !.status = "in_progress", !.lock = NewLock,
                                  !.attempts = NextAttempt(worker[w].attempts),
                                  !.expired = FALSE]
            /\ worker' = [worker EXCEPT ![w].pc = "check",
                                        ![w].attempts = NextAttempt(@)]
       ELSE /\ worker' = [worker EXCEPT ![w] = Idle]
            /\ UNCHANGED row
    /\ UNCHANGED <<installed, slow, faults, Config>>

\* The UPDATEs that end a claim: by id alone, whoever holds the row by now.
Release(status, due, plan) ==
    row' = [row EXCEPT !.status = status, !.lock = 0, !.due = due, !.plan = plan,
                       !.expired = FALSE]

EndClaim(w, status, due, plan) ==
    /\ Release(status, due, plan)
    /\ worker' = [worker EXCEPT ![w] = Idle]

Raise(w, error) == worker' = [worker EXCEPT ![w].pc = "fail", ![w].error = error]

\* readDefaults, and the pause when the operator has switched the job off.
CheckEnabled(w) ==
    /\ worker[w].pc = "check"
    /\ \/ ~enabled /\ EndClaim(w, "paused_by_operator", FALSE, row.plan)
       \/ enabled /\ worker' = [worker EXCEPT ![w].pc = "resolve"] /\ UNCHANGED row
    /\ UNCHANGED <<installed, slow, faults, Config>>

\* resolvePreinstallPlanForJob and resolveFeaturedAppInstallConfig: the plan
\* stored in the row that was read, or else the catalog of now.
ResolvePlan(w) ==
    /\ worker[w].pc = "resolve"
    /\ LET plan == IF worker[w].stored # None THEN worker[w].stored ELSE catalog
       IN \/ /\ valid
             /\ worker' = [worker EXCEPT ![w].pc = "install", ![w].plan = plan,
                                         ![w].todo = plan]
          \/ ~valid /\ Raise(w, "config")
          \/ Raise(w, "plain")
    /\ UNCHANGED <<row, installed, slow, faults, Config>>

\* applyFeaturedAppInstallation for one entry.  The installer knows the entry
\* by its idempotency key; it may apply it and lose the answer.
InstallEntry(w) ==
    /\ worker[w].pc = "install"
    /\ \E e \in worker[w].todo :
          \/ /\ installed' = installed \cup {e}
             /\ worker' = [worker EXCEPT ![w].todo = @ \ {e}]
             /\ UNCHANGED faults
          \/ installed' = installed \cup {e} /\ Raise(w, "plain") /\ Fault
          \/ UNCHANGED <<installed, faults>> /\ Raise(w, "plain")
    /\ UNCHANGED <<row, slow, Config>>

\* Mutant: the job is done when its first entry is.
PlanStarted(w) == worker[w].plan = {} \/ worker[w].todo # worker[w].plan

\* Every entry of the plan is installed.
PlanDone(w) == worker[w].todo = {}

Complete(w) ==
    /\ worker[w].pc = "install" /\ PlanDone(w)
    /\ EndClaim(w, "completed", TRUE, worker[w].plan)
    /\ UNCHANGED <<installed, slow, faults, Config>>

\* The UPDATE that pauses or completes the job throws, the latter perhaps after
\* it was applied: the catch block follows.  (A pause that was applied is not due
\* before the catch block has written the row.)
UpdateThrows(w) ==
    /\ \/ worker[w].pc = "check" /\ ~enabled /\ UNCHANGED row
       \/ /\ worker[w].pc = "install" /\ PlanDone(w)
          /\ UNCHANGED row \/ Release("completed", TRUE, worker[w].plan)
    /\ Raise(w, "plain")
    /\ Fault
    /\ UNCHANGED <<installed, slow, Config>>

\* The catch block.
RecordError(w) ==
    /\ worker[w].pc = "fail"
    /\ \/ /\ worker[w].error = "config"
          /\ EndClaim(w, "blocked_by_config", FALSE, None)
       \/ /\ worker[w].error = "plain" /\ worker[w].attempts >= MaxAttempts
          /\ EndClaim(w, "failed", TRUE, row.plan)
       \/ /\ worker[w].error = "plain" /\ worker[w].attempts < MaxAttempts
          /\ EndClaim(w, "queued", FALSE, row.plan)
    /\ UNCHANGED <<installed, slow, faults, Config>>

\* The invocation dies, or its claim or the UPDATE of its catch block throws.
Crash(w) ==
    /\ worker[w].pc # "idle"
    /\ worker' = [worker EXCEPT ![w] = Idle]
    /\ Fault
    /\ UNCHANGED <<row, installed, slow, Config>>

(***************************************************************************)
(* The operator.                                                           *)
(***************************************************************************)

Change == changes < MaxChanges /\ changes' = changes + 1

\* saveFeaturedAppCatalogEntries and clearFeaturedAppCatalogEntries.  The
\* statements are no transaction on D1: the old entries are deleted, ...
DeleteCatalog ==
    /\ saving = "none"
    /\ catalog' = {} /\ saving' = "deleted"
    /\ Change
    /\ UNCHANGED <<row, valid>>

\* ... the new ones inserted, which may repair the configuration, ...
InsertCatalog ==
    /\ saving = "deleted"
    /\ catalog' \in Catalogs /\ saving' = "inserted"
    /\ valid' \in {valid, TRUE}
    /\ UNCHANGED <<row, changes>>

\* ... and the blocked jobs requeued.
RequeueBlocked ==
    /\ saving = "inserted"
    /\ saving' = "none"
    /\ row' = IF row.status = "blocked_by_config"
              THEN [row EXCEPT !.status = "queued", !.lock = 0, !.due = TRUE, !.plan = None]
              ELSE row
    /\ UNCHANGED <<catalog, valid, changes>>

\* The operator's request dies on the way.
AbandonSave ==
    /\ saving # "none"
    /\ saving' = "none"
    /\ UNCHANGED <<row, catalog, valid, changes>>

SaveCatalog ==
    /\ DeleteCatalog \/ InsertCatalog \/ RequeueBlocked \/ AbandonSave
    /\ UNCHANGED <<worker, enabled, installed, slow, faults>>

\* A deployment changes the environment: the configuration or the switch.
ChangeEnvironment ==
    /\ \/ valid' = ~valid /\ UNCHANGED enabled
       \/ enabled' = ~enabled /\ UNCHANGED valid
    /\ Change
    /\ UNCHANGED <<row, worker, catalog, saving, installed, slow, faults>>

Process(w) ==
    \/ ReadJob(w) \/ Claim(w) \/ CheckEnabled(w) \/ ResolvePlan(w)
    \/ InstallEntry(w) \/ Complete(w) \/ RecordError(w)

Next ==
    \/ Enqueue \/ BecomeDue \/ LeaseExpires
    \/ \E w \in Workers : Process(w) \/ UpdateThrows(w) \/ Crash(w)
    \/ SaveCatalog \/ ChangeEnvironment

Spec == Init /\ [][Next]_vars

\* An open invocation goes on, time passes, and the cron keeps opening new ones.
FairSpec ==
    /\ Spec
    /\ WF_vars(BecomeDue) /\ WF_vars(LeaseExpires)
    /\ \A w \in Workers : WF_vars(Process(w))

(***************************************************************************)
(* Properties.                                                             *)
(***************************************************************************)

\* A completed job names, in catalog_json, a plan all of whose entries are
\* installed, although workers that have lost their claim write the row too
\* and the operator replaces the catalog meanwhile.
CompletedMeansInstalled ==
    row.status = "completed" => row.plan # None /\ row.plan \subseteq installed

\* As long as no invocation outlives its lease, at most one works on the job:
\* the claim's compare-and-set on status and locked_at excludes the others.
OneWorkerPerJob ==
    slow \/ \A v, w \in Workers : (Holds(v) /\ Holds(w)) => v = w

\* A job ends as completed or failed once the operator leaves preinstallation
\* on and its configuration valid: stale claims are taken over, errors use up
\* the attempts, and even an outcome that a slow worker overwrites is reached
\* again.
EveryJobEnds ==
    (row.status # "none" /\ <>[](enabled /\ valid)) ~>
        [](row.status \in {"completed", "failed"})
===========================================================================

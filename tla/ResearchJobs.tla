---------------------------- MODULE ResearchJobs ----------------------------
(***************************************************************************)
(* The research_jobs table and the statements of                           *)
(* backend/services/research_jobs.py that change it. Each operator below   *)
(* is one committed database transaction; who runs it, and when, is the    *)
(* business of ResearchWorker.                                             *)
(*                                                                         *)
(* Jobs are numbered in the order of created_at. The status "none" is a    *)
(* row not inserted yet, "purged" a row deleted by purge_finished.         *)
(* lease_expires_at is abstracted to whether it is NULL, in the future or  *)
(* in the past.                                                            *)
(***************************************************************************)
EXTENDS Naturals

CONSTANTS Jobs,         \* job ids
          Workers,      \* worker ids; a process draws a fresh one at start
          NoWorker,     \* worker_id IS NULL
          MaxAttempts   \* RESEARCH_JOB_MAX_ATTEMPTS

ASSUME JobsAssumption ==
    /\ Jobs \subseteq Nat \ {0}
    /\ NoWorker \notin Workers
    /\ MaxAttempts \in Nat \ {0}

VARIABLES status, worker_id, attempts, cancel_requested, lease,
          result_of,   \* the job whose task computed the stored result, 0 if none
          effects,     \* how often the finalizer's rows were committed
          claims,      \* history: how often the job was claimed
          ended_by     \* history: the claim that ended the job, 0 if none

jobVars == <<status, worker_id, attempts, cancel_requested, lease, result_of,
             effects, claims, ended_by>>

ACTIVE   == {"queued", "running"}
TERMINAL == {"succeeded", "failed", "cancelled"}
Statuses == ACTIVE \cup TERMINAL \cup {"none", "purged"}

JobsInit ==
    /\ status           = [j \in Jobs |-> "none"]
    /\ worker_id        = [j \in Jobs |-> NoWorker]
    /\ attempts         = [j \in Jobs |-> 0]
    /\ cancel_requested = [j \in Jobs |-> FALSE]
    /\ lease            = [j \in Jobs |-> "none"]
    /\ result_of        = [j \in Jobs |-> 0]
    /\ effects          = [j \in Jobs |-> 0]
    /\ claims           = [j \in Jobs |-> 0]
    /\ ended_by         = [j \in Jobs |-> 0]

JobsTypeOK ==
    /\ status           \in [Jobs -> Statuses]
    /\ worker_id        \in [Jobs -> Workers \cup {NoWorker}]
    /\ attempts         \in [Jobs -> 0..MaxAttempts]
    /\ cancel_requested \in [Jobs -> BOOLEAN]
    /\ lease            \in [Jobs -> {"none", "current", "lapsed"}]
    /\ result_of        \in [Jobs -> Jobs \cup {0}]
    /\ effects          \in [Jobs -> Nat]
    /\ claims           \in [Jobs -> Nat]
    /\ ended_by         \in [Jobs -> Nat]

-----------------------------------------------------------------------------
(* API side *)

(* enqueue: the new row. Whether it is admitted is JobAdmission's subject. *)
Enqueue(j) ==
    /\ status[j] = "none"
    /\ \A i \in Jobs : i < j => status[i] # "none"
    /\ status' = [status EXCEPT ![j] = "queued"]
    /\ UNCHANGED <<worker_id, attempts, cancel_requested, lease, result_of,
                   effects, claims, ended_by>>

(* request_cancel: a queued job is cancelled at once, a running one is     *)
(* flagged. Either UPDATE is conditional on the status it was decided on.  *)
RequestCancel(j) ==
    \/ /\ status[j] = "queued"
       /\ status' = [status EXCEPT ![j] = "cancelled"]
       /\ UNCHANGED <<worker_id, attempts, cancel_requested, lease, result_of,
                      effects, claims, ended_by>>
    \/ /\ status[j] = "running" /\ ~cancel_requested[j]
       /\ cancel_requested' = [cancel_requested EXCEPT ![j] = TRUE]
       /\ UNCHANGED <<status, worker_id, attempts, lease, result_of, effects,
                      claims, ended_by>>

-----------------------------------------------------------------------------
(* Worker side *)

(* The UPDATE of claim_next. *)
Claim(j, w) ==
    /\ status[j] = "queued"
    /\ status'    = [status EXCEPT ![j] = "running"]
    /\ worker_id' = [worker_id EXCEPT ![j] = w]
    /\ attempts'  = [attempts EXCEPT ![j] = @ + 1]
    /\ lease'     = [lease EXCEPT ![j] = "current"]
    /\ claims'    = [claims EXCEPT ![j] = @ + 1]
    /\ UNCHANGED <<cancel_requested, result_of, effects, ended_by>>

(* A fence that looks at the status alone (mutant of Owned). *)
OwnedByStatus(j, w, attempt) == status[j] = "running"

(* The condition on every write a worker makes to its job. *)
Owned(j, w, attempt) ==
    /\ status[j] = "running"
    /\ worker_id[j] = w
    /\ attempts[j] = attempt

(* renew_lease, when it still finds the worker's job. *)
RenewLease(j, w, attempt) ==
    /\ Owned(j, w, attempt)
    /\ lease' = [lease EXCEPT ![j] = "current"]
    /\ UNCHANGED <<status, worker_id, attempts, cancel_requested, result_of,
                   effects, claims, ended_by>>

(* The UPDATE of _finish; claim is the claim the writer works for. *)
Finish(j, w, attempt, claim, newStatus) ==
    /\ Owned(j, w, attempt)
    /\ status'   = [status EXCEPT ![j] = newStatus]
    /\ lease'    = [lease EXCEPT ![j] = "none"]
    /\ ended_by' = [ended_by EXCEPT ![j] = claim]
    /\ UNCHANGED <<worker_id, attempts, cancel_requested, claims>>

(* Finish without the check of its row count (mutant of Complete). *)
CompleteUnchecked(j, w, attempt, claim, from) ==
    /\ effects' = [effects EXCEPT ![j] = @ + 1]
    /\ \/ /\ Finish(j, w, attempt, claim, "succeeded")
          /\ result_of' = [result_of EXCEPT ![j] = from]
       \/ /\ ~Owned(j, w, attempt)
          /\ UNCHANGED <<status, worker_id, attempts, cancel_requested, lease,
                         result_of, claims, ended_by>>

(* The transaction of complete: the finalizer's rows, the result and the   *)
(* new status are committed together or not at all.                        *)
Complete(j, w, attempt, claim, from) ==
    /\ Finish(j, w, attempt, claim, "succeeded")
    /\ result_of' = [result_of EXCEPT ![j] = from]
    /\ effects'   = [effects EXCEPT ![j] = @ + 1]

Fail(j, w, attempt, claim) ==
    /\ Finish(j, w, attempt, claim, "failed")
    /\ UNCHANGED <<result_of, effects>>

MarkCancelled(j, w, attempt, claim) ==
    /\ Finish(j, w, attempt, claim, "cancelled")
    /\ UNCHANGED <<result_of, effects>>

(* release: an interrupted run is not charged. *)
Release(j, w, attempt) ==
    /\ Owned(j, w, attempt)
    /\ status'    = [status EXCEPT ![j] = "queued"]
    /\ worker_id' = [worker_id EXCEPT ![j] = NoWorker]
    /\ lease'     = [lease EXCEPT ![j] = "none"]
    /\ attempts'  = [attempts EXCEPT ![j] = @ - 1]
    /\ UNCHANGED <<cancel_requested, result_of, effects, claims, ended_by>>

-----------------------------------------------------------------------------
(* reap_expired: a SELECT takes a snapshot of the rows whose lease lapsed, *)
(* conditional UPDATEs then decide from the snapshot. They hold row locks  *)
(* until the one commit, so they take effect together.                     *)

SnapshotRow == [job : Jobs, worker : Workers \cup {NoWorker},
                attempts : 0..MaxAttempts, cancel : BOOLEAN]

(* Looks for the wrong leases (mutant of Lapsed). *)
LapsedWithoutLease(j) == status[j] = "running" /\ lease[j] = "none"

Lapsed(j) == status[j] = "running" /\ lease[j] = "lapsed"

ExpiredRows ==
    {[job |-> j, worker |-> worker_id[j], attempts |-> attempts[j],
      cancel |-> cancel_requested[j]] : j \in {i \in Jobs : Lapsed(i)}}

(* Reaping without looking at the row again (mutant of Stale). *)
StaleUnchecked(row) == status[row.job] = "running"

(* The WHERE clause of the UPDATEs. A lease renewed after the SELECT is    *)
(* current again; should it lapse a second time, reaping it is what a      *)
(* fresh SELECT would do as well.                                          *)
Stale(row) ==
    /\ Lapsed(row.job)
    /\ worker_id[row.job] = row.worker
    /\ attempts[row.job] = row.attempts

ReapedStatus(row) ==
    IF row.cancel THEN "cancelled"
    ELSE IF row.attempts < MaxAttempts THEN "queued" ELSE "failed"

ReapExpired(rows) ==
    LET reaped == {row \in rows : Stale(row)}
        hit(j) == \E row \in reaped : row.job = j
        new(j) == ReapedStatus(CHOOSE row \in reaped : row.job = j)
    IN /\ status'    = [j \in Jobs |-> IF hit(j) THEN new(j) ELSE status[j]]
       /\ worker_id' = [j \in Jobs |-> IF hit(j) /\ new(j) = "queued" THEN NoWorker
                                       ELSE worker_id[j]]
       /\ lease'     = [j \in Jobs |-> IF hit(j) THEN "none" ELSE lease[j]]
       /\ ended_by'  = [j \in Jobs |-> IF hit(j) /\ new(j) # "queued" THEN claims[j]
                                       ELSE ended_by[j]]
       /\ UNCHANGED <<attempts, cancel_requested, result_of, effects, claims>>

(* purge_finished: finished jobs past retention are deleted. *)
PurgeFinished(old) ==
    /\ old \subseteq {j \in Jobs : status[j] \in TERMINAL}
    /\ status' = [j \in Jobs |-> IF j \in old THEN "purged" ELSE status[j]]
    /\ UNCHANGED <<worker_id, attempts, cancel_requested, lease, result_of,
                   effects, claims, ended_by>>

(* Time passes a running job's lease_expires_at: its worker is slow,       *)
(* partitioned from the database, or dead.                                 *)
LeaseLapse(j) ==
    /\ status[j] = "running" /\ lease[j] = "current"
    /\ lease' = [lease EXCEPT ![j] = "lapsed"]
    /\ UNCHANGED <<status, worker_id, attempts, cancel_requested, result_of,
                   effects, claims, ended_by>>
=============================================================================

---------------------------- MODULE JobAdmission ----------------------------
(***************************************************************************)
(* The admission of research jobs: enqueue of                              *)
(* backend/services/research_jobs.py, called by one user's concurrent      *)
(* requests in several API processes. A thread first takes its process's   *)
(* _enqueue_lock, then the user's row lock, looks for a job it would       *)
(* duplicate, counts the active jobs and inserts its own. Workers and      *)
(* cancels end jobs meanwhile, without either lock.                        *)
(*                                                                         *)
(* Request r inserts job r. Where a request is:                            *)
(*   new       not received           waiting   holds _enqueue_lock        *)
(*   locked    holds both locks       unmatched found no job to share      *)
(*   counted   is below the limit     answered, full, failed               *)
(***************************************************************************)
EXTENDS Naturals, FiniteSets

CONSTANTS Requests,
          Processes,
          ProcessOf,   \* request |-> the API process that serves it
          Works,       \* kinds of job with the params fields same_as names
          WorkOf,      \* request |-> what it asks for
          Shared,      \* the works that are enqueued with same_as
          Nobody,      \* a lock nobody holds
          ActiveLimit  \* RESEARCH_MAX_ACTIVE_JOBS_PER_USER

ASSUME AdmissionAssumption ==
    /\ ProcessOf \in [Requests -> Processes]
    /\ WorkOf \in [Requests -> Works]
    /\ Shared \subseteq Works
    /\ Nobody \notin Requests
    /\ ActiveLimit \in Nat

VARIABLES pc,
          process_lock,   \* per process: who holds _enqueue_lock
          row_lock,       \* who holds the lock of the user's row
          active,         \* the committed jobs that are queued or running
          answer          \* the job a request was answered with

vars == <<pc, process_lock, row_lock, active, answer>>

Init ==
    /\ pc           = [r \in Requests |-> "new"]
    /\ process_lock = [p \in Processes |-> Nobody]
    /\ row_lock     = Nobody
    /\ active       = {}
    /\ answer       = [r \in Requests |-> Nobody]

Goto(r, loc) == pc' = [pc EXCEPT ![r] = loc]

EnterProcess(r) ==
    /\ pc[r] = "new" /\ process_lock[ProcessOf[r]] = Nobody
    /\ process_lock' = [process_lock EXCEPT ![ProcessOf[r]] = r]
    /\ Goto(r, "waiting")
    /\ UNCHANGED <<row_lock, active, answer>>

(* The user's row is not locked: enqueue relies on _enqueue_lock (mutant). *)
LockUserUnlocked(r) ==
    /\ pc[r] = "waiting"
    /\ Goto(r, "locked")
    /\ UNCHANGED <<process_lock, row_lock, active, answer>>

(* SELECT ... FOR UPDATE waits for the transaction that holds the row. *)
LockUser(r) ==
    /\ pc[r] = "waiting" /\ row_lock = Nobody
    /\ row_lock' = r
    /\ Goto(r, "locked")
    /\ UNCHANGED <<process_lock, active, answer>>

(* The row is given up, the thread lock is not (mutant of Leave). *)
LeaveLocked(r, loc) ==
    /\ Goto(r, loc)
    /\ row_lock' = IF row_lock = r THEN Nobody ELSE row_lock
    /\ UNCHANGED process_lock

(* A finished or failed transaction gives up the row, then the lock. *)
Leave(r, loc) ==
    /\ Goto(r, loc)
    /\ process_lock' = [process_lock EXCEPT ![ProcessOf[r]] = Nobody]
    /\ row_lock' = IF row_lock = r THEN Nobody ELSE row_lock

(* The active jobs of the kind whose same_as fields match. *)
Same(r) == {j \in active : WorkOf[j] = WorkOf[r]}

(* same_as: an active job for the same work is the answer. *)
FindSame(r) ==
    /\ pc[r] = "locked"
    /\ \/ /\ WorkOf[r] \in Shared /\ Same(r) # {}
          /\ \E j \in Same(r) : answer' = [answer EXCEPT ![r] = j]
          /\ Leave(r, "answered")
       \/ /\ WorkOf[r] \notin Shared \/ Same(r) = {}
          /\ Goto(r, "unmatched")
          /\ UNCHANGED <<process_lock, row_lock, answer>>
    /\ UNCHANGED active

CountActive(r) ==
    /\ pc[r] = "unmatched"
    /\ \/ Cardinality(active) >= ActiveLimit /\ Leave(r, "full")
       \/ /\ Cardinality(active) < ActiveLimit
          /\ Goto(r, "counted")
          /\ UNCHANGED <<process_lock, row_lock>>
    /\ UNCHANGED <<active, answer>>

InsertJob(r) ==
    /\ pc[r] = "counted"
    /\ active' = active \cup {r}
    /\ answer' = [answer EXCEPT ![r] = r]
    /\ Leave(r, "answered")

(* The database refuses a statement; the transaction is rolled back. *)
Fail(r) ==
    /\ pc[r] \in {"waiting", "locked", "unmatched", "counted"}
    /\ Leave(r, "failed")
    /\ UNCHANGED <<active, answer>>

(* A worker finishes the job, or its owner cancels it. *)
EndJob(j) ==
    /\ j \in active
    /\ active' = active \ {j}
    /\ UNCHANGED <<pc, process_lock, row_lock, answer>>

Over == {"answered", "full", "failed"}

Step(r) == EnterProcess(r) \/ LockUser(r) \/ FindSame(r) \/ CountActive(r) \/ InsertJob(r)

Next == \E r \in Requests : Step(r) \/ Fail(r) \/ EndJob(r)

Spec == Init /\ [][Next]_vars

(* A thread that can go on for good does: neither lock needs to be fair.   *)
FairSpec == Spec /\ \A r \in Requests : WF_vars(Step(r))

-----------------------------------------------------------------------------
Inside == {"waiting", "locked", "unmatched", "counted"}

(* Every variable has its type. *)
TypeOK ==
    /\ pc           \in [Requests -> {"new"} \cup Inside \cup Over]
    /\ process_lock \in [Processes -> Requests \cup {Nobody}]
    /\ row_lock     \in Requests \cup {Nobody}
    /\ active       \in SUBSET Requests
    /\ answer       \in [Requests -> Requests \cup {Nobody}]

(* Between its first and its last statement a transaction of enqueue holds *)
(* both locks, and what it has found out still holds when it acts on it:   *)
(* other jobs may end meanwhile, none can appear.                          *)
HoldsLocks ==
    \A r \in Requests :
        /\ pc[r] \in Inside => process_lock[ProcessOf[r]] = r
        /\ pc[r] \in Inside \ {"waiting"} => row_lock = r

FindingsHold ==
    \A r \in Requests :
        /\ pc[r] = "counted" => Cardinality(active) < ActiveLimit
        /\ pc[r] \in {"unmatched", "counted"} /\ WorkOf[r] \in Shared => Same(r) = {}

AdmissionInv == TypeOK /\ IsFiniteSet(active) /\ HoldsLocks /\ FindingsHold

(* A user never has more than ActiveLimit jobs queued or running, however  *)
(* many requests in however many processes are admitted at once.           *)
WithinActiveLimit == Cardinality(active) <= ActiveLimit

(* No two active jobs do the same shared work: of concurrent identical     *)
(* requests all but one are answered with the one job.                     *)
NoDuplicateWork ==
    \A i, j \in active : WorkOf[i] = WorkOf[j] /\ WorkOf[i] \in Shared => i = j

(* What enqueue promises about the jobs it admits, at all times *)
AdmissionLimits == WithinActiveLimit /\ NoDuplicateWork

(* Every request gets its answer: the two locks never deadlock, and none   *)
(* is left behind by a request that was refused or that failed.            *)
EveryRequestServed == \A r \in Requests : <>(pc[r] \in Over)
=============================================================================

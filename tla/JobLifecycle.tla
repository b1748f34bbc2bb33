---------------------------- MODULE JobLifecycle ----------------------------
(***************************************************************************)
(* What the research job queue promises, as the diagram and the last       *)
(* paragraph of the docstring of backend/services/research_jobs.py put it: *)
(* the transitions a job may make, that a run is charged against           *)
(* MaxAttempts, and that a job is only ever ended by its newest run.       *)
(* ResearchWorker is shown to implement this specification.                *)
(***************************************************************************)
EXTENDS Naturals

CONSTANTS Jobs,         \* job ids
          MaxAttempts   \* research_jobs.max_attempts

VARIABLES state,     \* the job's status
          run,       \* how often the job was started: the number of its newest run
          charged,   \* runs charged against MaxAttempts
          endedBy    \* the run whose outcome ended the job, 0 before that

vars == <<state, run, charged, endedBy>>

Terminal == {"succeeded", "failed", "cancelled"}

Init ==
    /\ state   = [j \in Jobs |-> "none"]
    /\ run     = [j \in Jobs |-> 0]
    /\ charged = [j \in Jobs |-> 0]
    /\ endedBy = [j \in Jobs |-> 0]

(* The steps of one job. A database transaction may move several jobs at   *)
(* once (the reaper does), so Next gives every job a step or none.         *)
Submit(j) ==
    /\ state[j] = "none" /\ state'[j] = "queued"
    /\ run'[j] = run[j] /\ charged'[j] = charged[j] /\ endedBy'[j] = endedBy[j]

Start(j) ==
    /\ state[j] = "queued" /\ state'[j] = "running"
    /\ charged[j] < MaxAttempts
    /\ run'[j] = run[j] + 1 /\ charged'[j] = charged[j] + 1 /\ endedBy'[j] = endedBy[j]

CancelQueued(j) ==
    /\ state[j] = "queued" /\ state'[j] = "cancelled"
    /\ run'[j] = run[j] /\ charged'[j] = charged[j] /\ endedBy'[j] = endedBy[j]

(* Only the newest run ends the job. *)
End(j) ==
    /\ state[j] = "running" /\ state'[j] \in Terminal
    /\ endedBy'[j] = run[j]
    /\ run'[j] = run[j] /\ charged'[j] = charged[j]

(* The run is given up: charged when its lease expired, not charged when   *)
(* the worker handed the job back.                                         *)
Requeue(j) ==
    /\ state[j] = "running" /\ state'[j] = "queued"
    /\ charged'[j] \in {charged[j], charged[j] - 1}
    /\ charged'[j] < MaxAttempts
    /\ run'[j] = run[j] /\ endedBy'[j] = endedBy[j]

Forget(j) ==
    /\ state[j] \in Terminal /\ state'[j] = "purged"
    /\ run'[j] = run[j] /\ charged'[j] = charged[j] /\ endedBy'[j] = endedBy[j]

Stay(j) ==
    /\ state'[j] = state[j] /\ run'[j] = run[j]
    /\ charged'[j] = charged[j] /\ endedBy'[j] = endedBy[j]

JobStep(j) ==
    \/ Submit(j) \/ Start(j) \/ CancelQueued(j) \/ End(j)
    \/ Requeue(j) \/ Forget(j) \/ Stay(j)

Next == \A j \in Jobs : JobStep(j)

Spec == Init /\ [][Next]_vars
=============================================================================

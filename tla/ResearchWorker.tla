--------------------------- MODULE ResearchWorker ---------------------------
(***************************************************************************)
(* Worker processes (backend/worker.py) that serve the research job queue  *)
(* of ResearchJobs: serve / run_once / _execute, the child process a job's *)
(* task runs in (JobProcess, _child_main), and the API calls that race     *)
(* with them. A step is one database transaction or one interaction with   *)
(* the child, so everything may happen between two steps of a worker.      *)
(*                                                                         *)
(* Where a worker is:                                                      *)
(*   idle       between two iterations of serve                            *)
(*   reaping    reap_expired has read its snapshot                         *)
(*   housekept  housekeeping is done, claim_next is called                 *)
(*   claiming   claim_next holds the row lock of the job it selected       *)
(*   claimed    the claim is committed, the row is not read back yet       *)
(*   running    in JobProcess.run                                          *)
(*   finishing  _execute has the outcome                                   *)
(*   completing complete has recorded the trials                           *)
(*   auditing   complete has committed the result, not the audit event     *)
(*   stopped    serve returned;   dead   the process was killed            *)
(***************************************************************************)
EXTENDS ResearchJobs, Sequences, FiniteSets

CONSTANTS RecycleAfter,  \* RECYCLE_AFTER_JOBS: tasks one child process runs
          Mortal,        \* the workers that may be killed
          Stoppable,     \* the workers that may be told to stop
          MaxFaults      \* bound on the database errors of one behaviour

ASSUME WorkerAssumption ==
    /\ RecycleAfter \in Nat \ {0}
    /\ Mortal \subseteq Workers
    /\ Stoppable \subseteq Workers
    /\ MaxFaults \in Nat

VARIABLES pc,
          stopping,   \* stop_event is set
          snapshot,   \* reap_expired: the rows it read
          job,        \* the job selected, claimed or executed, 0 if none
          attempt,    \* _execute's copy of job.attempts
          claim,      \* history: the claim this execution works for
          outcome,    \* what JobProcess.run returned
          child,      \* the child process: "none", "alive" or "dead"
          todo,       \* pipe to the child: tasks sent, not computed
          out,        \* pipe from the child: outcomes sent, not received
          ran,        \* JobProcess._jobs
          trials,     \* per job: the configurations it evaluated are recorded
          audits,     \* per job: audit events written for it
          faults      \* database errors so far

workerVars == <<pc, stopping, snapshot, job, attempt, claim, outcome, child,
                todo, out, ran, trials, audits, faults>>
vars == <<jobVars, workerVars>>

Locations == {"idle", "reaping", "housekept", "claiming", "claimed", "running",
              "finishing", "completing", "auditing", "stopped", "dead"}

Gone == {"stopped", "dead"}

NoOutcome == [tag |-> "none", from |-> 0]

Outcomes == [tag : {"none", "ok", "error", "timeout", "crashed", "cancelled",
                    "shutdown", "lost"}, from : Jobs \cup {0}]

(* What the child sends: its task's result or error. *)
ChildOutcomes == [tag : {"ok", "error"}, from : Jobs]

Init ==
    /\ JobsInit
    /\ pc       = [w \in Workers |-> "idle"]
    /\ stopping = [w \in Workers |-> FALSE]
    /\ snapshot = [w \in Workers |-> {}]
    /\ job      = [w \in Workers |-> 0]
    /\ attempt  = [w \in Workers |-> 0]
    /\ claim    = [w \in Workers |-> 0]
    /\ outcome  = [w \in Workers |-> NoOutcome]
    /\ child    = [w \in Workers |-> "none"]
    /\ todo     = [w \in Workers |-> << >>]
    /\ out      = [w \in Workers |-> << >>]
    /\ ran      = [w \in Workers |-> 0]
    /\ trials   = [j \in Jobs |-> FALSE]
    /\ audits   = [j \in Jobs |-> 0]
    /\ faults   = 0

Goto(w, loc) == pc' = [pc EXCEPT ![w] = loc]

(* The worker leaves _execute: what it knew of the job is forgotten. *)
Forget(w) ==
    /\ job'     = [job EXCEPT ![w] = 0]
    /\ attempt' = [attempt EXCEPT ![w] = 0]
    /\ claim'   = [claim EXCEPT ![w] = 0]
    /\ outcome' = [outcome EXCEPT ![w] = NoOutcome]

(* JobProcess.kill, which stop ends with too: the child and both pipes go. *)
KillChild(w) ==
    /\ child' = [child EXCEPT ![w] = "none"]
    /\ todo'  = [todo EXCEPT ![w] = << >>]
    /\ out'   = [out EXCEPT ![w] = << >>]
    /\ ran'   = [ran EXCEPT ![w] = 0]

childVars == <<child, todo, out, ran>>
execVars  == <<job, attempt, claim, outcome>>

-----------------------------------------------------------------------------
(* API side: each call is one transaction. A claimer's row lock makes the  *)
(* cancelling UPDATE wait.                                                 *)

Locked(j) == \E w \in Workers : pc[w] = "claiming" /\ job[w] = j

ApiEnqueue(j) == Enqueue(j) /\ UNCHANGED workerVars

ApiCancel(j) == ~Locked(j) /\ RequestCancel(j) /\ UNCHANGED workerVars

-----------------------------------------------------------------------------
(* run_once up to the claim *)

(* serve without its check of stop_event (mutant of ReapSelect). *)
ReapSelectAlways(w) ==
    /\ pc[w] = "idle"
    /\ Goto(w, "reaping")
    /\ snapshot' = [snapshot EXCEPT ![w] = ExpiredRows]
    /\ UNCHANGED <<jobVars, stopping, execVars, childVars, trials, audits, faults>>

ReapSelect(w) ==
    /\ pc[w] = "idle" /\ ~stopping[w]
    /\ Goto(w, "reaping")
    /\ snapshot' = [snapshot EXCEPT ![w] = ExpiredRows]
    /\ UNCHANGED <<jobVars, stopping, execVars, childVars, trials, audits, faults>>

ReapApply(w) ==
    /\ pc[w] = "reaping"
    /\ ReapExpired(snapshot[w])
    /\ Goto(w, "housekept")
    /\ snapshot' = [snapshot EXCEPT ![w] = {}]
    /\ UNCHANGED <<stopping, execVars, childVars, trials, audits, faults>>

(* RESEARCH_JOB_RETENTION_DAYS is days, a run is limited to minutes: no    *)
(* worker still works on a job that is old enough to be purged.            *)
Purge(w) ==
    /\ pc[w] = "housekept"
    /\ \E old \in SUBSET Jobs :
          /\ old # {}
          /\ \A v \in Workers : job[v] \notin old
          /\ PurgeFinished(old)
    /\ UNCHANGED workerVars

(* claim_next: the oldest queued job no other transaction has locked. *)
ClaimSelect(w) ==
    LET free == {j \in Jobs : status[j] = "queued" /\ ~Locked(j)}
    IN /\ pc[w] = "housekept"
       /\ \/ /\ free = {}
             /\ Goto(w, "idle")
             /\ UNCHANGED job
          \/ \E j \in free :
                /\ \A i \in free : j <= i
                /\ Goto(w, "claiming")
                /\ job' = [job EXCEPT ![w] = j]
       /\ UNCHANGED <<jobVars, stopping, snapshot, attempt, claim, outcome,
                      childVars, trials, audits, faults>>

ClaimCommit(w) ==
    /\ pc[w] = "claiming"
    /\ Claim(job[w], w)
    /\ Goto(w, "claimed")
    /\ claim' = [claim EXCEPT ![w] = claims'[job[w]]]
    /\ UNCHANGED <<stopping, snapshot, job, attempt, outcome, childVars, trials,
                   audits, faults>>

(* _execute reads the row back, by then perhaps another worker's, and      *)
(* sends the task to the child it has, or starts one. A job of a kind this *)
(* worker's code does not know is failed instead.                          *)
Execute(w) ==
    /\ pc[w] = "claimed"
    /\ attempt' = [attempt EXCEPT ![w] = attempts[job[w]]]
    /\ \/ /\ Goto(w, "running")
          /\ child' = [child EXCEPT ![w] = "alive"]
          /\ \/ /\ child[w] = "alive"
                /\ todo' = [todo EXCEPT ![w] = Append(@, job[w])]
                /\ UNCHANGED <<out, ran>>
             \/ /\ child[w] # "alive"
                /\ todo' = [todo EXCEPT ![w] = <<job[w]>>]
                /\ out'  = [out EXCEPT ![w] = << >>]
                /\ ran'  = [ran EXCEPT ![w] = 0]
          /\ UNCHANGED outcome
       \/ /\ Goto(w, "finishing")
          /\ outcome' = [outcome EXCEPT ![w] = [tag |-> "error", from |-> job[w]]]
          /\ UNCHANGED childVars
    /\ UNCHANGED <<jobVars, stopping, snapshot, job, claim, trials, audits, faults>>
-----------------------------------------------------------------------------
(* The child process. It never touches the database. *)

ChildCompute(w) ==
    /\ child[w] = "alive" /\ todo[w] # << >>
    /\ \E tag \in {"ok", "error"} :
          out' = [out EXCEPT ![w] = Append(@, [tag |-> tag, from |-> Head(todo[w])])]
    /\ todo' = [todo EXCEPT ![w] = Tail(@)]
    /\ UNCHANGED <<jobVars, pc, stopping, snapshot, execVars, child, ran, trials,
                   audits, faults>>

(* The child exits (a crash of native code, the OOM killer). What it       *)
(* already sent stays readable.                                            *)
ChildDie(w) ==
    /\ child[w] = "alive"
    /\ child' = [child EXCEPT ![w] = "dead"]
    /\ todo'  = [todo EXCEPT ![w] = << >>]
    /\ UNCHANGED <<jobVars, pc, stopping, snapshot, execVars, out, ran, trials,
                   audits, faults>>

-----------------------------------------------------------------------------
(* JobProcess.run: the ways out of its loop, each ending in _execute's     *)
(* dispatch on the outcome.                                                *)

Return(w, result) ==
    /\ pc[w] = "running"
    /\ Goto(w, "finishing")
    /\ outcome' = [outcome EXCEPT ![w] = result]
    /\ UNCHANGED <<jobVars, stopping, snapshot, job, attempt, claim, trials,
                   audits, faults>>

(* recv: the next outcome in the pipe; the child is recycled after         *)
(* RecycleAfter of them.                                                   *)
Receive(w) ==
    /\ out[w] # << >>
    /\ Return(w, Head(out[w]))
    /\ \/ /\ ran[w] + 1 >= RecycleAfter
          /\ KillChild(w)
       \/ /\ ran[w] + 1 < RecycleAfter
          /\ out' = [out EXCEPT ![w] = Tail(@)]
          /\ ran' = [ran EXCEPT ![w] = @ + 1]
          /\ UNCHANGED <<child, todo>>

Crashed(w) ==
    /\ child[w] # "alive"
    /\ Return(w, [tag |-> "crashed", from |-> 0])
    /\ KillChild(w)

(* The job's deadline, or the boot deadline of a new child, which counts   *)
(* as a crash: the child is killed in either case.                         *)
TimeLimit(w) ==
    /\ \E tag \in {"timeout", "crashed"} : Return(w, [tag |-> tag, from |-> 0])
    /\ KillChild(w)

(* on_tick: stop_event first, then the lease or the cancel flag. The flag  *)
(* is read without the fence.                                              *)
TickShutdown(w) ==
    /\ stopping[w]
    /\ Return(w, [tag |-> "shutdown", from |-> 0])
    /\ KillChild(w)

TickCancelled(w) ==
    /\ ~stopping[w] /\ pc[w] = "running" /\ cancel_requested[job[w]]
    /\ Return(w, [tag |-> "cancelled", from |-> 0])
    /\ KillChild(w)

TickRenew(w) ==
    /\ ~stopping[w] /\ pc[w] = "running"
    /\ RenewLease(job[w], w, attempt[w])
    /\ UNCHANGED workerVars

TickLost(w) ==
    /\ ~stopping[w] /\ pc[w] = "running" /\ ~Owned(job[w], w, attempt[w])
    /\ Return(w, [tag |-> "lost", from |-> 0])
    /\ KillChild(w)

-----------------------------------------------------------------------------
(* _execute: what becomes of the outcome *)

Done(w) ==
    /\ Goto(w, "idle")
    /\ Forget(w)
    /\ UNCHANGED <<stopping, snapshot, childVars, trials, audits, faults>>

(* complete, first transaction: research_trials.record. The configurations *)
(* were evaluated whether or not the result will be kept.                  *)
RecordTrials(w) ==
    /\ pc[w] = "finishing" /\ outcome[w].tag = "ok"
    /\ Goto(w, "completing")
    /\ trials' = [trials EXCEPT ![outcome[w].from] = TRUE]
    /\ UNCHANGED <<jobVars, stopping, snapshot, execVars, childVars, audits, faults>>

(* complete, second transaction. *)
StoreResult(w) ==
    /\ pc[w] = "completing"
    /\ Complete(job[w], w, attempt[w], claim[w], outcome[w].from)
    /\ Goto(w, "auditing")
    /\ UNCHANGED <<stopping, snapshot, execVars, childVars, trials, audits, faults>>

(* complete: the lease was lost, the transaction is rolled back. *)
DiscardResult(w) ==
    /\ pc[w] = "completing" /\ ~Owned(job[w], w, attempt[w])
    /\ Done(w)
    /\ UNCHANGED jobVars

(* complete: the finalizer raises TaskError; its rows are rolled back and  *)
(* the job is failed instead.                                              *)
RefuseResult(w) ==
    /\ pc[w] = "completing"
    /\ Goto(w, "finishing")
    /\ outcome' = [outcome EXCEPT ![w].tag = "error"]
    /\ UNCHANGED <<jobVars, stopping, snapshot, job, attempt, claim, childVars,
                   trials, audits, faults>>

(* complete: write_audit_log, after the commit. *)
AuditResult(w) ==
    /\ pc[w] = "auditing"
    /\ audits' = [audits EXCEPT ![job[w]] = @ + 1]
    /\ Goto(w, "idle")
    /\ Forget(w)
    /\ UNCHANGED <<jobVars, stopping, snapshot, childVars, trials, faults>>

(* fail, mark_cancelled and release write only to a job that is still this *)
(* worker's; in any case _execute is over.                                 *)
FailJob(w) ==
    /\ pc[w] = "finishing" /\ outcome[w].tag \in {"error", "timeout", "crashed"}
    /\ \/ Fail(job[w], w, attempt[w], claim[w])
       \/ ~Owned(job[w], w, attempt[w]) /\ UNCHANGED jobVars
    /\ Done(w)

CancelJob(w) ==
    /\ pc[w] = "finishing" /\ outcome[w].tag = "cancelled"
    /\ \/ MarkCancelled(job[w], w, attempt[w], claim[w])
       \/ ~Owned(job[w], w, attempt[w]) /\ UNCHANGED jobVars
    /\ Done(w)

ReleaseJob(w) ==
    /\ pc[w] = "finishing" /\ outcome[w].tag = "shutdown"
    /\ \/ Release(job[w], w, attempt[w])
       \/ ~Owned(job[w], w, attempt[w]) /\ UNCHANGED jobVars
    /\ Done(w)

DropLost(w) ==
    /\ pc[w] = "finishing" /\ outcome[w].tag = "lost"
    /\ Done(w)
    /\ UNCHANGED jobVars

-----------------------------------------------------------------------------
(* What can go wrong around a worker *)

(* A database call raises: serve logs it and starts the next iteration.    *)
(* Nothing on the way out touches the child process.                       *)
Fault(w) ==
    /\ faults < MaxFaults
    /\ pc[w] \notin Gone \cup {"idle"}
    /\ faults' = faults + 1
    /\ Goto(w, "idle")
    /\ Forget(w)
    /\ snapshot' = [snapshot EXCEPT ![w] = {}]
    /\ UNCHANGED <<jobVars, stopping, childVars, trials, audits>>

(* SIGTERM, SIGINT or a closed lifeline sets stop_event. *)
Signal(w) ==
    /\ w \in Stoppable /\ ~stopping[w] /\ pc[w] \notin Gone
    /\ stopping' = [stopping EXCEPT ![w] = TRUE]
    /\ UNCHANGED <<jobVars, pc, snapshot, execVars, childVars, trials, audits, faults>>

Stop(w) ==
    /\ pc[w] = "idle" /\ stopping[w]
    /\ Goto(w, "stopped")
    /\ KillChild(w)
    /\ UNCHANGED <<jobVars, stopping, snapshot, execVars, trials, audits, faults>>

(* The process dies; an open transaction is rolled back and its row locks  *)
(* go; the child reads end-of-file and exits.                              *)
Crash(w) ==
    /\ w \in Mortal /\ pc[w] \notin Gone
    /\ Goto(w, "dead")
    /\ Forget(w)
    /\ KillChild(w)
    /\ snapshot' = [snapshot EXCEPT ![w] = {}]
    /\ UNCHANGED <<jobVars, stopping, trials, audits, faults>>

-----------------------------------------------------------------------------
Api == \E j \in Jobs : ApiEnqueue(j) \/ ApiCancel(j)

Time == \E j \in Jobs : LeaseLapse(j) /\ UNCHANGED workerVars

Child(w) == ChildCompute(w) \/ ChildDie(w)

(* What the worker does of its own accord. *)
Work(w) ==
    \/ ReapSelect(w) \/ ReapApply(w) \/ ClaimSelect(w) \/ ClaimCommit(w)
    \/ Execute(w) \/ Receive(w) \/ Crashed(w)
    \/ RecordTrials(w) \/ StoreResult(w) \/ DiscardResult(w) \/ RefuseResult(w)
    \/ AuditResult(w) \/ FailJob(w) \/ CancelJob(w) \/ ReleaseJob(w) \/ DropLost(w)
    \/ Stop(w)

Tick(w) == TickShutdown(w) \/ TickCancelled(w) \/ TickRenew(w) \/ TickLost(w)

Disturb(w) == Purge(w) \/ TimeLimit(w) \/ Fault(w) \/ Signal(w) \/ Crash(w)

Next ==
    \/ Api
    \/ Time
    \/ \E w \in Workers : Child(w) \/ Work(w) \/ Tick(w) \/ Disturb(w)

Spec == Init /\ [][Next]_vars

(***************************************************************************)
(* Fairness. A worker process that is not killed keeps taking its own      *)
(* steps, the child computes, on_tick is called about every second while   *)
(* the child runs, and a lease nobody renews lapses.                       *)
(***************************************************************************)
Fairness ==
    /\ \A w \in Workers : WF_vars(Work(w)) /\ WF_vars(ChildCompute(w))
    /\ \A w \in Workers : WF_vars(TickShutdown(w)) /\ WF_vars(TickCancelled(w))
    /\ \A j \in Jobs : WF_vars(LeaseLapse(j) /\ UNCHANGED workerVars)

FairSpec == Spec /\ Fairness
-----------------------------------------------------------------------------
(* Properties *)

WorkerTypeOK ==
    /\ pc       \in [Workers -> Locations]
    /\ stopping \in [Workers -> BOOLEAN]
    /\ snapshot \in [Workers -> SUBSET SnapshotRow]
    /\ job      \in [Workers -> Jobs \cup {0}]
    /\ attempt  \in [Workers -> 0..MaxAttempts]
    /\ claim    \in [Workers -> Nat]
    /\ outcome  \in [Workers -> Outcomes]
    /\ child    \in [Workers -> {"none", "alive", "dead"}]
    /\ todo     \in [Workers -> Seq(Jobs)]
    /\ out      \in [Workers -> Seq(ChildOutcomes)]
    /\ ran      \in [Workers -> Nat]
    /\ trials   \in [Jobs -> BOOLEAN]
    /\ audits   \in [Jobs -> Nat]
    /\ faults   \in 0..MaxFaults

(* Every variable has its type; attempts never exceed MaxAttempts. *)
TypeOK == JobsTypeOK /\ WorkerTypeOK

(* A row's columns agree: a queued job has no worker, no lease and a run   *)
(* left; a running one has a worker, a lease and 1..MaxAttempts charged    *)
(* runs; a finished one has no lease left for the reaper to find.          *)
RowsConsistent ==
    \A j \in Jobs :
        /\ status[j] \in {"none", "queued"} =>
              worker_id[j] = NoWorker /\ lease[j] = "none" /\ attempts[j] < MaxAttempts
        /\ status[j] = "running" =>
              worker_id[j] \in Workers /\ lease[j] # "none" /\ attempts[j] \in 1..MaxAttempts
        /\ status[j] \in TERMINAL \cup {"purged"} => lease[j] = "none"

Executing == {"claimed", "running", "finishing", "completing"}

(* The fence of research_jobs._owned is exact: a worker that may still     *)
(* write to a job works for the job's newest claim, so one that was        *)
(* presumed dead and replaced cannot touch the newer run.                  *)
FenceIsExact ==
    \A w \in Workers :
        pc[w] \in Executing /\ Owned(job[w], w, attempt[w]) => claim[w] = claims[job[w]]

(* complete stores side effects with the result: a job's finalizer rows    *)
(* are committed exactly once when it succeeds and never otherwise,        *)
(* however often its lease was lost and its task re-run.                   *)
EffectsExactlyOnce ==
    \A j \in Jobs :
        /\ status[j] = "succeeded" => effects[j] = 1
        /\ status[j] \notin {"succeeded", "purged"} => effects[j] = 0
        /\ status[j] = "purged" => effects[j] <= 1

(* An audit event is written for a stored result only, and once. *)
AuditedOnlyIfStored == \A j \in Jobs : audits[j] <= effects[j]

(* A stored result's configurations are in the trial ledger before the     *)
(* result can be read (the Deflated Sharpe test counts them).              *)
TrialsBeforeResult ==
    \A j \in Jobs : result_of[j] # 0 => trials[result_of[j]]

(* What a job leaves behind is there once, in order and only with its      *)
(* result: the finalizer's rows, the trials before it, the audit after it. *)
ResultsAreSound == EffectsExactlyOnce /\ AuditedOnlyIfStored /\ TrialsBeforeResult

(* JobProcess.run returns the outcome of the task it was given: a stored   *)
(* result was computed from the job's own parameters.                      *)
ResultBelongsToJob == \A j \in Jobs : result_of[j] \in {0, j}

(* A running job ends up cancelled only if its owner asked for that, over  *)
(* all the requeues and claims between the request and the cancellation.   *)
CancelledOnlyOnRequest ==
    [][\A j \in Jobs : status[j] = "running" /\ status'[j] = "cancelled"
                         => cancel_requested[j]]_vars

(* What a worker knows is true when it acts on it: the claim it works for  *)
(* is the newest one as long as the row carries its id, the cancellation   *)
(* it is about to record was requested, the result it is about to store    *)
(* has its trials recorded, the result it is about to audit is stored and  *)
(* nobody else audits it. With TypeOK and RowsConsistent, the inductive    *)
(* invariant behind the properties above.                                  *)
KnowsJob(w) == pc[w] \in Executing \cup {"claiming", "auditing"} => job[w] \in Jobs

KnowsClaim(w) ==
    pc[w] \in Executing /\ status[job[w]] = "running" /\ worker_id[job[w]] = w
        => claim[w] = claims[job[w]]

KnowsRequest(w) ==
    /\ pc[w] = "finishing" /\ outcome[w].tag = "cancelled" => cancel_requested[job[w]]
    /\ \A row \in snapshot[w] : row.cancel => cancel_requested[row.job]

KnowsTrials(w) ==
    /\ outcome[w].tag = "ok" => outcome[w].from \in Jobs
    /\ pc[w] = "completing" => outcome[w].tag = "ok" /\ trials[outcome[w].from]

KnowsStored(w) ==
    pc[w] = "auditing" =>
        /\ effects[job[w]] = 1 /\ audits[job[w]] = 0
        /\ \A v \in Workers \ {w} : pc[v] = "auditing" => job[v] # job[w]

WorkerKnowledge ==
    \A w \in Workers : KnowsJob(w) /\ KnowsClaim(w) /\ KnowsRequest(w) /\ KnowsTrials(w)
                        /\ KnowsStored(w)

(* What a worker, its child and the reaper remember is true of the rows    *)
(* when they act on it, and rows, effects, audits and trials agree: the    *)
(* inductive invariant from which the safety properties are proved.        *)
QueueInv ==
    /\ TypeOK /\ RowsConsistent /\ WorkerKnowledge
    /\ EffectsExactlyOnce /\ AuditedOnlyIfStored /\ TrialsBeforeResult

(* The queue implements the lifecycle its docstring draws. *)
Lifecycle == INSTANCE JobLifecycle
    WITH state <- status, run <- claims, charged <- attempts, endedBy <- ended_by

ImplementsLifecycle == Lifecycle!Spec

(* Every submitted job ends, as long as one worker stays up: its run is    *)
(* finished, or reaped and run again until MaxAttempts is used up.         *)
EveryJobEnds == \A j \in Jobs : status[j] \in ACTIVE ~> status[j] \notin ACTIVE

(* A worker told to stop does stop, releasing its job first. *)
StopsWhenTold == \A w \in Workers : stopping[w] ~> pc[w] \in Gone
=============================================================================

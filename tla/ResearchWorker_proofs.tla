----------------------- MODULE ResearchWorker_proofs ------------------------
(***************************************************************************)
(* Proofs about ResearchWorker, for any number of jobs, workers, attempts, *)
(* crashes and database errors.                                            *)
(***************************************************************************)
EXTENDS ResearchWorker, TLAPS

(* The steps that write to the job table, each with the worker that takes  *)
(* it and the rows it names.                                               *)
Writes ==
    \/ \E j \in Jobs : Enqueue(j) \/ RequestCancel(j) \/ LeaseLapse(j)
    \/ \E w \in Workers :
          \/ pc[w] = "reaping" /\ ReapExpired(snapshot[w])
          \/ \E old \in SUBSET Jobs : PurgeFinished(old)
          \/ pc[w] = "claiming" /\ Claim(job[w], w)
          \/ pc[w] = "running" /\ RenewLease(job[w], w, attempt[w])
          \/ pc[w] = "completing" /\ Complete(job[w], w, attempt[w], claim[w], outcome[w].from)
          \/ /\ pc[w] = "finishing"
             /\ \/ Fail(job[w], w, attempt[w], claim[w])
                \/ outcome[w].tag = "cancelled" /\ MarkCancelled(job[w], w, attempt[w], claim[w])
                \/ Release(job[w], w, attempt[w])

(* Every step of the system either leaves the job table alone or is one of *)
(* these writes.                                                           *)
LEMMA JobTableSteps == [Next]_vars => UNCHANGED jobVars \/ Writes
<1> SUFFICES ASSUME [Next]_vars, ~Writes PROVE UNCHANGED jobVars
  OBVIOUS
<1>1. CASE UNCHANGED vars
  BY <1>1 DEF vars
<1>2. CASE Api
  BY <1>2 DEF Api, ApiEnqueue, ApiCancel, Writes
<1>3. CASE Time
  BY <1>3 DEF Time, Writes
<1>4. ASSUME NEW w \in Workers, Child(w) PROVE UNCHANGED jobVars
  BY <1>4 DEF Child, ChildCompute, ChildDie
<1>5. ASSUME NEW w \in Workers, Work(w) PROVE UNCHANGED jobVars
  <2>1. CASE ReapSelect(w) \/ ClaimSelect(w) \/ Execute(w) \/ Stop(w)
    BY <2>1 DEF ReapSelect, ClaimSelect, Execute, Stop
  <2>2. CASE ReapApply(w) \/ ClaimCommit(w)
    BY <2>2 DEF ReapApply, ClaimCommit, Writes
  <2>3. CASE Receive(w) \/ Crashed(w)
    BY <2>3 DEF Receive, Crashed, Return
  <2>4. CASE RecordTrials(w) \/ DiscardResult(w) \/ RefuseResult(w) \/ AuditResult(w) \/ DropLost(w)
    BY <2>4 DEF RecordTrials, DiscardResult, RefuseResult, AuditResult, DropLost
  <2>5. CASE StoreResult(w)
    BY <2>5 DEF StoreResult, Writes
  <2>6. CASE FailJob(w) \/ CancelJob(w) \/ ReleaseJob(w)
    BY <2>6 DEF FailJob, CancelJob, ReleaseJob, Writes
  <2> QED
    BY <1>5, <2>1, <2>2, <2>3, <2>4, <2>5, <2>6 DEF Work
<1>6. ASSUME NEW w \in Workers, Tick(w) PROVE UNCHANGED jobVars
  BY <1>6 DEF Tick, TickShutdown, TickCancelled, TickRenew, TickLost, Return, Writes
<1>7. ASSUME NEW w \in Workers, Disturb(w) PROVE UNCHANGED jobVars
  BY <1>7 DEF Disturb, Purge, TimeLimit, Fault, Signal, Crash, Return, Writes
<1> QED
  BY <1>1, <1>2, <1>3, <1>4, <1>5, <1>6, <1>7 DEF Next

-----------------------------------------------------------------------------
(* What reap_expired does to one row: nothing, or the row is running and   *)
(* lapsed, matches a row of the snapshot, and is moved by ReapedStatus.    *)
ReapedFrom(rows, j, row) ==
    /\ row \in rows /\ Stale(row) /\ row.job = j
    /\ status'[j] = ReapedStatus(row)
    /\ worker_id'[j] = IF ReapedStatus(row) = "queued" THEN NoWorker ELSE worker_id[j]
    /\ lease'[j] = "none"
    /\ ended_by'[j] = IF ReapedStatus(row) # "queued" THEN claims[j] ELSE ended_by[j]

RowSame(j) ==
    /\ status'[j] = status[j] /\ worker_id'[j] = worker_id[j]
    /\ lease'[j] = lease[j] /\ ended_by'[j] = ended_by[j]

LEMMA ReapRow ==
    ASSUME NEW rows, ReapExpired(rows), NEW j \in Jobs
    PROVE  RowSame(j) \/ \E row \in rows : ReapedFrom(rows, j, row)
<1> DEFINE reaped == {row \in rows : Stale(row)}
           hit == \E row \in reaped : row.job = j
           row == CHOOSE row \in reaped : row.job = j
<1>1. CASE ~hit
  BY <1>1 DEF ReapExpired, RowSame
<1>2. CASE hit
  <2>1. row \in reaped /\ row.job = j
    BY <1>2
  <2>2. /\ status'[j] = ReapedStatus(row)
        /\ worker_id'[j] = IF ReapedStatus(row) = "queued" THEN NoWorker ELSE worker_id[j]
        /\ lease'[j] = "none"
        /\ ended_by'[j] = IF ReapedStatus(row) # "queued" THEN claims[j] ELSE ended_by[j]
    BY <1>2 DEF ReapExpired
  <2> HIDE DEF row
  <2> QED
    BY <2>1, <2>2 DEF ReapedFrom
<1> QED
  BY <1>1, <1>2

(* Every write keeps the table's types and the consistency of its rows.    *)
(* Claim may charge a run because a queued row has one left, Release gives *)
(* one back because a running row has one charged.                         *)
LEMMA TableStep ==
    ASSUME TypeOK, RowsConsistent, WorkerKnowledge, Writes
    PROVE  JobsTypeOK' /\ RowsConsistent'
<1> DEFINE Good == JobsTypeOK' /\ RowsConsistent'
<1> USE JobsAssumption DEF JobsTypeOK, RowsConsistent, Statuses, ACTIVE, TERMINAL
<1>1. JobsTypeOK /\ RowsConsistent
  BY DEF TypeOK
<1>2. ASSUME NEW j \in Jobs, Enqueue(j) \/ RequestCancel(j) \/ LeaseLapse(j) PROVE Good
  BY <1>1, <1>2 DEF Enqueue, RequestCancel, LeaseLapse
<1>3. ASSUME NEW w \in Workers, ReapExpired(snapshot[w]) PROVE Good
  <2>1. ASSUME NEW j \in Jobs
        PROVE  /\ status'[j] \in Statuses /\ worker_id'[j] \in Workers \cup {NoWorker}
               /\ lease'[j] \in {"none", "current", "lapsed"} /\ ended_by'[j] \in Nat
               /\ RowSame(j) \/ \E row \in SnapshotRow :
                     /\ status[j] = "running" /\ attempts[j] = row.attempts
                     /\ status'[j] = ReapedStatus(row) /\ lease'[j] = "none"
                     /\ status'[j] = "queued" => worker_id'[j] = NoWorker
    <3>1. CASE RowSame(j)
      BY <1>1, <3>1 DEF RowSame
    <3>2. ASSUME NEW row \in snapshot[w], ReapedFrom(snapshot[w], j, row)
          PROVE  /\ status'[j] \in Statuses /\ worker_id'[j] \in Workers \cup {NoWorker}
                 /\ lease'[j] \in {"none", "current", "lapsed"} /\ ended_by'[j] \in Nat
                 /\ row \in SnapshotRow /\ status[j] = "running" /\ attempts[j] = row.attempts
                 /\ status'[j] = ReapedStatus(row) /\ lease'[j] = "none"
                 /\ status'[j] = "queued" => worker_id'[j] = NoWorker
      <4>1. row \in SnapshotRow
        BY <3>2 DEF TypeOK, WorkerTypeOK
      <4> QED
        BY <1>1, <3>2, <4>1 DEF ReapedFrom, ReapedStatus, Stale, Lapsed
    <3> QED
      BY <1>3, <3>1, <3>2, ReapRow
  <2>2. JobsTypeOK'
    BY <1>1, <1>3, <2>1 DEF ReapExpired
  <2>3. attempts' = attempts
    BY <1>3 DEF ReapExpired
  <2>4. RowsConsistent'
    BY <1>1, <2>1, <2>3 DEF RowSame, ReapedStatus, SnapshotRow
  <2> QED
    BY <2>2, <2>4
<1>4. ASSUME NEW old \in SUBSET Jobs, PurgeFinished(old) PROVE Good
  BY <1>1, <1>4 DEF PurgeFinished
<1>5. ASSUME NEW w \in Workers, pc[w] \in {"claiming", "running", "finishing", "completing"}
      PROVE  job[w] \in Jobs /\ attempt[w] \in 0..MaxAttempts /\ claim[w] \in Nat
             /\ outcome[w].from \in Jobs \cup {0}
  BY <1>5 DEF WorkerKnowledge, KnowsJob, Executing, TypeOK, WorkerTypeOK, Outcomes
<1>6. ASSUME NEW j \in Jobs, NEW w \in Workers, Claim(j, w) PROVE Good
  <2>1. attempts[j] \in 0..(MaxAttempts - 1) /\ claims[j] \in Nat
    BY <1>1, <1>6 DEF Claim
  <2>2. attempts[j] + 1 \in 1..MaxAttempts /\ claims[j] + 1 \in Nat
    BY <2>1
  <2>3. JobsTypeOK'
    BY <1>1, <1>6, <2>2 DEF Claim
  <2>4. RowsConsistent'
    BY <1>1, <1>6, <2>2 DEF Claim
  <2> QED
    BY <2>3, <2>4
<1>7. ASSUME NEW j \in Jobs, NEW w \in Workers, NEW a, RenewLease(j, w, a) PROVE Good
  BY <1>1, <1>7 DEF RenewLease, Owned
<1>8. ASSUME NEW j \in Jobs, NEW w \in Workers, NEW a, NEW c \in Nat,
             NEW from \in Jobs \cup {0}, Complete(j, w, a, c, from)
      PROVE  Good
  <2>1. effects[j] + 1 \in Nat
    BY <1>1
  <2>2. JobsTypeOK'
    BY <1>1, <1>8, <2>1 DEF Complete, Finish, Owned
  <2>3. RowsConsistent'
    BY <1>1, <1>8 DEF Complete, Finish, Owned
  <2> QED
    BY <2>2, <2>3
<1>9. ASSUME NEW j \in Jobs, NEW w \in Workers, NEW a, NEW c \in Nat,
             Fail(j, w, a, c) \/ MarkCancelled(j, w, a, c)
      PROVE  Good
  BY <1>1, <1>9 DEF Fail, MarkCancelled, Finish, Owned
<1>10. ASSUME NEW j \in Jobs, NEW w \in Workers, NEW a, Release(j, w, a) PROVE Good
  <2>1. attempts[j] \in 1..MaxAttempts
    BY <1>1, <1>10 DEF Release, Owned
  <2>2. attempts[j] - 1 \in 0..MaxAttempts /\ attempts[j] - 1 < MaxAttempts
    BY <2>1
  <2>3. JobsTypeOK'
    BY <1>1, <1>10, <2>2 DEF Release, Owned
  <2>4. RowsConsistent'
    BY <1>1, <1>10, <2>2 DEF Release, Owned
  <2> QED
    BY <2>3, <2>4
<1> HIDE DEF Good
<1>11. Good
  BY <1>2, <1>3, <1>4, <1>5, <1>6, <1>7, <1>8, <1>9, <1>10 DEF Writes
<1> QED
  BY <1>11 DEF Good

-----------------------------------------------------------------------------
(* Updates of a function and of an outcome stay in their types. *)
LEMMA UpdateType ==
    ASSUME NEW S, NEW T, NEW f \in [S -> T], NEW x, NEW v \in T
    PROVE  [f EXCEPT ![x] = v] \in [S -> T]
OBVIOUS

LEMMA BumpType ==
    ASSUME NEW S, NEW f \in [S -> Nat], NEW x \in S
    PROVE  [f EXCEPT ![x] = f[x] + 1] \in [S -> Nat]
OBVIOUS

LEMMA RetagType ==
    ASSUME NEW o \in Outcomes
    PROVE  [o EXCEPT !.tag = "error"] \in Outcomes
BY DEF Outcomes

(* Every step keeps the types of the workers' own variables. *)
LEMMA WorkerTypes ==
    ASSUME TypeOK, WorkerKnowledge, [Next]_vars, JobsTypeOK'
    PROVE  WorkerTypeOK'
<1> USE JobsAssumption, WorkerAssumption
    DEF TypeOK, WorkerTypeOK, Locations, Goto, execVars, childVars
<1>1. CASE UNCHANGED vars
  BY <1>1 DEF vars, workerVars
<1>2. CASE Api \/ Time
  BY <1>2 DEF Api, ApiEnqueue, ApiCancel, Time, workerVars
<1>3. NoOutcome \in Outcomes /\ ChildOutcomes \subseteq Outcomes
  BY DEF NoOutcome, Outcomes, ChildOutcomes
<1>4. ASSUME NEW w \in Workers, Child(w) PROVE WorkerTypeOK'
  <2>1. CASE ChildCompute(w)
    <3>1. Head(todo[w]) \in Jobs /\ Tail(todo[w]) \in Seq(Jobs)
      BY <2>1 DEF ChildCompute
    <3>2. PICK tag \in {"ok", "error"} :
             out' = [out EXCEPT ![w] = Append(@, [tag |-> tag, from |-> Head(todo[w])])]
      BY <2>1 DEF ChildCompute
    <3>3. [tag |-> tag, from |-> Head(todo[w])] \in ChildOutcomes
      BY <3>1 DEF ChildOutcomes
    <3>4. Append(out[w], [tag |-> tag, from |-> Head(todo[w])]) \in Seq(ChildOutcomes)
      BY <3>3
    <3> QED
      BY <2>1, <3>1, <3>2, <3>4 DEF ChildCompute
  <2>2. CASE ChildDie(w)
    BY <2>2 DEF ChildDie
  <2> QED
    BY <1>4, <2>1, <2>2 DEF Child
<1>5. ASSUME NEW w \in Workers, KillChild(w)
      PROVE  /\ child' \in [Workers -> {"none", "alive", "dead"}]
             /\ todo' \in [Workers -> Seq(Jobs)] /\ out' \in [Workers -> Seq(ChildOutcomes)]
             /\ ran' \in [Workers -> Nat]
  BY <1>5 DEF KillChild
<1>6. ASSUME NEW w \in Workers, Forget(w)
      PROVE  /\ job' \in [Workers -> Jobs \cup {0}] /\ attempt' \in [Workers -> 0..MaxAttempts]
             /\ claim' \in [Workers -> Nat] /\ outcome' \in [Workers -> Outcomes]
  BY <1>3, <1>6 DEF Forget
<1>7. ASSUME NEW w \in Workers, NEW result \in Outcomes, Return(w, result)
      PROVE  /\ outcome' \in [Workers -> Outcomes]
             /\ pc' \in [Workers -> Locations]
             /\ UNCHANGED <<stopping, snapshot, job, attempt, claim, trials, audits, faults>>
  BY <1>7 DEF Return
<1>8. \A tag \in {"crashed", "timeout", "shutdown", "cancelled", "lost"} :
         [tag |-> tag, from |-> 0] \in Outcomes
  BY DEF Outcomes
<1>9. ASSUME NEW w \in Workers, Tick(w) \/ TimeLimit(w) \/ Crashed(w) PROVE WorkerTypeOK'
  <2>1. CASE TickRenew(w)
    BY <2>1 DEF TickRenew, workerVars
  <2>2. ASSUME NEW tag \in {"crashed", "timeout", "shutdown", "cancelled", "lost"},
               Return(w, [tag |-> tag, from |-> 0]), KillChild(w)
        PROVE  WorkerTypeOK'
    BY <1>5, <1>7, <1>8, <2>2
  <2> QED
    BY <1>9, <2>1, <2>2 DEF Tick, TickShutdown, TickCancelled, TickLost, TimeLimit, Crashed
<1>10. ASSUME NEW w \in Workers, Receive(w) PROVE WorkerTypeOK'
  <2>1. Head(out[w]) \in ChildOutcomes /\ Tail(out[w]) \in Seq(ChildOutcomes)
    BY <1>10 DEF Receive
  <2>2. Head(out[w]) \in Outcomes
    BY <2>1, <1>3
  <2>3. CASE KillChild(w)
    BY <1>5, <1>7, <1>10, <2>2, <2>3 DEF Receive
  <2>4. CASE ~KillChild(w)
    <3>1. /\ out' = [out EXCEPT ![w] = Tail(@)] /\ ran' = [ran EXCEPT ![w] = @ + 1]
          /\ UNCHANGED <<child, todo>>
      BY <1>10, <2>4 DEF Receive
    <3>2. out' \in [Workers -> Seq(ChildOutcomes)] /\ ran' \in [Workers -> Nat]
      BY <2>1, <3>1
    <3>3. Return(w, Head(out[w]))
      BY <1>10 DEF Receive
    <3> QED
      BY <1>7, <2>2, <3>1, <3>2, <3>3
  <2> QED
    BY <2>3, <2>4
<1>11. ASSUME NEW w \in Workers, Done(w) PROVE WorkerTypeOK'
  BY <1>6, <1>11 DEF Done
<1>12. ASSUME NEW w \in Workers, ReapSelect(w) \/ ReapApply(w) PROVE WorkerTypeOK'
  <2>1. ExpiredRows \in SUBSET SnapshotRow
    BY DEF ExpiredRows, SnapshotRow, JobsTypeOK
  <2> QED
    BY <1>12, <2>1 DEF ReapSelect, ReapApply
<1>13. ASSUME NEW w \in Workers, ClaimSelect(w) \/ ClaimCommit(w) PROVE WorkerTypeOK'
  <2>1. CASE ClaimSelect(w)
    <3>1. UNCHANGED job \/ \E j \in Jobs : job' = [job EXCEPT ![w] = j]
      BY <2>1 DEF ClaimSelect
    <3>2. job' \in [Workers -> Jobs \cup {0}]
      BY <3>1
    <3>3. pc' \in [Workers -> Locations]
      BY <2>1 DEF ClaimSelect
    <3> QED
      BY <2>1, <3>2, <3>3 DEF ClaimSelect
  <2>2. CASE ClaimCommit(w)
    <3>1. job[w] \in Jobs
      BY <2>2 DEF ClaimCommit, WorkerKnowledge, KnowsJob
    <3>2. claims'[job[w]] \in Nat
      BY <3>1 DEF JobsTypeOK
    <3> QED
      BY <2>2, <3>2 DEF ClaimCommit
  <2> QED
    BY <1>13, <2>1, <2>2
<1>14. ASSUME NEW w \in Workers, Execute(w) PROVE WorkerTypeOK'
  <2>1. job[w] \in Jobs
    BY <1>14 DEF Execute, WorkerKnowledge, KnowsJob, Executing
  <2>2. attempts[job[w]] \in 0..MaxAttempts
    BY <2>1 DEF JobsTypeOK
  <2>3. [tag |-> "error", from |-> job[w]] \in Outcomes
    BY <2>1 DEF Outcomes
  <2>4. Append(todo[w], job[w]) \in Seq(Jobs) /\ <<job[w]>> \in Seq(Jobs)
    BY <2>1
  <2>5. attempt' \in [Workers -> 0..MaxAttempts]
    BY <1>14, <2>2, UpdateType DEF Execute
  <2>6. pc' \in [Workers -> Locations]
    BY <1>14, ZenonT(60) DEF Execute
  <2>7. outcome' \in [Workers -> Outcomes]
    BY <1>14, <2>3, UpdateType DEF Execute
  <2>8. child' \in [Workers -> {"none", "alive", "dead"}]
    BY <1>14 DEF Execute
  <2>9. todo' \in [Workers -> Seq(Jobs)]
    BY <1>14, <2>4, UpdateType DEF Execute
  <2>10. out' \in [Workers -> Seq(ChildOutcomes)] /\ ran' \in [Workers -> Nat]
    BY <1>14, UpdateType DEF Execute
  <2> QED
    BY <1>14, <2>5, <2>6, <2>7, <2>8, <2>9, <2>10 DEF Execute
<1>15. ASSUME NEW w \in Workers, RecordTrials(w) \/ StoreResult(w) \/ AuditResult(w)
       PROVE  WorkerTypeOK'
  <2>1. CASE RecordTrials(w) \/ StoreResult(w)
    BY <2>1 DEF RecordTrials, StoreResult
  <2>2. CASE AuditResult(w)
    <3>1. job[w] \in Jobs
      BY <2>2 DEF AuditResult, WorkerKnowledge, KnowsJob
    <3>2. audits' \in [Jobs -> Nat]
      <4>1. audits' = [audits EXCEPT ![job[w]] = audits[job[w]] + 1]
        BY <2>2 DEF AuditResult
      <4> QED
        BY <3>1, <4>1, BumpType
    <3> QED
      BY <1>6, <2>2, <3>2 DEF AuditResult
  <2> QED
    BY <1>15, <2>1, <2>2
<1>16. ASSUME NEW w \in Workers, RefuseResult(w) PROVE WorkerTypeOK'
  <2>1. [outcome[w] EXCEPT !.tag = "error"] \in Outcomes
    BY RetagType
  <2> QED
    BY <1>16, <2>1 DEF RefuseResult
<1>17. ASSUME NEW w \in Workers, Purge(w) \/ Signal(w) PROVE WorkerTypeOK'
  BY <1>17 DEF Purge, Signal, workerVars
<1>18. ASSUME NEW w \in Workers, Fault(w) PROVE WorkerTypeOK'
  BY <1>6, <1>18, SMTT(60) DEF Fault
<1>19. ASSUME NEW w \in Workers, Stop(w) \/ Crash(w) PROVE WorkerTypeOK'
  BY <1>5, <1>6, <1>19 DEF Stop, Crash
<1> HIDE DEF WorkerTypeOK, TypeOK
<1> QED
  BY <1>1, <1>2, <1>4, <1>9, <1>10, <1>11, <1>12, <1>13, <1>14, <1>15, <1>16, <1>17, <1>18, <1>19
     DEF Next, Work, Disturb, DiscardResult, FailJob, CancelJob, ReleaseJob, DropLost

-----------------------------------------------------------------------------
(* A step changes what at most one worker knows of its own. *)
Same(v) ==
    /\ pc'[v] = pc[v] /\ job'[v] = job[v] /\ attempt'[v] = attempt[v]
    /\ claim'[v] = claim[v] /\ outcome'[v] = outcome[v] /\ snapshot'[v] = snapshot[v]

(* The moves a worker makes through its program: how its own variables     *)
(* change, and on what condition.                                          *)
Move(w) ==
    \/ \* to idle, housekept, stopped or dead: it knows nothing
       /\ pc'[w] \in {"idle", "housekept", "stopped", "dead"}
       /\ outcome'[w] = outcome[w] \/ outcome'[w] = NoOutcome
       /\ snapshot'[w] = snapshot[w] \/ snapshot'[w] = {}
    \/ /\ pc'[w] = "reaping" /\ snapshot'[w] = ExpiredRows /\ outcome'[w] = outcome[w]
    \/ /\ pc'[w] = "claiming" /\ job'[w] \in Jobs
       /\ outcome'[w] = outcome[w] /\ snapshot'[w] = snapshot[w]
    \/ /\ pc[w] = "claiming" /\ pc'[w] = "claimed" /\ Claim(job[w], w)
       /\ job'[w] = job[w] /\ claim'[w] = claims'[job[w]]
       /\ outcome'[w] = outcome[w] /\ snapshot'[w] = snapshot[w]
    \/ \* within _execute, up to the end of JobProcess.run
       /\ \/ pc[w] = "claimed" /\ pc'[w] = "running" /\ outcome'[w] = outcome[w]
          \/ /\ pc[w] \in {"claimed", "running", "completing"} /\ pc'[w] = "finishing"
             /\ outcome'[w].tag = "cancelled" => cancel_requested[job[w]]
             /\ outcome'[w].tag = "ok" => outcome'[w].from \in Jobs
       /\ job'[w] = job[w] /\ claim'[w] = claim[w] /\ snapshot'[w] = snapshot[w]
    \/ /\ pc[w] = "finishing" /\ pc'[w] = "completing" /\ outcome[w].tag = "ok"
       /\ trials' = [trials EXCEPT ![outcome[w].from] = TRUE]
       /\ job'[w] = job[w] /\ claim'[w] = claim[w] /\ outcome'[w] = outcome[w]
       /\ snapshot'[w] = snapshot[w]
    \/ /\ pc[w] = "completing" /\ pc'[w] = "auditing"
       /\ Complete(job[w], w, attempt[w], claim[w], outcome[w].from)
       /\ job'[w] = job[w] /\ outcome'[w] = outcome[w] /\ snapshot'[w] = snapshot[w]

(* Every step is a move of one worker, or leaves all of them where they    *)
(* are.                                                                    *)
LEMMA OneMoves ==
    ASSUME TypeOK, WorkerKnowledge, [Next]_vars
    PROVE  \/ \A v \in Workers : Same(v)
           \/ \E w \in Workers : Move(w) /\ \A v \in Workers \ {w} : Same(v)
<1> DEFINE Goal == \/ \A v \in Workers : Same(v)
                   \/ \E w \in Workers : Move(w) /\ \A v \in Workers \ {w} : Same(v)
<1> USE DEF TypeOK, WorkerTypeOK, Goto, execVars
<1>1. CASE UNCHANGED vars \/ Api \/ Time
  BY <1>1 DEF vars, workerVars, Api, ApiEnqueue, ApiCancel, Time, Same
<1>2. ASSUME NEW w \in Workers, Child(w) \/ Signal(w) \/ Purge(w) \/ TickRenew(w) PROVE Goal
  BY <1>2 DEF Child, ChildCompute, ChildDie, Signal, Purge, TickRenew, workerVars, Same
<1>3. ASSUME NEW w \in Workers, ReapSelect(w) \/ ReapApply(w) \/ Stop(w) PROVE Goal
  BY <1>3 DEF ReapSelect, ReapApply, Stop, Same, Move
<1>4. ASSUME NEW w \in Workers, Forget(w), pc' = [pc EXCEPT ![w] = "idle"] \/ pc' = [pc EXCEPT ![w] = "dead"],
             snapshot' = snapshot \/ snapshot' = [snapshot EXCEPT ![w] = {}]
      PROVE  Goal
  BY <1>4 DEF Forget, Same, Move
<1>5. ASSUME NEW w \in Workers, Done(w) \/ AuditResult(w) \/ Fault(w) \/ Crash(w) PROVE Goal
  BY <1>4, <1>5 DEF Done, AuditResult, Fault, Crash
<1>6. ASSUME NEW w \in Workers, ClaimSelect(w) PROVE Goal
  BY <1>6, SMTT(60) DEF ClaimSelect, Same, Move
<1>7. ASSUME NEW w \in Workers, ClaimCommit(w) PROVE Goal
  BY <1>7 DEF ClaimCommit, Same, Move
<1>8. ASSUME NEW w \in Workers, Execute(w) PROVE Goal
  <2>1. /\ pc[w] = "claimed" /\ job' = job /\ claim' = claim /\ snapshot' = snapshot
        /\ attempt' = [attempt EXCEPT ![w] = attempts[job[w]]]
    BY <1>8 DEF Execute
  <2>2. \/ pc' = [pc EXCEPT ![w] = "running"] /\ outcome' = outcome
        \/ /\ pc' = [pc EXCEPT ![w] = "finishing"]
           /\ outcome' = [outcome EXCEPT ![w] = [tag |-> "error", from |-> job[w]]]
    BY <1>8 DEF Execute
  <2>3. \A v \in Workers \ {w} : Same(v)
    BY <2>1, <2>2 DEF Same
  <2>4. Move(w)
    BY <2>1, <2>2 DEF Move
  <2> QED
    BY <2>3, <2>4
<1>9. ASSUME NEW w \in Workers, NEW result, Return(w, result),
             result.tag = "cancelled" => cancel_requested[job[w]],
             result.tag = "ok" => result.from \in Jobs
      PROVE  Goal
  BY <1>9 DEF Return, Same, Move
<1>10. ASSUME NEW w \in Workers, Receive(w) PROVE Goal
  <2>1. Head(out[w]) \in ChildOutcomes
    BY <1>10 DEF Receive
  <2> QED
    BY <1>9, <1>10, <2>1 DEF Receive, ChildOutcomes
<1>11. ASSUME NEW w \in Workers,
              Crashed(w) \/ TimeLimit(w) \/ TickShutdown(w) \/ TickCancelled(w) \/ TickLost(w)
       PROVE  Goal
  BY <1>9, <1>11 DEF Crashed, TimeLimit, TickShutdown, TickCancelled, TickLost
<1>12. ASSUME NEW w \in Workers, RecordTrials(w) PROVE Goal
  BY <1>12 DEF RecordTrials, Same, Move
<1>13. ASSUME NEW w \in Workers, StoreResult(w) PROVE Goal
  BY <1>13 DEF StoreResult, Same, Move
<1>14. ASSUME NEW w \in Workers, RefuseResult(w) PROVE Goal
  BY <1>14 DEF RefuseResult, Same, Move, Outcomes
<1> HIDE DEF Goal, TypeOK
<1>15. Goal
  BY <1>1, <1>2, <1>3, <1>5, <1>6, <1>7, <1>8, <1>10, <1>11, <1>12, <1>13, <1>14
     DEF Next, Work, Tick, Disturb, DiscardResult, FailJob, CancelJob, ReleaseJob, DropLost, Goal
<1> QED
  BY <1>15 DEF Goal

-----------------------------------------------------------------------------
(* What a step does to the row of one job, as far as the properties read   *)
(* it: the row stays, or moves as one of the transactions moves it. Every  *)
(* move that ends a running job is made for its newest claim.              *)
Unmoved(j) ==
    /\ claims'[j] = claims[j] /\ effects'[j] = effects[j]
    /\ result_of'[j] = result_of[j]

Started(j) ==
    /\ \E w \in Workers : pc[w] = "claiming" /\ job[w] = j /\ worker_id'[j] = w
    /\ status[j] = "queued" /\ status'[j] = "running"
    /\ claims'[j] = claims[j] + 1 /\ attempts'[j] = attempts[j] + 1
    /\ ended_by'[j] = ended_by[j] /\ effects'[j] = effects[j] /\ result_of'[j] = result_of[j]

Stored(j) ==
    /\ \E w \in Workers : pc[w] = "completing" /\ job[w] = j
                           /\ result_of'[j] = outcome[w].from
    /\ status[j] = "running" /\ status'[j] = "succeeded"
    /\ effects'[j] = effects[j] + 1 /\ ended_by'[j] = claims[j]
    /\ claims'[j] = claims[j] /\ attempts'[j] = attempts[j]

GivenUp(j) ==
    /\ status[j] = "running" /\ status'[j] \in {"failed", "cancelled"}
    /\ status'[j] = "cancelled" => cancel_requested[j]
    /\ ended_by'[j] = claims[j] /\ attempts'[j] = attempts[j] /\ Unmoved(j)

Requeued(j) ==
    /\ status[j] = "running" /\ status'[j] = "queued"
    /\ attempts'[j] \in {attempts[j], attempts[j] - 1} /\ attempts'[j] < MaxAttempts
    /\ ended_by'[j] = ended_by[j] /\ Unmoved(j)

Relabelled(j) ==
    /\ \/ status[j] = "none" /\ status'[j] = "queued"
       \/ status[j] = "queued" /\ status'[j] = "cancelled"
       \/ status[j] \in TERMINAL /\ status'[j] = "purged"
    /\ ended_by'[j] = ended_by[j] /\ attempts'[j] = attempts[j] /\ Unmoved(j)

Still(j) ==
    /\ status'[j] = status[j] /\ worker_id'[j] = worker_id[j]
    /\ ended_by'[j] = ended_by[j] /\ attempts'[j] = attempts[j] /\ Unmoved(j)

RowStep(j) ==
    /\ cancel_requested[j] => cancel_requested'[j]
    /\ \/ Started(j) \/ Stored(j) \/ GivenUp(j) \/ Requeued(j) \/ Relabelled(j)
       \/ Still(j)

LEMMA RowSteps ==
    ASSUME TypeOK, RowsConsistent, WorkerKnowledge, UNCHANGED jobVars \/ Writes,
           NEW j \in Jobs
    PROVE  RowStep(j)
<1> USE DEF RowStep, Unmoved
<1>1. JobsTypeOK /\ RowsConsistent
  BY DEF TypeOK
<1>2. CASE UNCHANGED jobVars
  BY <1>2 DEF jobVars, Still
<1>3. ASSUME NEW i \in Jobs, Enqueue(i) \/ RequestCancel(i) \/ LeaseLapse(i)
      PROVE  RowStep(j)
  BY <1>1, <1>3 DEF Enqueue, RequestCancel, LeaseLapse, JobsTypeOK, Still, Relabelled
<1>4. ASSUME NEW w \in Workers, ReapExpired(snapshot[w]) PROVE RowStep(j)
  <2>1. UNCHANGED <<attempts, cancel_requested, result_of, effects, claims>>
    BY <1>4 DEF ReapExpired
  <2>2. CASE RowSame(j)
    BY <2>1, <2>2 DEF RowSame, Still
  <2>3. ASSUME NEW row \in snapshot[w], ReapedFrom(snapshot[w], j, row) PROVE RowStep(j)
    <3>1. /\ status[j] = "running" /\ attempts[j] = row.attempts /\ row.job = j
          /\ row \in SnapshotRow
      BY <2>3 DEF ReapedFrom, Stale, Lapsed, TypeOK, WorkerTypeOK
    <3>2. row.cancel => cancel_requested[j]
      BY <3>1 DEF WorkerKnowledge, KnowsRequest
    <3>3. CASE status'[j] = "queued"
      BY <2>1, <2>3, <3>1, <3>3 DEF ReapedFrom, ReapedStatus, Requeued
    <3>4. CASE status'[j] # "queued"
      BY <2>1, <2>3, <3>1, <3>2, <3>4 DEF ReapedFrom, ReapedStatus, GivenUp
    <3> QED
      BY <3>3, <3>4
  <2> QED
    BY <1>4, <2>2, <2>3, ReapRow
<1>5. ASSUME NEW old \in SUBSET Jobs, PurgeFinished(old) PROVE RowStep(j)
  BY <1>1, <1>5 DEF PurgeFinished, Still, Relabelled, JobsTypeOK
<1>6. ASSUME NEW w \in Workers, pc[w] = "claiming", Claim(job[w], w) PROVE RowStep(j)
  <2>1. CASE job[w] = j
    BY <1>1, <1>6, <2>1 DEF Claim, Started, JobsTypeOK
  <2>2. CASE job[w] # j
    BY <1>1, <1>6, <2>2 DEF Claim, Still, JobsTypeOK
  <2> QED
    BY <2>1, <2>2
<1>7. ASSUME NEW w \in Workers, RenewLease(job[w], w, attempt[w]) PROVE RowStep(j)
  BY <1>7 DEF RenewLease, Still
<1>8. ASSUME NEW w \in Workers, pc[w] \in {"finishing", "completing"}, job[w] = j,
             Owned(job[w], w, attempt[w])
      PROVE  claim[w] = claims[j] /\ status[j] = "running"
  BY <1>8 DEF Owned, WorkerKnowledge, KnowsClaim, Executing
<1>9. ASSUME NEW w \in Workers, pc[w] = "completing",
             Complete(job[w], w, attempt[w], claim[w], outcome[w].from)
      PROVE  RowStep(j)
  <2>1. CASE job[w] = j
    BY <1>1, <1>8, <1>9, <2>1 DEF Complete, Finish, Stored, JobsTypeOK
  <2>2. CASE job[w] # j
    BY <1>1, <1>9, <2>2 DEF Complete, Finish, Still, JobsTypeOK
  <2> QED
    BY <2>1, <2>2
<1>10. ASSUME NEW w \in Workers, pc[w] = "finishing",
              \/ Fail(job[w], w, attempt[w], claim[w])
              \/ outcome[w].tag = "cancelled" /\ MarkCancelled(job[w], w, attempt[w], claim[w])
       PROVE  RowStep(j)
  <2>1. CASE job[w] = j
    <3>1. outcome[w].tag = "cancelled" => cancel_requested[j]
      BY <1>10, <2>1 DEF WorkerKnowledge, KnowsRequest
    <3> QED
      BY <1>1, <1>8, <1>10, <2>1, <3>1 DEF Fail, MarkCancelled, Finish, GivenUp, JobsTypeOK
  <2>2. CASE job[w] # j
    BY <1>1, <1>10, <2>2 DEF Fail, MarkCancelled, Finish, Still, JobsTypeOK
  <2> QED
    BY <2>1, <2>2
<1>11. ASSUME NEW w \in Workers, Release(job[w], w, attempt[w]) PROVE RowStep(j)
  <2>1. CASE job[w] = j
    <3>1. status[j] = "running" /\ attempts[j] \in 1..MaxAttempts
      BY <1>1, <1>11, <2>1 DEF Release, Owned, RowsConsistent
    <3>2. attempts[j] - 1 < MaxAttempts
      BY <3>1, JobsAssumption
    <3> QED
      BY <1>1, <1>11, <2>1, <3>1, <3>2 DEF Release, Requeued, JobsTypeOK
  <2>2. CASE job[w] # j
    BY <1>1, <1>11, <2>2 DEF Release, Still, JobsTypeOK
  <2> QED
    BY <2>1, <2>2
<1> HIDE DEF RowStep
<1> QED
  BY <1>2, <1>3, <1>4, <1>5, <1>6, <1>7, <1>9, <1>10, <1>11 DEF Writes

-----------------------------------------------------------------------------
(* The trial ledger only grows, and only an audit event that a worker is   *)
(* due to write is written.                                                *)
AuditsOwn(w) ==
    /\ pc[w] = "auditing" /\ pc'[w] = "idle"
    /\ audits' = [audits EXCEPT ![job[w]] = @ + 1]
    /\ UNCHANGED jobVars

LEMMA LedgerSteps ==
    ASSUME TypeOK, WorkerKnowledge, [Next]_vars
    PROVE  /\ \A j \in Jobs : trials[j] => trials'[j]
           /\ audits' = audits \/ \E w \in Workers : AuditsOwn(w)
<1> DEFINE Goal == /\ \A j \in Jobs : trials[j] => trials'[j]
                   /\ audits' = audits \/ \E w \in Workers : AuditsOwn(w)
<1>1. CASE UNCHANGED vars \/ Api \/ Time
  BY <1>1 DEF vars, workerVars, Api, ApiEnqueue, ApiCancel, Time
<1>2. ASSUME NEW w \in Workers, Child(w) \/ Tick(w) \/ Disturb(w) PROVE Goal
  BY <1>2 DEF Child, ChildCompute, ChildDie, Tick, TickShutdown, TickCancelled, TickRenew,
              TickLost, Disturb, Purge, TimeLimit, Fault, Signal, Crash, Return, workerVars
<1>3. ASSUME NEW w \in Workers, RecordTrials(w) PROVE Goal
  BY <1>3 DEF RecordTrials, TypeOK, WorkerTypeOK
<1>4. ASSUME NEW w \in Workers, AuditResult(w) PROVE Goal
  BY <1>4 DEF AuditResult, AuditsOwn, Goto, TypeOK, WorkerTypeOK
<1>5. ASSUME NEW w \in Workers, Work(w), ~RecordTrials(w), ~AuditResult(w) PROVE Goal
  BY <1>5 DEF Work, ReapSelect, ReapApply, ClaimSelect, ClaimCommit, Execute, Receive,
              Crashed, Return, StoreResult, DiscardResult, RefuseResult, FailJob,
              CancelJob, ReleaseJob, DropLost, Stop, Done
<1> HIDE DEF Goal
<1>6. Goal
  BY <1>1, <1>2, <1>3, <1>4, <1>5 DEF Next, Goal
<1> QED
  BY <1>6 DEF Goal

(* A worker that works for a job's newest claim still does, or has lost    *)
(* the row: a newer claim carries the id of the worker that made it, which *)
(* was not executing anything then.                                        *)
LEMMA ClaimKept ==
    ASSUME QueueInv, NEW v \in Workers, \A j \in Jobs : RowStep(j), Same(v) \/ Move(v)
    PROVE  KnowsClaim(v)'
<1> SUFFICES ASSUME pc'[v] \in Executing, status'[job'[v]] = "running", worker_id'[job'[v]] = v
             PROVE  claim'[v] = claims'[job'[v]]
  BY DEF KnowsClaim
<1>1. CASE pc[v] \in Executing /\ job'[v] = job[v] /\ claim'[v] = claim[v]
  <2>1. PICK j \in Jobs : j = job[v]
    BY <1>1 DEF QueueInv, WorkerKnowledge, KnowsJob
  <2>2. ~Started(j)
    BY <1>1, <2>1 DEF Started, Executing
  <2>3. Still(j)
    BY <1>1, <2>1, <2>2 DEF RowStep, Stored, GivenUp, Requeued, Relabelled
  <2>4. claim[v] = claims[j]
    BY <1>1, <2>1, <2>3 DEF Still, QueueInv, WorkerKnowledge, KnowsClaim
  <2> QED
    BY <1>1, <2>1, <2>3, <2>4 DEF Still, Unmoved
<1>2. CASE job'[v] = job[v] /\ claim'[v] = claims'[job[v]]
  BY <1>2
<1> QED
  BY <1>1, <1>2 DEF Same, Move, Executing

LEMMA RequestKept ==
    ASSUME QueueInv, NEW v \in Workers, \A j \in Jobs : RowStep(j), Same(v) \/ Move(v)
    PROVE  KnowsRequest(v)'
<1>1. \A j \in Jobs : cancel_requested[j] => cancel_requested'[j]
  BY DEF RowStep
<1>2. ASSUME NEW row \in snapshot'[v], row.cancel PROVE cancel_requested'[row.job]
  <2>1. CASE snapshot'[v] = snapshot[v]
    <3>1. row.job \in Jobs
      BY <1>2, <2>1 DEF QueueInv, TypeOK, WorkerTypeOK, SnapshotRow
    <3> QED
      BY <1>1, <1>2, <2>1, <3>1 DEF QueueInv, WorkerKnowledge, KnowsRequest
  <2>2. CASE snapshot'[v] = ExpiredRows
    <3>1. PICK j \in Jobs : row = [job |-> j, worker |-> worker_id[j], attempts |-> attempts[j],
                                  cancel |-> cancel_requested[j]]
      BY <1>2, <2>2 DEF ExpiredRows
    <3> QED
      BY <1>1, <1>2, <3>1
  <2> QED
    BY <1>2, <2>1, <2>2 DEF Same, Move
<1>3. ASSUME pc'[v] = "finishing", outcome'[v].tag = "cancelled"
      PROVE  cancel_requested'[job'[v]]
  <2>1. job'[v] = job[v] /\ pc[v] \in Executing
    BY <1>3 DEF Same, Move, Executing
  <2>2. job[v] \in Jobs
    BY <2>1 DEF QueueInv, WorkerKnowledge, KnowsJob
  <2>3. cancel_requested[job[v]]
    BY <1>3 DEF Same, Move, QueueInv, WorkerKnowledge, KnowsRequest
  <2> QED
    BY <1>1, <2>1, <2>2, <2>3
<1> QED
  BY <1>2, <1>3 DEF KnowsRequest

LEMMA TrialsKept ==
    ASSUME QueueInv, NEW v \in Workers, Same(v) \/ Move(v),
           \A j \in Jobs : trials[j] => trials'[j]
    PROVE  KnowsTrials(v)'
<1>1. outcome[v].tag = "ok" => outcome[v].from \in Jobs
  BY DEF QueueInv, WorkerKnowledge, KnowsTrials
<1>2. outcome'[v].tag = "ok" => outcome'[v].from \in Jobs
  BY <1>1 DEF Same, Move, NoOutcome, QueueInv, WorkerKnowledge, KnowsTrials
<1>3. ASSUME pc'[v] = "completing" PROVE outcome'[v].tag = "ok" /\ trials'[outcome'[v].from]
  <2>1. CASE Same(v)
    <3>1. outcome[v].tag = "ok" /\ trials[outcome[v].from]
      BY <1>3, <2>1 DEF Same, QueueInv, WorkerKnowledge, KnowsTrials
    <3> QED
      BY <1>1, <2>1, <3>1 DEF Same
  <2>2. CASE Move(v)
    <3>1. /\ outcome[v].tag = "ok" /\ outcome'[v] = outcome[v]
          /\ trials' = [trials EXCEPT ![outcome[v].from] = TRUE]
      BY <1>3, <2>2 DEF Move
    <3> QED
      BY <1>1, <3>1 DEF QueueInv, TypeOK, WorkerTypeOK
  <2> QED
    BY <2>1, <2>2
<1> QED
  BY <1>2, <1>3 DEF KnowsTrials

LEMMA JobKept ==
    ASSUME QueueInv, NEW v \in Workers, Same(v) \/ Move(v)
    PROVE  KnowsJob(v)'
BY DEF Same, Move, QueueInv, WorkerKnowledge, KnowsJob, Executing

(* The finalizer's rows are committed by the one step that makes a running *)
(* job succeed.                                                            *)
LEMMA EffectsKept ==
    ASSUME QueueInv, \A j \in Jobs : RowStep(j)
    PROVE  EffectsExactlyOnce' /\ \A j \in Jobs : effects'[j] # effects[j] => Stored(j)
<1> SUFFICES ASSUME NEW j \in Jobs
             PROVE  /\ status'[j] = "succeeded" => effects'[j] = 1
                    /\ status'[j] \notin {"succeeded", "purged"} => effects'[j] = 0
                    /\ status'[j] = "purged" => effects'[j] <= 1
                    /\ effects'[j] # effects[j] => Stored(j)
  BY DEF EffectsExactlyOnce
<1>1. /\ status[j] = "succeeded" => effects[j] = 1
      /\ status[j] \notin {"succeeded", "purged"} => effects[j] = 0
      /\ status[j] = "purged" => effects[j] <= 1
  BY DEF QueueInv, EffectsExactlyOnce
<1>2. CASE Stored(j)
  BY <1>1, <1>2 DEF Stored
<1>3. CASE Started(j) \/ Requeued(j) \/ GivenUp(j)
  BY <1>1, <1>3 DEF Started, Requeued, GivenUp, Unmoved
<1>4. CASE Relabelled(j)
  BY <1>1, <1>4 DEF Relabelled, Unmoved, TERMINAL
<1>5. CASE Still(j)
  BY <1>1, <1>5 DEF Still, Unmoved
<1> QED
  BY <1>2, <1>3, <1>4, <1>5 DEF RowStep

LEMMA TrialsBeforeKept ==
    ASSUME QueueInv, \A j \in Jobs : RowStep(j), \A j \in Jobs : trials[j] => trials'[j]
    PROVE  TrialsBeforeResult'
<1> SUFFICES ASSUME NEW j \in Jobs, result_of'[j] # 0 PROVE trials'[result_of'[j]]
  BY DEF TrialsBeforeResult
<1>1. CASE result_of'[j] = result_of[j]
  <2>1. result_of[j] \in Jobs /\ trials[result_of[j]]
    BY <1>1 DEF QueueInv, TypeOK, JobsTypeOK, TrialsBeforeResult
  <2> QED
    BY <1>1, <2>1
<1>2. CASE Stored(j)
  <2>1. PICK w \in Workers : pc[w] = "completing" /\ result_of'[j] = outcome[w].from
    BY <1>2 DEF Stored
  <2>2. outcome[w].from \in Jobs /\ trials[outcome[w].from]
    BY <2>1 DEF QueueInv, WorkerKnowledge, KnowsTrials
  <2> QED
    BY <2>1, <2>2
<1> QED
  BY <1>1, <1>2 DEF RowStep, Started, GivenUp, Requeued, Relabelled, Still, Unmoved

(* A worker about to write its audit event has stored the result itself,   *)
(* and no other worker is about to write one for that job: it would have   *)
(* had to store a result of a job that was not running any more.           *)
LEMMA StoredKept ==
    ASSUME QueueInv, \A j \in Jobs : RowStep(j), NEW w \in Workers,
           Same(w) \/ Move(w), \A v \in Workers \ {w} : Same(v),
           audits' = audits \/ \E v \in Workers : AuditsOwn(v)
    PROVE  (\A v \in Workers : KnowsStored(v)') /\ AuditedOnlyIfStored'
<1>1. /\ audits \in [Jobs -> Nat] /\ effects \in [Jobs -> Nat]
      /\ \A j \in Jobs : audits[j] <= effects[j]
      /\ \A j \in Jobs : status[j] = "running" => effects[j] = 0
  BY DEF QueueInv, TypeOK, JobsTypeOK, WorkerTypeOK, AuditedOnlyIfStored, EffectsExactlyOnce
<1>2. \A j \in Jobs : effects'[j] = effects[j] \/ Stored(j)
  BY EffectsKept
<1>3. ASSUME NEW v \in Workers, pc[v] = "auditing"
      PROVE  /\ job[v] \in Jobs /\ effects[job[v]] = 1 /\ audits[job[v]] = 0
             /\ effects'[job[v]] = 1
             /\ \A u \in Workers \ {v} : pc[u] = "auditing" => job[u] # job[v]
  <2>1. /\ job[v] \in Jobs /\ effects[job[v]] = 1 /\ audits[job[v]] = 0
        /\ \A u \in Workers \ {v} : pc[u] = "auditing" => job[u] # job[v]
    BY <1>3 DEF QueueInv, WorkerKnowledge, KnowsJob, KnowsStored
  <2>2. ~Stored(job[v])
    BY <1>1, <2>1 DEF Stored
  <2> QED
    BY <1>2, <2>1, <2>2
<1>4. ASSUME NEW v \in Workers, AuditsOwn(v)
      PROVE  AuditedOnlyIfStored' /\ \A j \in Jobs \ {job[v]} : audits'[j] = audits[j]
  <2>1. job[v] \in Jobs /\ effects'[job[v]] = 1 /\ audits[job[v]] = 0
    BY <1>3, <1>4 DEF AuditsOwn
  <2>2. audits' = [audits EXCEPT ![job[v]] = audits[job[v]] + 1] /\ effects' = effects
    BY <1>4 DEF AuditsOwn, jobVars
  <2>3. audits'[job[v]] = 1
    BY <1>1, <2>1, <2>2
  <2>4. \A j \in Jobs \ {job[v]} : audits'[j] = audits[j]
    BY <1>1, <2>1, <2>2
  <2>5. ASSUME NEW j \in Jobs PROVE audits'[j] <= effects'[j]
    BY <1>1, <2>1, <2>2, <2>3, <2>4
  <2> QED
    BY <2>4, <2>5 DEF AuditedOnlyIfStored
<1>5. AuditedOnlyIfStored'
  <2>1. CASE audits' = audits
    <3>1. ASSUME NEW j \in Jobs PROVE audits'[j] <= effects'[j]
      <4>1. effects'[j] = effects[j] \/ effects'[j] = effects[j] + 1
        BY <1>2 DEF Stored
      <4> QED
        BY <1>1, <2>1, <4>1
    <3> QED
      BY <3>1 DEF AuditedOnlyIfStored
  <2> QED
    BY <1>4, <2>1
<1>6. ASSUME NEW v \in Workers, pc'[v] = "auditing", pc[v] # "auditing"
      PROVE  /\ v = w /\ job'[v] = job[v] /\ job[v] \in Jobs /\ audits' = audits
             /\ effects[job[v]] = 0 /\ effects'[job[v]] = 1
  <2>1. v = w /\ ~Same(v)
    BY <1>6 DEF Same
  <2>2. /\ pc[v] = "completing" /\ job'[v] = job[v]
        /\ Complete(job[v], v, attempt[v], claim[v], outcome[v].from)
    BY <1>6, <2>1 DEF Move
  <2>3. job[v] \in Jobs
    BY <2>2 DEF QueueInv, WorkerKnowledge, KnowsJob, Executing
  <2>4. /\ status[job[v]] = "running"
        /\ effects' = [effects EXCEPT ![job[v]] = effects[job[v]] + 1]
    BY <2>2 DEF Complete, Finish, Owned
  <2>5. effects[job[v]] = 0 /\ effects'[job[v]] = 1
    BY <1>1, <2>3, <2>4
  <2>6. ~\E u \in Workers : AuditsOwn(u)
    BY <2>3, <2>5 DEF AuditsOwn, jobVars
  <2> QED
    BY <2>1, <2>2, <2>3, <2>5, <2>6
<1>7. ASSUME NEW v \in Workers, pc'[v] = "auditing" PROVE KnowsStored(v)'
  <2>1. CASE pc[v] = "auditing"
    <3>1. job'[v] = job[v]
      BY <1>7, <2>1 DEF Same, Move
    <3>2. audits'[job[v]] = 0
      <4>1. CASE audits' = audits
        BY <1>3, <2>1, <4>1
      <4>2. ASSUME NEW u \in Workers, AuditsOwn(u) PROVE audits'[job[v]] = 0
        <5>1. u # v /\ pc[u] = "auditing"
          BY <1>7, <4>2 DEF AuditsOwn
        <5>2. job[u] # job[v]
          BY <1>3, <2>1, <5>1
        <5> QED
          BY <1>3, <1>4, <2>1, <4>2, <5>2
      <4> QED
        BY <4>1, <4>2
    <3>3. ASSUME NEW u \in Workers \ {v}, pc'[u] = "auditing" PROVE job'[u] # job'[v]
      <4>1. CASE pc[u] = "auditing"
        BY <1>3, <2>1, <3>1, <3>3, <4>1 DEF Same, Move
      <4>2. CASE pc[u] # "auditing"
        BY <1>3, <1>6, <2>1, <3>1, <3>3, <4>2
      <4> QED
        BY <4>1, <4>2
    <3> QED
      BY <1>3, <2>1, <3>1, <3>2, <3>3 DEF KnowsStored
  <2>2. CASE pc[v] # "auditing"
    <3>1. /\ v = w /\ job'[v] = job[v] /\ job[v] \in Jobs /\ audits' = audits
          /\ effects[job[v]] = 0 /\ effects'[job[v]] = 1
      BY <1>6, <1>7, <2>2
    <3>2. audits'[job[v]] = 0
      BY <1>1, <3>1
    <3>3. ASSUME NEW u \in Workers \ {v}, pc'[u] = "auditing" PROVE job'[u] # job'[v]
      <4>1. Same(u)
        BY <3>1, <3>3
      <4>2. effects[job[u]] = 1 /\ job'[u] = job[u]
        BY <1>3, <3>3, <4>1 DEF Same
      <4> QED
        BY <3>1, <4>2
    <3> QED
      BY <3>1, <3>2, <3>3 DEF KnowsStored
  <2> QED
    BY <2>1, <2>2
<1> QED
  BY <1>5, <1>7 DEF KnowsStored

-----------------------------------------------------------------------------
LEMMA QueueInit == Init => QueueInv
<1> SUFFICES ASSUME Init PROVE QueueInv
  OBVIOUS
<1> USE JobsAssumption, WorkerAssumption DEF Init, JobsInit
<1>1. JobsTypeOK
  BY DEF JobsTypeOK, Statuses, ACTIVE, TERMINAL
<1>2. WorkerTypeOK
  BY DEF WorkerTypeOK, Locations, NoOutcome, Outcomes
<1>3. RowsConsistent
  <2> SUFFICES ASSUME NEW j \in Jobs
               PROVE  /\ status[j] = "none" /\ worker_id[j] = NoWorker
                      /\ lease[j] = "none" /\ attempts[j] < MaxAttempts
    BY DEF RowsConsistent, TERMINAL
  <2>1. 0 < MaxAttempts
    OBVIOUS
  <2> QED
    BY <2>1
<1>4. WorkerKnowledge
  BY DEF WorkerKnowledge, KnowsJob, KnowsClaim, KnowsRequest, KnowsTrials, KnowsStored,
         Executing, NoOutcome
<1>5. EffectsExactlyOnce /\ AuditedOnlyIfStored /\ TrialsBeforeResult
  BY DEF EffectsExactlyOnce, AuditedOnlyIfStored, TrialsBeforeResult
<1> QED
  BY <1>1, <1>2, <1>3, <1>4, <1>5 DEF QueueInv, TypeOK

LEMMA RowsMove ==
    ASSUME QueueInv, [Next]_vars
    PROVE  \A j \in Jobs : RowStep(j)
BY JobTableSteps, RowSteps DEF QueueInv

LEMMA QueueStep ==
    ASSUME QueueInv, [Next]_vars
    PROVE  QueueInv'
<1>1. TypeOK /\ RowsConsistent /\ WorkerKnowledge
  BY DEF QueueInv
<1>2. UNCHANGED jobVars \/ Writes
  BY JobTableSteps
<1>3. JobsTypeOK' /\ RowsConsistent'
  <2>1. CASE UNCHANGED jobVars
    BY <1>1, <2>1 DEF TypeOK, JobsTypeOK, RowsConsistent, jobVars
  <2> QED
    BY <1>1, <1>2, <2>1, TableStep
<1>4. TypeOK'
  BY <1>1, <1>3, WorkerTypes DEF TypeOK
<1>5. \A j \in Jobs : RowStep(j)
  BY RowsMove
<1>6. /\ \A j \in Jobs : trials[j] => trials'[j]
      /\ audits' = audits \/ \E w \in Workers : AuditsOwn(w)
  BY <1>1, LedgerSteps
<1>7. EffectsExactlyOnce' /\ TrialsBeforeResult'
  BY <1>5, <1>6, EffectsKept, TrialsBeforeKept
<1>8. CASE Workers = {}
  <2>1. WorkerKnowledge'
    BY <1>8 DEF WorkerKnowledge
  <2>2. audits' = audits
    BY <1>6, <1>8
  <2>3. AuditedOnlyIfStored'
    <3> SUFFICES ASSUME NEW j \in Jobs PROVE audits'[j] <= effects'[j]
      BY DEF AuditedOnlyIfStored
    <3>1. effects'[j] = effects[j]
      BY <1>5, <1>8, EffectsKept DEF Stored
    <3> QED
      BY <2>2, <3>1 DEF QueueInv, AuditedOnlyIfStored
  <2> QED
    BY <1>3, <1>4, <1>7, <2>1, <2>3 DEF QueueInv
<1>9. CASE Workers # {}
  <2>1. PICK w \in Workers : (Same(w) \/ Move(w)) /\ \A v \in Workers \ {w} : Same(v)
    BY <1>1, <1>9, OneMoves
  <2>2. ASSUME NEW v \in Workers PROVE Same(v) \/ Move(v)
    BY <2>1
  <2>3. (\A v \in Workers : KnowsStored(v)') /\ AuditedOnlyIfStored'
    BY <1>5, <1>6, <2>1, StoredKept
  <2>4. ASSUME NEW v \in Workers
        PROVE  KnowsJob(v)' /\ KnowsClaim(v)' /\ KnowsRequest(v)' /\ KnowsTrials(v)'
    BY <1>5, <1>6, <2>2, JobKept, ClaimKept, RequestKept, TrialsKept
  <2>5. WorkerKnowledge'
    BY <2>3, <2>4 DEF WorkerKnowledge
  <2> QED
    BY <1>3, <1>4, <1>7, <2>3, <2>5 DEF QueueInv
<1> QED
  BY <1>8, <1>9

(* The strengthened invariant holds in every reachable state, for any      *)
(* number of jobs, workers, attempts, kills and database errors: the       *)
(* rows of research_jobs are consistent and every worker's knowledge of    *)
(* its job is true when it acts on it.                                     *)
THEOREM QueueInvariant == Spec => []QueueInv
<1>1. QueueInv /\ [Next]_vars => QueueInv'
  BY QueueStep
<1> QED
  BY QueueInit, <1>1, PTL DEF Spec

(* Every variable keeps its type; in particular attempts never exceeds     *)
(* MaxAttempts, whatever claim_next, release and reap_expired do to it.    *)
THEOREM TypesHold == Spec => []TypeOK
<1>1. QueueInv => TypeOK
  BY DEF QueueInv
<1> QED
  BY QueueInvariant, <1>1, PTL

(* The columns of a row agree: only a running job has a worker and a       *)
(* lease, and a queued one has a run left.                                 *)
THEOREM RowsAreConsistent == Spec => []RowsConsistent
<1>1. QueueInv => RowsConsistent
  BY DEF QueueInv
<1> QED
  BY QueueInvariant, <1>1, PTL

(* The fence of research_jobs._owned is exact: who passes it works for the *)
(* job's newest claim.                                                     *)
THEOREM FenceHolds == Spec => []FenceIsExact
<1>1. QueueInv => FenceIsExact
  BY DEF QueueInv, WorkerKnowledge, KnowsClaim, FenceIsExact, Owned
<1> QED
  BY QueueInvariant, <1>1, PTL

(* The finalizer's rows are committed exactly once for a job that          *)
(* succeeds and never for another (complete).                              *)
THEOREM EffectsOnce == Spec => []EffectsExactlyOnce
<1>1. QueueInv => EffectsExactlyOnce
  BY DEF QueueInv
<1> QED
  BY QueueInvariant, <1>1, PTL

(* complete audits only a result it stored, and only once. *)
THEOREM AuditsFollowResults == Spec => []AuditedOnlyIfStored
<1>1. QueueInv => AuditedOnlyIfStored
  BY DEF QueueInv
<1> QED
  BY QueueInvariant, <1>1, PTL

(* A stored result's configurations are in the trial ledger first. *)
THEOREM TrialsComeFirst == Spec => []TrialsBeforeResult
<1>1. QueueInv => TrialsBeforeResult
  BY DEF QueueInv
<1> QED
  BY QueueInvariant, <1>1, PTL

(* A job's effects, its trials and its audit event: once, in order, and    *)
(* only with a stored result.                                              *)
THEOREM ResultsHold == Spec => []ResultsAreSound
<1>1. QueueInv => ResultsAreSound
  BY DEF QueueInv, ResultsAreSound
<1> QED
  BY QueueInvariant, <1>1, PTL

(* A running job is cancelled only if its owner asked for it, by the       *)
(* worker or by the reaper.                                                *)
THEOREM CancelledOnRequest == Spec => CancelledOnlyOnRequest
<1>1. QueueInv /\ [Next]_vars =>
        [\A j \in Jobs : status[j] = "running" /\ status'[j] = "cancelled"
                           => cancel_requested[j]]_vars
  <2> SUFFICES ASSUME QueueInv, [Next]_vars, NEW j \in Jobs, status[j] = "running",
                      status'[j] = "cancelled"
               PROVE  cancel_requested[j]
    OBVIOUS
  <2>1. RowStep(j)
    BY RowsMove
  <2> QED
    BY <2>1 DEF RowStep, Started, Stored, GivenUp, Requeued, Relabelled, Still, TERMINAL
<1> QED
  BY QueueInvariant, <1>1, PTL DEF Spec, CancelledOnlyOnRequest

(* The workers, the reaper and the API together implement the lifecycle of *)
(* the docstring of research_jobs.py: every transaction gives each job one *)
(* of the steps drawn there, or none.                                      *)
THEOREM LifecycleImplemented == Spec => ImplementsLifecycle
<1>1. Init => Lifecycle!Init
  BY DEF Init, JobsInit, Lifecycle!Init
<1>2. QueueInv /\ [Next]_vars => [Lifecycle!Next]_(Lifecycle!vars)
  <2> SUFFICES ASSUME QueueInv, [Next]_vars, NEW j \in Jobs PROVE Lifecycle!JobStep(j)
    BY DEF Lifecycle!Next
  <2>1. RowStep(j)
    BY RowsMove
  <2>2. CASE Started(j)
    <3>1. attempts[j] < MaxAttempts
      BY <2>2 DEF Started, QueueInv, RowsConsistent
    <3> QED
      BY <2>2, <3>1 DEF Started, Lifecycle!JobStep, Lifecycle!Start
  <2>3. CASE Stored(j) \/ GivenUp(j)
    BY <2>3 DEF Stored, GivenUp, Unmoved, Lifecycle!JobStep, Lifecycle!End, Lifecycle!Terminal
  <2>4. CASE Requeued(j)
    BY <2>4 DEF Requeued, Unmoved, Lifecycle!JobStep, Lifecycle!Requeue
  <2>5. CASE Relabelled(j)
    BY <2>5 DEF Relabelled, Unmoved, TERMINAL, Lifecycle!JobStep, Lifecycle!Submit,
                Lifecycle!CancelQueued, Lifecycle!Forget, Lifecycle!Terminal
  <2>6. CASE Still(j)
    BY <2>6 DEF Still, Unmoved, Lifecycle!JobStep, Lifecycle!Stay
  <2> QED
    BY <2>1, <2>2, <2>3, <2>4, <2>5, <2>6 DEF RowStep
<1> QED
  BY QueueInvariant, <1>1, <1>2, PTL DEF Spec, ImplementsLifecycle, Lifecycle!Spec
=============================================================================

---------------------------- MODULE Experiments ----------------------------
(***************************************************************************)
(* The experiment registry of backend/services/experiment_registry.py: an  *)
(* experiment is created with inputs that never change, run once by a      *)
(* research job, validated by jobs that execute it again, replayed, and    *)
(* approved by an operator who does not own it. The endpoints of main.py   *)
(* check and queue; the worker executes and records; the job queue itself  *)
(* (leases, attempts, cancelling) is modelled by ResearchWorker.           *)
(*                                                                         *)
(* An element of Inputs stands for a strategy with its dataset, parameters *)
(* and seed, and for their hashes. A key is modelled by its key_id.        *)
(* A job slot is                                                           *)
(*   idle -> checked    the endpoint has checked the experiment            *)
(*        -> queued -> executed -> registered (run jobs: the signing key   *)
(*           is committed) -> done or refused                              *)
(***************************************************************************)
EXTENDS Naturals

CONSTANTS Exps, Jobs, Users,
          Operators,    \* the users _is_admin accepts
          Inputs,
          Executable,   \* inputs check_strategy_inputs accepts
          Profitable,   \* inputs whose results pass the deployment gates
          MaxUpgrades,  \* bound on deployments of another ENGINE_VERSION
          MaxRestarts,  \* bound on restarts of the worker
          None

VARIABLES rows,       \* research_experiments
          jobs,       \* the experiment jobs, and the requests that queue them
          engine,     \* ENGINE_VERSION of the API and of the worker processes
          identity,   \* key_id of the worker's server_identity
          keyTable,   \* server_signing_keys
          evidence    \* history: the execution the last validation judged

(* research_experiments holds the inputs and, after the run, the record. *)
Result == [of : Inputs, engine : Nat]
SignedManifest == [inputs : Inputs, engine : Nat, result : Result, key : Nat]

Row == [owner : Users, inputs : Inputs, engine : Nat,
        status : {"CREATED", "COMPLETED", "VALIDATED", "APPROVED"},
        result : Result \cup {None}, manifest : SignedManifest \cup {None},
        signature : [of : SignedManifest, by : Nat] \cup {None},
        approvedBy : Users \cup Operators \cup {None}]

(* None is the NULL of a column, and the row that does not exist. *)
ASSUME ExperimentsAssumption == None \notin Row

experimentVars == <<rows, jobs, engine, identity, keyTable, evidence>>

NoJob == [at |-> "idle"]

ExperimentInit ==
    /\ rows = [x \in Exps |-> None]
    /\ jobs = [j \in Jobs |-> NoJob]
    /\ engine = [api |-> 1, worker |-> 1]
    /\ identity = 1 /\ keyTable = {}
    /\ evidence = [x \in Exps |-> None]

-----------------------------------------------------------------------------
(* What the registry computes *)

(* run_strategy: identical inputs give identical results on one engine. *)
RunStrategy(i, e) == [of |-> i, engine |-> e]

(* experiment_execution, the task of all three kinds of job *)
ExperimentExecution(job) ==
    IF job.execute
    THEN [executed |-> TRUE, inputs |-> job.inputs,
          result |-> RunStrategy(job.inputs, engine.worker)]
    ELSE [executed |-> FALSE]

BuildManifest(row, result, key) ==
    [inputs |-> row.inputs, engine |-> row.engine, result |-> result, key |-> key]

SignManifest(m) == [of |-> m, by |-> identity]

(* The key a manifest names, from the table or the running identity. *)
ManifestPublicKey(key) ==
    IF key \in keyTable \/ key = identity THEN key ELSE None

VerifyManifestSignature(m, s) == s.of = m /\ s.by = ManifestPublicKey(m.key)

(* The signature, and whether the row still is what was signed. *)
ManifestView(row) ==
    [valid |-> VerifyManifestSignature(row.manifest, row.signature),
     consistent |-> row.manifest.inputs = row.inputs /\ row.manifest.result = row.result]

ValidateForDeployment(row) == row.result.of \in Profitable /\ row.signature # None

(* Reproduced only if the recorded inputs gave the recorded result. *)
ReplayOutcome(row, out) ==
    IF out.executed /\ row.inputs \in Executable /\ row.result # None
    THEN [executed |-> TRUE,
          reproduced |-> out.inputs = row.inputs /\ out.result = row.result]
    ELSE [executed |-> FALSE, reproduced |-> FALSE]

(* All gates of _validate_row; the stored inputs never change, so they     *)
(* still hash to the recorded values.                                      *)
GatesPass(row, out) ==
    /\ ValidateForDeployment(row)
    /\ ManifestView(row).valid /\ ManifestView(row).consistent
    /\ ReplayOutcome(row, out).reproduced

-----------------------------------------------------------------------------
(* The API process *)

Create(u, x, i) ==
    /\ rows[x] = None
    /\ rows' = [rows EXCEPT ![x] =
          [owner |-> u, inputs |-> i, engine |-> engine.api, status |-> "CREATED",
           result |-> None, manifest |-> None, signature |-> None, approvedBy |-> None]]
    /\ UNCHANGED <<jobs, engine, identity, keyTable, evidence>>

(* A request of u about x passes its check and goes on to enqueue. *)
Checked(j, kind, u, x, execute, verification) ==
    /\ jobs[j].at = "idle" /\ rows[x] # None /\ rows[x].owner = u
    /\ jobs' = [jobs EXCEPT ![j] =
          [at |-> "checked", kind |-> kind, exp |-> x, inputs |-> rows[x].inputs,
           execute |-> execute, verification |-> verification]]
    /\ UNCHANGED <<rows, engine, identity, keyTable, evidence>>

RunJobParams(j, u, x) ==
    /\ Checked(j, "run", u, x, TRUE, None)
    /\ rows[x].inputs \in Executable /\ rows[x].status = "CREATED"

ValidateJobParams(j, u, x) ==
    /\ Checked(j, "validate", u, x, rows[x].inputs \in Executable /\ rows[x].result # None, None)
    /\ rows[x].status \in {"COMPLETED", "VALIDATED"}

(* The supplied inputs, or the stored ones, are compared with the row's. *)
ReplayJobParams(j, u, x, supplied) ==
    /\ rows[x] # None
    /\ LET matches == supplied \in {None, rows[x].inputs}
       IN Checked(j, "replay", u, x,
                  matches /\ rows[x].result # None /\ rows[x].inputs \in Executable, matches)

(* enqueue: a run or a validation of the experiment that is still active   *)
(* answers the request instead of another job.                             *)
QueueJob(j) ==
    /\ jobs[j].at = "checked"
    /\ LET same == {k \in Jobs \ {j} : /\ jobs[k].at \in {"queued", "executed", "registered"}
                                       /\ jobs[k].kind = jobs[j].kind /\ jobs[k].exp = jobs[j].exp}
       IN jobs' = [jobs EXCEPT ![j] = IF jobs[j].kind # "replay" /\ same # {} THEN NoJob
                                      ELSE [@ EXCEPT !.at = "queued"]]
    /\ UNCHANGED <<rows, engine, identity, keyTable, evidence>>

(* approve_experiment, under the row's lock *)
ApproveExperiment(u, x) ==
    /\ u \in Operators /\ rows[x] # None
    /\ rows[x].owner # u /\ rows[x].status = "VALIDATED"
    /\ rows' = [rows EXCEPT ![x].status = "APPROVED", ![x].approvedBy = u]
    /\ UNCHANGED <<jobs, engine, identity, keyTable, evidence>>

-----------------------------------------------------------------------------
(* The worker: the task, then its finalizer in the transaction of complete *)

Execute(j) ==
    /\ jobs[j].at = "queued"
    /\ jobs' = [jobs EXCEPT ![j] = [at |-> "executed", kind |-> @.kind, exp |-> @.exp,
                                    inputs |-> @.inputs, execute |-> @.execute,
                                    verification |-> @.verification,
                                    out |-> ExperimentExecution(@)]]
    /\ UNCHANGED <<rows, engine, identity, keyTable, evidence>>

Ends(j, at) == jobs' = [jobs EXCEPT ![j].at = at]

(* Signs without registering the key (mutant of RegisterSigningKey). *)
RegisterNothing(j) ==
    /\ jobs[j].at = "executed" /\ jobs[j].kind = "run"
    /\ Ends(j, "registered")
    /\ UNCHANGED <<rows, engine, identity, keyTable, evidence>>

(* finalize_run_job commits the signing key before it locks the row. *)
RegisterSigningKey(j) ==
    /\ jobs[j].at = "executed" /\ jobs[j].kind = "run"
    /\ keyTable' = keyTable \cup {identity}
    /\ Ends(j, "registered")
    /\ UNCHANGED <<rows, engine, identity, evidence>>

Recordable(row, out) == row.status = "CREATED" /\ out.inputs = row.inputs

(* _record: results, completion and the signed manifest at once *)
Recorded(row, result) ==
    LET m == BuildManifest(row, result, identity)
    IN [row EXCEPT !.status = "COMPLETED", !.result = result, !.manifest = m,
                   !.signature = SignManifest(m)]

FinalizeRunJob(j) ==
    LET x == jobs[j].exp
    IN /\ jobs[j].at = "registered"
       /\ \/ /\ Recordable(rows[x], jobs[j].out)
             /\ rows' = [rows EXCEPT ![x] = Recorded(@, jobs[j].out.result)]
             /\ Ends(j, "done")
          \/ /\ ~Recordable(rows[x], jobs[j].out)
             /\ Ends(j, "refused") /\ UNCHANGED rows
       /\ UNCHANGED <<engine, identity, keyTable, evidence>>

(* Trusts the check the API made when it queued (mutant of Validatable). *)
ValidatableWhenQueued(row) == row.result # None

Validatable(row) == row.status \in {"COMPLETED", "VALIDATED"}

FinalizeValidateJob(j) ==
    LET x == jobs[j].exp
    IN /\ jobs[j].at = "executed" /\ jobs[j].kind = "validate"
       /\ \/ /\ Validatable(rows[x])
             /\ rows' = [rows EXCEPT ![x].status =
                            IF GatesPass(rows[x], jobs[j].out) THEN "VALIDATED" ELSE "COMPLETED"]
             /\ evidence' = [evidence EXCEPT ![x] = jobs[j].out]
             /\ Ends(j, "done")
          \/ /\ ~Validatable(rows[x])
             /\ Ends(j, "refused") /\ UNCHANGED <<rows, evidence>>
       /\ UNCHANGED <<engine, identity, keyTable>>

(* The answer: the API's comparison, and whether the result came again.    *)
FinalizeReplayJob(j) ==
    /\ jobs[j].at = "executed" /\ jobs[j].kind = "replay"
    /\ jobs' = [jobs EXCEPT ![j] =
          [at |-> "done", kind |-> "replay", exp |-> @.exp, matches |-> @.verification,
           reproduced |-> ReplayOutcome(rows[@.exp], @.out).reproduced]]
    /\ UNCHANGED <<rows, engine, identity, keyTable, evidence>>

-----------------------------------------------------------------------------
(* Deployments *)

Upgrade(p) ==
    /\ engine[p] <= MaxUpgrades
    /\ engine' = [engine EXCEPT ![p] = @ + 1]
    /\ UNCHANGED <<rows, jobs, identity, keyTable, evidence>>

(* Without a configured key the worker has another one after a restart;    *)
(* jobs it had not finished are claimed again.                             *)
RestartWorker ==
    /\ identity <= MaxRestarts
    /\ identity' = identity + 1
    /\ jobs' = [j \in Jobs |->
          IF jobs[j].at \in {"executed", "registered"}
          THEN [at |-> "queued", kind |-> jobs[j].kind, exp |-> jobs[j].exp,
                inputs |-> jobs[j].inputs, execute |-> jobs[j].execute,
                verification |-> jobs[j].verification]
          ELSE jobs[j]]
    /\ UNCHANGED <<rows, engine, keyTable, evidence>>

ExperimentNext ==
    \/ \E u \in Users, x \in Exps, i \in Inputs : Create(u, x, i)
    \/ \E j \in Jobs, u \in Users, x \in Exps :
          \/ RunJobParams(j, u, x)
          \/ ValidateJobParams(j, u, x)
          \/ \E supplied \in Inputs \cup {None} : ReplayJobParams(j, u, x, supplied)
    \/ \E u \in Users, x \in Exps : ApproveExperiment(u, x)
    \/ \E j \in Jobs :
          \/ QueueJob(j) \/ Execute(j) \/ RegisterSigningKey(j)
          \/ FinalizeRunJob(j) \/ FinalizeValidateJob(j) \/ FinalizeReplayJob(j)
    \/ \E p \in {"api", "worker"} : Upgrade(p)
    \/ RestartWorker

ExperimentSpec == ExperimentInit /\ [][ExperimentNext]_experimentVars

-----------------------------------------------------------------------------
(* The inductive invariant *)

Execution == [executed : {TRUE}, inputs : Inputs, result : Result] \cup [executed : {FALSE}]

Job == {NoJob}
    \cup [at : {"checked", "queued"}, kind : {"run", "validate", "replay"}, exp : Exps,
          inputs : Inputs, execute : BOOLEAN, verification : BOOLEAN \cup {None}]
    \cup [at : {"executed", "registered", "done", "refused"},
          kind : {"run", "validate", "replay"}, exp : Exps,
          inputs : Inputs, execute : BOOLEAN, verification : BOOLEAN \cup {None},
          out : Execution]
    \cup [at : {"done"}, kind : {"replay"}, exp : Exps,
          matches : BOOLEAN \cup {None}, reproduced : BOOLEAN]

ExperimentsType ==
    /\ rows \in [Exps -> Row \cup {None}]
    /\ jobs \in [Jobs -> Job]
    /\ engine \in [{"api", "worker"} -> Nat]
    /\ identity \in Nat /\ keyTable \subseteq Nat
    /\ evidence \in [Exps -> Execution \cup {None}]

(* A row without its record is new; one with it has a manifest that names  *)
(* a registered key and describes the row, signed with that key.           *)
RecordInv(x) ==
    IF rows[x].status = "CREATED" THEN rows[x].result = None
    ELSE /\ rows[x].manifest \in SignedManifest /\ rows[x].manifest.key \in keyTable
         /\ rows[x].manifest.inputs = rows[x].inputs
         /\ rows[x].manifest.result = rows[x].result
         /\ rows[x].signature = [of |-> rows[x].manifest, by |-> rows[x].manifest.key]

(* What was validated came out again when it was last executed. *)
EvidenceInv(x) ==
    /\ rows[x].status \in {"VALIDATED", "APPROVED"} =>
          evidence[x] = [executed |-> TRUE, inputs |-> rows[x].inputs, result |-> rows[x].result]
    /\ rows[x].status = "APPROVED" => rows[x].approvedBy \in Operators \ {rows[x].owner}

(* A job is about a row that exists. A run executes, and is ready to sign  *)
(* only once the key it will sign with is registered.                      *)
JobInv(j) ==
    /\ jobs[j].at # "idle" => rows[jobs[j].exp] \in Row
    /\ jobs[j].at \in {"checked", "queued"} /\ jobs[j].kind = "run" => jobs[j].execute
    /\ jobs[j].at \in {"executed", "registered"} /\ jobs[j].kind = "run" =>
          jobs[j].execute /\ jobs[j].out.executed
    /\ jobs[j].at = "registered" => jobs[j].kind = "run" /\ identity \in keyTable

ExperimentsInv ==
    /\ ExperimentsType
    /\ \A x \in Exps : rows[x] \in Row => RecordInv(x) /\ EvidenceInv(x)
    /\ \A j \in Jobs : JobInv(j)

-----------------------------------------------------------------------------
(* Properties *)

(* "Inputs are immutable once created; results can be recorded once"       *)
(* (PersistentExperimentRegistry), and a validation that waited while an   *)
(* operator approved must "never overwrite that" (finalize_validate_job):  *)
(* whatever jobs were queued on an earlier state of the row, no step       *)
(* replaces a recorded result or its manifest, and none touches an         *)
(* approved experiment.                                                    *)
RecordsAreFinal ==
    [][\A x \in Exps : rows[x] # None =>
          /\ rows'[x].inputs = rows[x].inputs
          /\ rows[x].result # None =>
                /\ rows'[x].result = rows[x].result
                /\ rows'[x].manifest = rows[x].manifest
          /\ rows[x].status = "APPROVED" => rows'[x] = rows[x]]_experimentVars

(* An experiment is VALIDATED or APPROVED only while the evidence holds:   *)
(* its manifest verifies with the key that signed it, also after the       *)
(* signer restarted with another key, describes the row, and the last      *)
(* validation executed the recorded inputs and got the recorded result,    *)
(* also across upgrades; the approver is an operator other than the owner. *)
ValidatedIsReproduced ==
    \A x \in Exps :
        rows[x] # None /\ rows[x].status \in {"VALIDATED", "APPROVED"} =>
            /\ ManifestView(rows[x]) = [valid |-> TRUE, consistent |-> TRUE]
            /\ evidence[x].executed
            /\ evidence[x].inputs = rows[x].inputs /\ evidence[x].result = rows[x].result
            /\ rows[x].status = "APPROVED" =>
                  rows[x].approvedBy \in Operators \ {rows[x].owner}

=============================================================================

------------------------------ MODULE Research ------------------------------
(***************************************************************************)
(* What surrounds a research job: its admission (JobAdmission), the data   *)
(* it computes from and the encoding that names the data (Datasets), and   *)
(* the experiments whose runs, validations and replays are jobs            *)
(* (Experiments). The four parts share no state that changes: a            *)
(* behaviour is one of them, chosen at the start, and the others stay as   *)
(* they are. The job itself is ResearchWorker's.                           *)
(***************************************************************************)
EXTENDS JobAdmission, Experiments, Datasets

VARIABLE part

researchVars == <<part, vars, experimentVars, datasetVars, tables>>

ResearchInit ==
    /\ Init /\ ExperimentInit /\ DatasetInit
    /\ \/ part = "format" /\ FormatInit
       \/ /\ part \in {"admission", "experiments", "datasets"}
          /\ tables = <<<< >>, << >>>>

ResearchNext ==
    /\ \/ part = "admission"   /\ Next           /\ UNCHANGED <<experimentVars, datasetVars>>
       \/ part = "experiments" /\ ExperimentNext /\ UNCHANGED <<vars, datasetVars>>
       \/ part = "datasets"    /\ DatasetNext    /\ UNCHANGED <<vars, experimentVars>>
    /\ UNCHANGED <<part, tables>>

(* The fairness of JobAdmission: a thread that can go on for good does. *)
ResearchSpec ==
    /\ ResearchInit /\ [][ResearchNext]_researchVars
    /\ \A r \in Requests :
          WF_researchVars(part = "admission" /\ Step(r)
                          /\ UNCHANGED <<part, tables, experimentVars, datasetVars>>)

(* Every request to queue a job gets its answer: the two locks of enqueue  *)
(* never deadlock, and none is left behind by a request that was refused   *)
(* or that failed.                                                         *)
AdmissionEnds == part = "admission" => EveryRequestServed
=============================================================================

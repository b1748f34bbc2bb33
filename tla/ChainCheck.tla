----------------------------- MODULE ChainCheck -----------------------------
(***************************************************************************)
(* audit_chain_status of backend/services/security_service.py: the check   *)
(* of the stored audit chain. A process remembers the newest link it has   *)
(* verified (head) and, while that link still has its hash, an incremental *)
(* check starts behind it. Several checks of one process overlap; each     *)
(* query of a check sees the chain at another moment.                      *)
(*                                                                         *)
(* A link is [hash, sound]: sound is FALSE when its event or its signature *)
(* no longer fits. Rows are edited and repaired by others than this code;  *)
(* the check is there to report them.                                      *)
(***************************************************************************)
EXTENDS Naturals, Sequences, FiniteSets

CONSTANTS Checks,      \* threads of one process that check the chain
          MaxLinks,    \* bound on the chain
          MaxEdits,    \* bound on edits of stored rows
          MaxReports,  \* bound on reports of an invalid chain
          NoHead

VARIABLES links,       \* audit_chain_links joined with their events
          verified,    \* _verified_chains: head and generation
          check,       \* per thread: the check it makes
          edits,
          alarm,       \* history: links reported and not repaired since
          due          \* history: per check, the links it must report

checkVars == <<links, verified, check, edits, alarm, due>>

Sound == [hash |-> 0, sound |-> TRUE]
Idle  == [at |-> "idle"]

CheckInit ==
    /\ links = <<Sound>>
    /\ verified = [head |-> NoHead, generation |-> 0]
    /\ check = [c \in Checks |-> Idle]
    /\ edits = 0
    /\ alarm = {} /\ due = [c \in Checks |-> {}]

-----------------------------------------------------------------------------
(* The table *)

AppendLink ==
    /\ Len(links) < MaxLinks
    /\ links' = Append(links, Sound)
    /\ UNCHANGED <<verified, check, edits, alarm, due>>

(* An event or a signature is edited; with it the link's hash or not. *)
EditRow(i, rehashed) ==
    /\ edits < MaxEdits /\ links[i].sound
    /\ links' = [links EXCEPT ![i] = [hash |-> IF rehashed THEN 1 ELSE @.hash, sound |-> FALSE]]
    /\ edits' = edits + 1
    /\ UNCHANGED <<verified, check, alarm, due>>

RepairRow(i) ==
    /\ ~links[i].sound
    /\ links' = [links EXCEPT ![i] = Sound]
    /\ alarm' = alarm \ {i}
    /\ due' = [c \in Checks |-> due[c] \ {i}]
    /\ UNCHANGED <<verified, check, edits>>

-----------------------------------------------------------------------------
(* audit_chain_status *)

(* Reads the head and the generation under _verified_chains_lock. *)
BeginCheck(c, full) ==
    /\ check[c].at \in {"idle", "done"} /\ verified.generation < MaxReports
    /\ check' = [check EXCEPT ![c] = [at |-> "begun", full |-> full, head |-> verified.head,
                                      generation |-> verified.generation]]
    /\ due' = [due EXCEPT ![c] = alarm]
    /\ UNCHANGED <<links, verified, edits, alarm>>

(* The link the stream starts after: the head, if it has its hash still *)
StartsAfter(k) ==
    IF ~k.full /\ k.head # NoHead /\ k.head.sequence <= Len(links)
               /\ links[k.head.sequence].hash = k.head.hash
    THEN k.head.sequence ELSE 0

ProbeHead(c) ==
    /\ check[c].at = "begun"
    /\ check' = [check EXCEPT ![c] =
          [at |-> "probed", after |-> StartsAfter(@), full |-> @.full, generation |-> @.generation,
           previous |-> IF StartsAfter(@) = 0 THEN 0 ELSE @.head.hash]]
    /\ UNCHANGED <<links, verified, edits, alarm, due>>

(* _link_failure: the event, the pointer at the link before, the hash and  *)
(* the signature. previous is the hash of the link before.                 *)
LinkFails(i, after, previous) ==
    \/ ~links[i].sound
    \/ (IF i = after + 1 THEN previous ELSE links[i - 1].hash) # 0

(* One streamed query: a snapshot of the links behind the start *)
StreamLinks(c) ==
    LET k == check[c]
        failing == {i \in (k.after + 1)..Len(links) : LinkFails(i, k.after, k.previous)}
    IN /\ k.at = "probed"
       /\ check' = [check EXCEPT ![c] =
             [at |-> "streamed", valid |-> failing = {}, generation |-> k.generation,
              failed |-> IF failing = {} THEN {}
                         ELSE {CHOOSE i \in failing : \A j \in failing : i <= j},
              last |-> IF Len(links) > k.after
                       THEN [sequence |-> Len(links), hash |-> links[Len(links)].hash]
                       ELSE NoHead]]
       /\ UNCHANGED <<links, verified, edits, alarm, due>>

(* Stores the head of a check that was running when another one failed     *)
(* (mutant of Remember).                                                   *)
RememberAlways(k) ==
    IF ~k.valid THEN [head |-> NoHead, generation |-> verified.generation + 1]
    ELSE IF k.last # NoHead /\ (verified.head = NoHead \/ k.last.sequence >= verified.head.sequence)
    THEN [verified EXCEPT !.head = k.last]
    ELSE verified

(* What the check leaves behind, under _verified_chains_lock *)
Remember(k) ==
    IF ~k.valid THEN [head |-> NoHead, generation |-> verified.generation + 1]
    ELSE IF /\ verified.generation = k.generation /\ k.last # NoHead
            /\ verified.head = NoHead \/ k.last.sequence >= verified.head.sequence
    THEN [verified EXCEPT !.head = k.last]
    ELSE verified

FinishCheck(c) ==
    /\ check[c].at = "streamed"
    /\ verified' = Remember(check[c])
    /\ check' = [check EXCEPT ![c] = [at |-> "done", valid |-> @.valid]]
    /\ alarm' = alarm \cup {i \in check[c].failed : ~links[i].sound}
    /\ UNCHANGED <<links, edits, due>>

CheckNext ==
    \/ AppendLink
    \/ \E i \in DOMAIN links : RepairRow(i) \/ \E rehashed \in BOOLEAN : EditRow(i, rehashed)
    \/ \E c \in Checks :
          \/ \E full \in BOOLEAN : BeginCheck(c, full)
          \/ ProbeHead(c) \/ StreamLinks(c) \/ FinishCheck(c)

-----------------------------------------------------------------------------
(* Properties *)

(* "a check that was already running cannot then store a head behind the   *)
(* failure": once a check of this process has reported a link, every check *)
(* that starts while the link is still wrong reports the chain invalid     *)
(* too, incremental or not, whatever checks were running meanwhile.        *)
AlarmIsHeard ==
    \A c \in Checks : check[c].at = "done" /\ due[c] # {} => ~check[c].valid

(* Why: while a link that was reported is still wrong no head is           *)
(* remembered, since a check that began before the report has another      *)
(* generation and one that began after it sees the link. A check that must *)
(* report a link therefore began without a head.                           *)
CheckInv ==
    /\ links \in Seq([hash : {0, 1}, sound : BOOLEAN])
    /\ verified \in [head : [sequence : Nat, hash : {0, 1}] \cup {NoHead}, generation : Nat]
    /\ DOMAIN check = Checks /\ DOMAIN due = Checks
    /\ \A i \in alarm : i \in DOMAIN links /\ ~links[i].sound
    /\ verified.head # NoHead => alarm = {}
    /\ \A c \in Checks :
          /\ due[c] \subseteq alarm
          /\ check[c].at \in {"idle", "begun", "probed", "streamed", "done"}
          /\ check[c].at \in {"begun", "probed", "streamed"} =>
                /\ check[c].generation \in Nat /\ check[c].generation <= verified.generation
                /\ check[c].generation = verified.generation => alarm \subseteq due[c]
          /\ check[c].at = "begun" => check[c].full \in BOOLEAN
                /\ check[c].head \in [sequence : Nat, hash : {0, 1}] \cup {NoHead}
                /\ (due[c] # {} => check[c].head = NoHead)
          /\ check[c].at = "probed" => check[c].after \in Nat /\ (due[c] # {} => check[c].after = 0)
          /\ check[c].at = "streamed" =>
                /\ check[c].failed \subseteq DOMAIN links
                /\ check[c].valid => check[c].failed = {}
                /\ check[c].last \in [sequence : Nat, hash : {0, 1}] \cup {NoHead}
          /\ check[c].at \in {"streamed", "done"} /\ due[c] # {} => ~check[c].valid
=============================================================================

----------------------------- MODULE AuditTrail -----------------------------
(***************************************************************************)
(* The audit trail of a deployment and the start it depends on: the        *)
(* database its processes find (Startup), the keys that sign its events    *)
(* (ServerKeys), the appends of the events to the chain (AuditChain) and   *)
(* the check of the chain (ChainCheck). The four share no state that       *)
(* changes: a key needs a schema that was migrated before, an append a key *)
(* that was registered before, and a check reads what was committed. A     *)
(* behaviour is therefore one of the four, chosen at the start, and the    *)
(* others stay as they are.                                                *)
(***************************************************************************)
EXTENDS AuditChain, ServerKeys, ChainCheck, Startup

VARIABLE part

trailVars == <<part, vars, keyVars, checkVars, startVars>>

TrailInit ==
    /\ part \in {"start", "keys", "append", "check"}
    /\ Init /\ KeysInit /\ CheckInit /\ StartInit
    /\ configured => part = "keys"

TrailNext ==
    /\ \/ part = "append" /\ Next      /\ UNCHANGED <<keyVars, checkVars, startVars>>
       \/ part = "keys"   /\ KeysNext  /\ UNCHANGED <<vars, checkVars, startVars>>
       \/ part = "check"  /\ CheckNext /\ UNCHANGED <<vars, keyVars, startVars>>
       \/ part = "start"  /\ StartNext /\ UNCHANGED <<vars, keyVars, checkVars>>
    /\ UNCHANGED part

(* The fairness of AuditChain: a thread that can go on does. *)
TrailSpec ==
    /\ TrailInit /\ [][TrailNext]_trailVars
    /\ \A t \in Threads : WF_trailVars(part = "append" /\ Step(t) /\ UNCHANGED <<part, keyVars, checkVars, startVars>>)
=============================================================================

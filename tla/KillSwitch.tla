----------------------------- MODULE KillSwitch -----------------------------
(***************************************************************************)
(* Trading kill switches in a production deployment of several API         *)
(* processes with Redis: manage_kill_switch of backend/main.py,            *)
(* set_kill_switch_async and the kill-switch part of assert_risk_gate of   *)
(* backend/services/order_security.py, and the Redis operations of         *)
(* backend/services/redis_store.py they use. Every process also keeps a    *)
(* set of its own, _KILL_SWITCHES. A switch (global, a user's, an asset's) *)
(* is a model value; an order is subject to a set of them.                 *)
(***************************************************************************)
EXTENDS Deployment

CONSTANTS Switches,
          Orders,
          Subject,     \* order |-> the switches that stop it
          MaxCalls     \* bound on the calls of the endpoints

ASSUME SwitchAssumption ==
    /\ Subject \in [Orders -> SUBSET Switches]
    /\ MaxCalls \in Nat

VARIABLES redis,     \* the switches stored in Redis
          local,     \* per process: _KILL_SWITCHES
          calls,     \* calls that have written to Redis and not returned
          check,     \* the risk check of an order
          engaged,   \* history: switches set by a call that returned, not
                     \* cleared by a call since
          owed,      \* history, per order: the switches engaged since its
                     \* check began
          made

switchVars == <<redis, local, calls, check, engaged, owed, made>>

Call == [at : Processes, sets : BOOLEAN, switch : Switches, certain : BOOLEAN]

Unchecked == [loc |-> "new", left |-> {}, hit |-> FALSE, unknown |-> FALSE]

SwitchInit ==
    /\ redis = {}
    /\ local = [p \in Processes |-> {}]
    /\ calls = {}
    /\ check = [o \in Orders |-> Unchecked]
    /\ engaged = {}
    /\ owed  = [o \in Orders |-> {}]
    /\ made = 0

-----------------------------------------------------------------------------
(* manage_kill_switch *)

(* Sets the key in Redis; should Redis not answer, the call fails and      *)
(* changes nothing.                                                        *)
SetRemote(p, s) ==
    /\ made < MaxCalls /\ up
    /\ redis' = redis \cup {s}
    /\ calls' = calls \cup {[at |-> p, sets |-> TRUE, switch |-> s, certain |-> TRUE]}
    /\ made'  = made + 1
    /\ UNCHANGED <<local, check, engaged, owed>>

(* delete_key swallows an error of Redis. A set that is under way is       *)
(* superseded, or not: nobody can rely on it.                              *)
ClearRemote(p, s) ==
    /\ made < MaxCalls
    /\ redis' = IF up THEN redis \ {s} ELSE redis
    /\ calls' = {[c EXCEPT !.certain = @ /\ c.switch # s] : c \in calls}
                  \cup {[at |-> p, sets |-> FALSE, switch |-> s, certain |-> TRUE]}
    /\ engaged' = engaged \ {s}
    /\ owed'  = [o \in Orders |-> owed[o] \ {s}]
    /\ made'  = made + 1
    /\ UNCHANGED <<local, check>>

(* The process's own set, updated after the await; then the call returns. *)
Return(c) ==
    /\ c \in calls
    /\ local'   = [local EXCEPT ![c.at] = IF c.sets THEN @ \cup {c.switch} ELSE @ \ {c.switch}]
    /\ engaged' = IF c.sets /\ c.certain THEN engaged \cup {c.switch} ELSE engaged
    /\ calls'   = calls \ {c}
    /\ UNCHANGED <<redis, check, owed, made>>

-----------------------------------------------------------------------------
(* assert_risk_gate *)

Blocks(p, o) == Subject[o] \cap local[p] # {}

(* The process's own set comes first; Redis is asked only if it lets the   *)
(* order pass.                                                             *)
CheckLocal(p, o) ==
    /\ check[o].loc = "new" /\ made < MaxCalls /\ made' = made + 1
    /\ owed'  = [owed EXCEPT ![o] = Subject[o] \cap engaged]
    /\ check' = [check EXCEPT ![o] = [Unchecked EXCEPT
                    !.loc  = IF Blocks(p, o) THEN "refused" ELSE "asking",
                    !.left = IF Blocks(p, o) THEN {} ELSE Subject[o]]]
    /\ UNCHANGED <<redis, local, calls, engaged>>

(* run_sync: one key after another; None if Redis does not answer. *)
AskRedis(o, s) ==
    /\ check[o].loc = "asking" /\ s \in check[o].left
    /\ check' = [check EXCEPT ![o].left = @ \ {s},
                              ![o].hit = @ \/ (up /\ s \in redis),
                              ![o].unknown = @ \/ ~up]
    /\ UNCHANGED <<redis, local, calls, engaged, owed, made>>

(* Unknown is taken for unset (mutant of Decide). *)
DecideFailingOpen(o) ==
    /\ check[o].loc = "asking" /\ check[o].left = {}
    /\ check' = [check EXCEPT ![o].loc = IF check[o].hit THEN "refused" ELSE "passed"]
    /\ UNCHANGED <<redis, local, calls, engaged, owed, made>>

(* Unknown risk state is not "no kill switch". *)
Decide(o) ==
    /\ check[o].loc = "asking" /\ check[o].left = {}
    /\ check' = [check EXCEPT ![o].loc =
                    IF check[o].hit \/ check[o].unknown THEN "refused" ELSE "passed"]
    /\ UNCHANGED <<redis, local, calls, engaged, owed, made>>

(* A process restarts with an empty set; its calls never return. Requests  *)
(* it was serving die with it, which here they may do at any time.         *)
CallsDie(p) ==
    /\ local' = [local EXCEPT ![p] = {}]
    /\ calls' = {c \in calls : c.at # p}
    /\ UNCHANGED <<redis, check, engaged, owed, made>>

SwitchNext ==
    \/ \E p \in Processes, s \in Switches : SetRemote(p, s) \/ ClearRemote(p, s)
    \/ \E c \in calls : Return(c)
    \/ \E p \in Processes, o \in Orders : CheckLocal(p, o)
    \/ \E o \in Orders : Decide(o) \/ \E s \in Subject[o] : AskRedis(o, s)

(* A kill switch that was set stops every order checked from then on, in   *)
(* every process, across restarts and Redis outages, until someone clears  *)
(* it.                                                                     *)
EngagedStopsOrders == \A o \in Orders : check[o].loc = "passed" => owed[o] = {}

(* Why: Redis holds every switch that is engaged, or that a call is about  *)
(* to report as set; and a check has yet to ask for the switches it is     *)
(* owed, or has already found a reason to refuse.                          *)
SwitchInv ==
    /\ calls \subseteq Call /\ owed \in [Orders -> SUBSET Switches]
    /\ check \in [Orders -> [loc : {"new", "asking", "refused", "passed"}, left : SUBSET Switches,
                             hit : BOOLEAN, unknown : BOOLEAN]]
    /\ engaged \subseteq redis
    /\ \A c \in calls : c.sets /\ c.certain => c.switch \in redis
    /\ \A o \in Orders :
          /\ owed[o] \subseteq redis
          /\ check[o].loc = "new" => owed[o] = {}
          /\ check[o].loc = "asking" =>
                owed[o] \subseteq check[o].left \/ check[o].hit \/ check[o].unknown
          /\ check[o].loc = "passed" => owed[o] = {}
=============================================================================

----------------------------- MODULE Deployment -----------------------------
(***************************************************************************)
(* The deployment that backend/services/redis_store.py and the Redis       *)
(* calls of backend/main.py run in: several API processes and one Redis    *)
(* server, which may stop answering and come back with its data            *)
(* (docker-compose.production.yml keeps an append-only file). A key that   *)
(* expires is a value with the units of time it has left; a unit is the    *)
(* push interval of the signal stream, 30 seconds.                         *)
(***************************************************************************)
EXTENDS Integers, FiniteSets, SequencesExt

CONSTANTS Processes,
          MaxFaults    \* bound on Redis outages and process restarts

VARIABLES up,          \* Redis answers
          production,  \* ENVIRONMENT = "production"
          outages, restarts

deployed == <<up, production, outages, restarts>>

Forever == -1          \* the time left of a key that has no expiry

Absent == [n |-> 0, ttl |-> 0]

DeploymentInit == up = TRUE /\ production \in BOOLEAN /\ outages = 0 /\ restarts = 0

RedisFails ==
    /\ up /\ outages + restarts < MaxFaults
    /\ up' = FALSE /\ outages' = outages + 1
    /\ UNCHANGED <<production, restarts>>

RedisReturns == ~up /\ up' = TRUE /\ UNCHANGED <<production, outages, restarts>>

SomeRestart ==
    /\ outages + restarts < MaxFaults
    /\ restarts' = restarts + 1
    /\ UNCHANGED <<up, production, outages>>

(* Redis commands on a counter: INCR and DECR create it without an expiry, *)
(* EXPIRE does nothing to a key that is not there.                         *)
Incr(k, by) == [n |-> k.n + by, ttl |-> IF k = Absent THEN Forever ELSE k.ttl]

Expire(k, ttl) == IF k = Absent THEN Absent ELSE [k EXCEPT !.ttl = ttl]

Aged(k) ==
    IF k.ttl = Forever THEN k
    ELSE IF k.ttl <= 1 THEN Absent ELSE [k EXCEPT !.ttl = @ - 1]
=============================================================================

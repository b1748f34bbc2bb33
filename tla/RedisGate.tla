----------------------------- MODULE RedisGate ------------------------------
(***************************************************************************)
(* The users of Redis in the processes of one deployment, with its outages *)
(* and restarts: kill switches, signed API requests with their rate limit, *)
(* the slots of the signal stream, and handshakes. They share the server   *)
(* and the processes and have keys of their own, and no step of one reads  *)
(* or writes what another keeps: so a behaviour is that of one of them,    *)
(* part, which is chosen at the start and which every fault meets. In the  *)
(* part "limiter" no request gets further than the rate limiter, in the    *)
(* part "requests" fewer requests get all the way.                         *)
(***************************************************************************)
EXTENDS KillSwitch, ApiGate, StreamSlots, Handshake

CONSTANT MaxRequests   \* bound on the requests of the part "requests"

VARIABLE part

vars == <<part, deployed, switchVars, apiVars, streamVars, helloVars>>

Init ==
    /\ part \in {"switches", "limiter", "requests", "streams", "handshake"}
    /\ DeploymentInit /\ SwitchInit /\ ApiInit /\ StreamInit /\ HelloInit

Redis == (RedisFails \/ RedisReturns) /\ UNCHANGED <<switchVars, apiVars, streamVars>>

Restart(p) == SomeRestart /\ CallsDie(p) /\ RequestsDie(p) /\ StreamsDie(p)

Fault == Redis \/ \E p \in Processes : Restart(p)

Switching == production /\ SwitchNext /\ UNCHANGED <<deployed, apiVars, streamVars>>

Sent == {c \in Copies : copy[c].loc # "unsent"}

(* What passes the rate limiter, and what is done with it then. *)
Limiting ==
    /\ ApiTick \/ \E c \in Copies : RateExpire(c) \/ \E p \in Processes : RateIncr(c, p)
    /\ UNCHANGED <<deployed, switchVars, streamVars>>

Serving ==
    /\ RevokeKey \/ \E c \in Copies : VerifyHmac(c) \/ ConsumeNonce(c)
    /\ UNCHANGED <<deployed, switchVars, streamVars>>

Connecting ==
    /\ made < MaxCalls /\ made' = made + 1
    /\ \E t \in Tabs, p \in Processes : AcquireIncr(t, p)
    /\ UNCHANGED <<deployed, redis, local, calls, check, engaged, owed, apiVars>>

Streaming ==
    /\ StreamTick \/ \E t \in Tabs : StreamStep(t) \/ ReleaseSlot(t)
    /\ UNCHANGED <<deployed, switchVars, apiVars>>

GateNext ==
    \/ part = "switches" /\ (Switching \/ Fault)
    \/ part = "limiter"  /\ (Limiting \/ Fault)
    \/ part = "requests" /\ (Limiting \/ Serving \/ Fault) /\ Cardinality(Sent') <= MaxRequests
    \/ part = "streams"  /\ (Connecting \/ Streaming \/ Fault)

Next ==
    /\ \/ GateNext /\ UNCHANGED helloVars
       \/ part = "handshake" /\ HelloNext /\ UNCHANGED <<switchVars, apiVars, streamVars>>
    /\ UNCHANGED part

Spec == Init /\ [][Next]_vars

(* A signed request and a handshake are each served once: their nonces are *)
(* used up by the first that arrives, whatever process it arrives at.      *)
NoncesAreUsedOnce == ServedOnce /\ HandshakesAreFresh

(* The inductive invariant of the deployment: outages are counted, and     *)
(* every user of Redis keeps its own.                                      *)
DeploymentInv ==
    /\ up \in BOOLEAN /\ production \in BOOLEAN
    /\ outages \in Nat /\ restarts \in Nat
    /\ ~up => outages > 0

GateInv == DeploymentInv /\ SwitchInv /\ ApiInv /\ StreamInv /\ HelloInv
=============================================================================

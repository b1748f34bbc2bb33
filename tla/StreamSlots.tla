---------------------------- MODULE StreamSlots -----------------------------
(***************************************************************************)
(* The connection limit of the signal stream: _ws_acquire, _ws_release and *)
(* signal_stream of backend/main.py, for one user whose tabs connect to    *)
(* any process and reconnect when refused or closed (connectSignalStream   *)
(* of frontend/app.js, at least every 30 seconds). The counter is in       *)
(* Redis; each process has one of its own for development.                 *)
(***************************************************************************)
EXTENDS Deployment

CONSTANTS Tabs,
          MaxPerUser,   \* _WS_MAX_PER_USER
          CounterTTL    \* _WS_COUNTER_TTL, in push intervals

ASSUME SlotsAssumption ==
    IsFiniteSet(Tabs) /\ MaxPerUser \in Nat /\ CounterTTL \in Nat \ {0}

VARIABLES slots,     \* the counter in Redis
          wsLocal,   \* per process: _ws_connections
          tab,       \* per tab: its connection
          lost       \* history: slots that were forgotten while held: the
                     \* counter expired between two commands of their
                     \* connections or during a long cycle of their
                     \* streams, or another connection's release reset it

streamVars == <<slots, wsLocal, tab, lost>>

(* since: of an open stream, the units since its last EXPIRE.              *)
NoStream == [loc |-> "off", at |-> "none", count |-> 0, inRedis |-> FALSE, since |-> 0]

StreamInit ==
    /\ slots = Absent
    /\ wsLocal = [p \in Processes |-> 0]
    /\ tab = [t \in Tabs |-> NoStream]
    /\ lost = 0

At(t, loc) == tab' = [tab EXCEPT ![t].loc = loc]

Off(t) == tab' = [tab EXCEPT ![t] = NoStream]

(* The part of _ws_acquire behind an error of Redis: production refuses,   *)
(* development counts in the process.                                      *)
AcquireWithoutRedis(t, p) ==
    IF ~production /\ wsLocal[p] < MaxPerUser
    THEN /\ wsLocal' = [wsLocal EXCEPT ![p] = @ + 1]
         /\ tab' = [tab EXCEPT ![t] = [NoStream EXCEPT !.loc = "open", !.at = p]]
    ELSE Off(t) /\ UNCHANGED wsLocal

(* The counter is read instead of incremented (mutant).                    *)
AcquireByReading(t, p) ==
    /\ tab[t].loc = "off" /\ up
    /\ tab' = [tab EXCEPT ![t] = [NoStream EXCEPT !.loc = "expire", !.at = p,
                                            !.count = slots.n + 1, !.inRedis = TRUE]]
    /\ UNCHANGED <<slots, wsLocal, lost>>

AcquireIncr(t, p) ==
    /\ tab[t].loc = "off"
    /\ IF up
       THEN /\ slots' = Incr(slots, 1)
            /\ tab' = [tab EXCEPT ![t] = [NoStream EXCEPT !.loc = "expire", !.at = p,
                                            !.count = slots.n + 1, !.inRedis = TRUE]]
            /\ UNCHANGED wsLocal
       ELSE AcquireWithoutRedis(t, p) /\ UNCHANGED slots
    /\ UNCHANGED lost

AcquireExpire(t) ==
    /\ tab[t].loc = "expire"
    /\ IF up
       THEN /\ slots' = Expire(slots, CounterTTL)
            /\ At(t, IF tab[t].count > MaxPerUser THEN "refuse" ELSE "open")
            /\ UNCHANGED wsLocal
       ELSE AcquireWithoutRedis(t, tab[t].at) /\ UNCHANGED slots
    /\ UNCHANGED lost

AcquireRefuse(t) ==
    /\ tab[t].loc = "refuse"
    /\ IF up
       THEN slots' = Incr(slots, -1) /\ Off(t) /\ UNCHANGED wsLocal
       ELSE AcquireWithoutRedis(t, tab[t].at) /\ UNCHANGED slots
    /\ UNCHANGED lost

(* The connection ends, for whatever reason: _ws_release. *)
ReleaseSlot(t) ==
    /\ tab[t].loc = "open"
    /\ IF ~tab[t].inRedis
       THEN /\ wsLocal' = [wsLocal EXCEPT ![tab[t].at] = IF @ > 0 THEN @ - 1 ELSE 0]
            /\ Off(t) /\ UNCHANGED slots
       ELSE /\ IF up
               THEN /\ slots' = Incr(slots, -1)
                    /\ IF slots.n - 1 < 0 THEN At(t, "reset") ELSE Off(t)
               ELSE Off(t) /\ UNCHANGED slots
            /\ UNCHANGED wsLocal
    /\ UNCHANGED lost

ReleaseReset(t) ==
    /\ tab[t].loc = "reset"
    /\ slots' = IF up THEN [n |-> 0, ttl |-> CounterTTL] ELSE slots
    /\ lost' = IF up /\ slots.n > 0 THEN lost + slots.n ELSE lost
    /\ Off(t)
    /\ UNCHANGED wsLocal

Open == {t \in Tabs : tab[t].loc = "open"}

(* A cycle of signal_stream begins with an EXPIRE, whose failure is        *)
(* ignored and which finds no key when the counter has expired. A cycle    *)
(* computes what is missing, one download after another, sends it and      *)
(* waits up to a push interval: the next EXPIRE may be long in coming.     *)
Refresh(t) ==
    /\ t \in Open /\ tab[t].inRedis /\ up
    /\ slots' = Expire(slots, CounterTTL)
    /\ tab' = [tab EXCEPT ![t].since = 0]
    /\ UNCHANGED <<wsLocal, lost>>

(* The streams that have not refreshed the counter for its whole life.     *)
Slow == {t \in Open : tab[t].since + 1 >= CounterTTL}

(* A push interval passes. *)
StreamTick ==
    /\ slots' = Aged(slots)
    /\ tab' = [t \in Tabs |-> IF t \in Open /\ tab[t].inRedis /\ tab[t].since < CounterTTL
                              THEN [tab[t] EXCEPT !.since = @ + 1] ELSE tab[t]]
    /\ lost' = IF slots' = Absent /\ slots # Absent
               THEN lost + Cardinality({t \in Tabs : tab[t].inRedis /\
                               (tab[t].loc \in {"expire", "refuse"} \/ t \in Slow)})
               ELSE lost
    /\ UNCHANGED wsLocal

(* A process stops without releasing the slots of its streams. *)
StreamsDie(p) ==
    /\ tab' = [t \in Tabs |-> IF tab[t].at = p THEN NoStream ELSE tab[t]]
    /\ wsLocal' = [wsLocal EXCEPT ![p] = 0]
    /\ UNCHANGED <<slots, lost>>

StreamStep(t) == AcquireExpire(t) \/ AcquireRefuse(t) \/ Refresh(t) \/ ReleaseReset(t)

StreamNext ==
    \E t \in Tabs : StreamStep(t) \/ ReleaseSlot(t) \/ \E p \in Processes : AcquireIncr(t, p)

(* No more than the limit are connected across all processes, unless Redis *)
(* was down, or slots were forgotten: the counter expired in the moment    *)
(* between the INCR and the EXPIRE of a connection, or because no open     *)
(* stream began a cycle for the counter's whole life, or the SET of a      *)
(* release that had found it negative came after the INCR of another. Each *)
(* lets in as many as it forgot, no more. A crash leaks slots but frees    *)
(* none that is in use, and a stream that keeps the interval keeps the     *)
(* slots of all.                                                           *)
SlotsWithinLimit ==
    outages = 0 => Cardinality({t \in Open : tab[t].inRedis}) <= MaxPerUser + lost

Connection == [loc : {"off", "expire", "refuse", "open", "reset"}, at : Processes \cup {"none"},
               count : Int, inRedis : BOOLEAN, since : Nat]

(* The connections that hold a slot of the counter, and those of them that *)
(* are or will be open.                                                    *)
Holders  == {t \in Tabs : tab[t].inRedis /\ tab[t].loc \in {"expire", "refuse", "open"}}
Admitted == {t \in Tabs : tab[t].inRedis /\ tab[t].loc \in {"expire", "open"}
                                        /\ tab[t].count <= MaxPerUser}

(* Why: the counter is never below the slots that are held, but for those  *)
(* that were lost; so a connection that finds it within the limit finds    *)
(* the holders, itself included, within the limit. It has not less to live *)
(* than since the last EXPIRE of any open stream.                          *)
StreamInv ==
    /\ tab \in [Tabs -> Connection]
    /\ slots \in [n : Int, ttl : Nat \cup {Forever}] /\ (slots.ttl = 0 => slots = Absent)
    /\ lost \in Nat
    /\ \A t \in Tabs : tab[t].inRedis /\ tab[t].loc = "open" => tab[t].count <= MaxPerUser
    /\ \A t \in Tabs : tab[t].loc \in {"expire", "refuse"} => tab[t].inRedis
    /\ \A t \in Open : tab[t].inRedis /\ slots.ttl > 0 => slots.ttl + tab[t].since >= CounterTTL
    /\ outages = 0 => /\ slots.n + lost >= Cardinality(Holders)
                      /\ Cardinality(Admitted) <= MaxPerUser + lost
=============================================================================

----------------------------- MODULE Handshake ------------------------------
(***************************************************************************)
(* The key-exchange handshakes of a deployment: perform_handshake with     *)
(* _expire_sessions and _consume_nonce_local of                            *)
(* backend/services/auth_service.py, and run_sync and consume_pqc_nonce of *)
(* backend/services/redis_store.py. Each request runs in a thread of some  *)
(* process's pool; a nonce may be sent again, by a client that retries or  *)
(* by someone else. The keys and the transcript are left out: what is kept *)
(* is which requests are accepted and which sessions are remembered. A     *)
(* unit of time is here the life of a nonce's key, NONCE_TTL_SECONDS.      *)
(***************************************************************************)
EXTENDS Deployment

CONSTANTS HelloThreads,
          Nonces,
          MaxSessions,   \* MAX_SESSIONS
          SessionLife,   \* of a session, in lives of a nonce
          MaxHellos,     \* bound on requests
          MaxLives       \* bound on time

ASSUME HelloAssumption ==
    IsFiniteSet(HelloThreads) /\ MaxSessions \in Nat /\ SessionLife \in Nat

VARIABLES hello,      \* per thread: the request it serves
          sessions,   \* per process: SESSIONS, oldest first, as time left
          usedRedis,  \* nonces whose key is in Redis
          usedKv,     \* per process: the same in _mem_kv
          usedLocal,  \* per process: NONCES
          accepted,   \* history: nonces accepted within the last life
          replayed,   \* history: nonces accepted again within a life
          hellos, lives

helloVars == <<hello, sessions, usedRedis, usedKv, usedLocal, accepted, replayed, hellos, lives>>

NoHello == [loc |-> "free", at |-> "none", nonce |-> "none"]

HelloInit ==
    /\ hello = [t \in HelloThreads |-> NoHello]
    /\ sessions = [p \in Processes |-> <<>>]
    /\ usedRedis = {} /\ usedKv = [p \in Processes |-> {}] /\ usedLocal = [p \in Processes |-> {}]
    /\ accepted = {} /\ replayed = {}
    /\ hellos = 0 /\ lives = 0

-----------------------------------------------------------------------------
(* _expire_sessions: those whose time is over, then the oldest beyond      *)
(* MAX_SESSIONS. All live equally long, so the former are the oldest too.  *)
Expired(s) ==
    LET over   == Cardinality({i \in DOMAIN s : s[i] <= 0})
        excess == Len(s) - MaxSessions
    IN SubSeq(s, 1 + (IF excess > over THEN excess ELSE over), Len(s))

(* The sessions are stored without _SESSIONS_LOCK: one that is stored      *)
(* while another thread walks them makes that thread's walk fail.          *)
StartHello(t, p, n) ==
    /\ hello[t].loc = "free" /\ hellos < MaxHellos
    /\ hellos' = hellos + 1
    /\ \/ /\ hello' = [hello EXCEPT ![t] = [loc |-> "nonce", at |-> p, nonce |-> n]]
          /\ sessions' = [sessions EXCEPT ![p] = Expired(@)]
       \/ /\ \E u \in HelloThreads \ {t} : hello[u].loc = "sign" /\ hello[u].at = p
          /\ UNCHANGED <<hello, sessions>>
    /\ UNCHANGED <<deployed, usedRedis, usedKv, usedLocal, accepted, replayed, lives>>

Accept(t) ==
    LET n == hello[t].nonce
    IN /\ hello' = [hello EXCEPT ![t].loc = "sign"]
       /\ replayed' = IF n \in accepted THEN replayed \cup {n} ELSE replayed
       /\ accepted' = accepted \cup {n}

(* 409 or 503 *)
Refuse(t) == hello' = [hello EXCEPT ![t] = NoHello] /\ UNCHANGED <<accepted, replayed>>

(* SET NX, or the same in one of the process's own stores *)
TestAndSet(t, used) == IF hello[t].nonce \in used THEN Refuse(t) ELSE Accept(t)

(* Every process asks only its own memory (mutant of AskForNonce). *)
AskLocally(t) ==
    LET p == hello[t].at
    IN /\ hello[t].loc = "nonce"
       /\ TestAndSet(t, usedLocal[p])
       /\ usedLocal' = [usedLocal EXCEPT ![p] = @ \cup {hello[t].nonce}]
       /\ UNCHANGED <<deployed, usedRedis, usedKv, sessions, hellos, lives>>

(* consume_pqc_nonce: in production an error of Redis reaches run_sync,    *)
(* which makes it None, which is a 503; in development set_nx_ex falls     *)
(* back on _mem_kv.                                                        *)
AskForNonce(t) ==
    LET p == hello[t].at
        n == hello[t].nonce
    IN /\ hello[t].loc = "nonce"
       /\ \/ /\ up /\ TestAndSet(t, usedRedis) /\ usedRedis' = usedRedis \cup {n}
             /\ UNCHANGED usedKv
          \/ /\ ~up /\ production /\ Refuse(t)
             /\ UNCHANGED <<usedRedis, usedKv>>
          \/ /\ ~up /\ ~production
             /\ TestAndSet(t, usedKv[p]) /\ usedKv' = [usedKv EXCEPT ![p] = @ \cup {n}]
             /\ UNCHANGED usedRedis
       /\ UNCHANGED <<deployed, usedLocal, sessions, hellos, lives>>

(* run_sync gives up after two seconds, whether or not Redis sets the key  *)
(* in the end: None, so production refuses and development asks the        *)
(* process's own NONCES. It counts as an outage.                           *)
AnswerTooLate(t) ==
    LET p == hello[t].at
        n == hello[t].nonce
    IN /\ hello[t].loc = "nonce" /\ outages + restarts < MaxFaults
       /\ outages' = outages + 1
       /\ usedRedis' \in {usedRedis, usedRedis \cup {n}}
       /\ IF production
          THEN Refuse(t) /\ UNCHANGED usedLocal
          ELSE TestAndSet(t, usedLocal[p]) /\ usedLocal' = [usedLocal EXCEPT ![p] = @ \cup {n}]
       /\ UNCHANGED <<up, production, restarts, usedKv, sessions, hellos, lives>>

(* The rest of perform_handshake: the session is stored, unless the        *)
(* client's key or the registration of the server's fails. The nonce stays *)
(* used either way.                                                        *)
FinishHello(t) ==
    LET p == hello[t].at
    IN /\ hello[t].loc = "sign"
       /\ hello' = [hello EXCEPT ![t] = NoHello]
       /\ \/ sessions' = [sessions EXCEPT ![p] = Append(@, SessionLife)]
          \/ UNCHANGED sessions
       /\ UNCHANGED <<deployed, usedRedis, usedKv, usedLocal, accepted, replayed, hellos, lives>>

(* A life of a nonce passes; no request takes that long. *)
HelloTick ==
    /\ lives < MaxLives /\ \A t \in HelloThreads : hello[t].loc = "free"
    /\ lives' = lives + 1
    /\ usedRedis' = {} /\ accepted' = {}
    /\ usedKv' = [p \in Processes |-> {}] /\ usedLocal' = [p \in Processes |-> {}]
    /\ sessions' = [p \in Processes |-> [i \in DOMAIN sessions[p] |-> sessions[p][i] - 1]]
    /\ UNCHANGED <<deployed, hello, replayed, hellos>>

HelloRedis == (RedisFails \/ RedisReturns) /\ UNCHANGED helloVars

HelloRestart(p) ==
    /\ SomeRestart
    /\ hello' = [t \in HelloThreads |-> IF hello[t].at = p THEN NoHello ELSE hello[t]]
    /\ sessions' = [sessions EXCEPT ![p] = <<>>]
    /\ usedKv' = [usedKv EXCEPT ![p] = {}] /\ usedLocal' = [usedLocal EXCEPT ![p] = {}]
    /\ UNCHANGED <<usedRedis, accepted, replayed, hellos, lives>>

HelloNext ==
    \/ \E t \in HelloThreads :
          \/ \E p \in Processes, n \in Nonces : StartHello(t, p, n)
          \/ AskForNonce(t) \/ AnswerTooLate(t) \/ FinishHello(t)
    \/ HelloTick \/ HelloRedis
    \/ \E p \in Processes : HelloRestart(p)

-----------------------------------------------------------------------------
(* A nonce starts at most one handshake in its life, in whichever process, *)
(* through restarts, outages of Redis and answers that come too late; in   *)
(* development, while there is no outage. And a process remembers no more  *)
(* than MAX_SESSIONS sessions besides those its own threads are adding.    *)
HandshakesAreFresh ==
    /\ production \/ outages = 0 => replayed = {}
    /\ \A p \in Processes : Len(sessions[p]) <= MaxSessions + Cardinality(HelloThreads)

(* Redis remembers every nonce that was accepted within its life, and a    *)
(* process leaves room for the session of every handshake it is serving.   *)
Hello == [loc : {"free", "nonce", "sign"}, at : Processes \cup {"none"},
          nonce : Nonces \cup {"none"}]

Serves(p) == {t \in HelloThreads : hello[t].loc # "free" /\ hello[t].at = p}

HelloInv ==
    /\ hello \in [HelloThreads -> Hello]
    /\ sessions \in [Processes -> Seq(Int)]
    /\ production \/ outages = 0 => accepted \subseteq usedRedis /\ replayed = {}
    /\ \A p \in Processes :
          Len(sessions[p]) + Cardinality(Serves(p)) <= MaxSessions + Cardinality(HelloThreads)
=============================================================================

------------------------------ MODULE ApiGate -------------------------------
(***************************************************************************)
(* What a request signed with an API key passes before it is served: the   *)
(* rate limiter of SecurityHeadersAndRateLimit and require_api_scope of    *)
(* backend/main.py, verify_hmac_request of                                 *)
(* backend/services/integration_service.py and set_nx_ex of                *)
(* backend/services/redis_store.py. The copies in Copies are one signed    *)
(* message, delivered several times, to any process: they share its        *)
(* timestamp, its nonce and the bucket of the rate limiter. The message's  *)
(* age runs from -ClockWindow, the earliest a clock may accept it.         *)
(***************************************************************************)
EXTENDS Deployment

CONSTANTS Copies,
          RateLimit,     \* requests of a bucket in one window
          RateWindow,    \* _RATE_WINDOW_SECONDS and the counter's expiry
          ClockWindow,   \* how far the timestamp may be from the clock
          NonceTTL,      \* of consume_api_nonce
          MaxStall       \* bound: units a request may take once verified

(* consume_api_nonce keeps a nonce for 300 seconds, verify_hmac_request    *)
(* accepts a timestamp 30 seconds off either way.                          *)
ASSUME ApiAssumption ==
    /\ IsFiniteSet(Copies)
    /\ RateLimit \in Nat \ {0} /\ RateWindow \in Nat \ {0}
    /\ ClockWindow \in Nat /\ MaxStall \in Nat /\ NonceTTL \in Nat
    /\ NonceTTL > 2 * ClockWindow + MaxStall

VARIABLES rate,      \* the bucket's counter in Redis
          window,    \* per process: the bucket's deque, as ages
          copy,      \* the requests
          age,       \* of the message's timestamp
          nonce,     \* units the nonce's key has left in Redis, 0 if absent
          memNonce,  \* per process: the same in _mem_kv
          keyLive,   \* the API key is neither revoked nor expired
          passed,    \* history: the age at which Redis let a copy pass
          through,   \* history: the copies that passed the present bucket
          begun,     \* history: the age at which that bucket was created or
                     \* given its expiry, whichever was last
          stranded   \* history: a fault came between an INCR that created
                     \* the bucket and its EXPIRE

history == <<passed, through, begun, stranded>>

apiVars == <<rate, window, copy, age, nonce, memNonce, keyLive, history>>

(* No copy has passed within a window of the start. *)
LongAgo == -ClockWindow - RateWindow

NotSent == [loc |-> "unsent", at |-> "none", stall |-> 0]

ApiInit ==
    /\ rate = Absent /\ window = [p \in Processes |-> <<>>]
    /\ copy = [c \in Copies |-> NotSent]
    /\ age = -ClockWindow
    /\ nonce = 0 /\ memNonce = [p \in Processes |-> 0]
    /\ keyLive = TRUE
    /\ passed = [c \in Copies |-> LongAgo] /\ through = {}
    /\ begun = -ClockWindow /\ stranded = FALSE

(* A request r of process p goes on to l, or has been answered. *)
GoesOn(r, p, l) ==
    IF l \in {"refused", "served"} THEN [NotSent EXCEPT !.loc = l]
                                  ELSE [r EXCEPT !.at = p, !.loc = l]

Move(c, l) == copy' = [copy EXCEPT ![c] = GoesOn(@, @.at, l)]

(* In memory: a log of the last window's requests, refused ones included.  *)
CountInMemory(c, p) ==
    LET recent == SelectSeq(window[p], LAMBDA a : a <= RateWindow)
    IN  /\ window' = [window EXCEPT ![p] = Append(recent, 0)]
        /\ copy' = [copy EXCEPT ![c] =
                       GoesOn(@, p, IF Len(recent) + 1 > RateLimit THEN "refused" ELSE "verify")]

(* Where the counter's n-th request goes. *)
Verdict(n) == IF n = 1 THEN "expire" ELSE IF n > RateLimit THEN "refused" ELSE "verify"

(* The bucket in Redis lets c pass. *)
PassesRedis(c) ==
    passed' = [passed EXCEPT ![c] = age] /\ through' = through \cup {c}

(* Every request extends the bucket's life (mutant).                      *)
RateIncrSliding(c, p) ==
    /\ copy[c].loc = "unsent" /\ up
    /\ rate' = Expire(Incr(rate, 1), RateWindow)
    /\ copy' = [copy EXCEPT ![c] =
                   GoesOn(@, p, IF rate.n + 1 > RateLimit THEN "refused" ELSE "verify")]
    /\ IF rate.n + 1 > RateLimit THEN UNCHANGED <<passed, through>> ELSE PassesRedis(c)
    /\ begun' = IF rate.n = 0 THEN age ELSE begun
    /\ UNCHANGED <<window, age, nonce, memNonce, keyLive, stranded>>

(* The middleware: INCR, and EXPIRE by the request that found 1. Without   *)
(* Redis production answers 503, development counts in memory.             *)
RateIncr(c, p) ==
    /\ copy[c].loc = "unsent"
    /\ IF up
       THEN /\ rate' = Incr(rate, 1)
            /\ copy' = [copy EXCEPT ![c] = GoesOn(@, p, Verdict(rate.n + 1))]
            /\ IF Verdict(rate.n + 1) = "verify"
               THEN PassesRedis(c) ELSE UNCHANGED <<passed, through>>
            /\ begun' = IF rate.n = 0 THEN age ELSE begun
            /\ UNCHANGED window
       ELSE /\ UNCHANGED <<rate, begun, passed, through>>
            /\ IF production
               THEN Move(c, "refused") /\ UNCHANGED window
               ELSE CountInMemory(c, p)
    /\ UNCHANGED <<age, nonce, memNonce, keyLive, stranded>>

RateExpire(c) ==
    /\ copy[c].loc = "expire"
    /\ IF up
       THEN /\ rate' = Expire(rate, RateWindow) /\ Move(c, "verify")
            /\ PassesRedis(c) /\ begun' = age
            /\ UNCHANGED <<window, stranded>>
       ELSE /\ UNCHANGED <<rate, begun, passed, through>> /\ stranded' = TRUE
            /\ IF production
               THEN Move(c, "refused") /\ UNCHANGED window
               ELSE CountInMemory(c, copy[c].at)
    /\ UNCHANGED <<age, nonce, memNonce, keyLive>>

(* verify_hmac_request: the key, the clock window, the signature, which    *)
(* these copies have right.                                                *)
VerifyHmac(c) ==
    /\ copy[c].loc = "verify"
    /\ Move(c, IF keyLive /\ age <= ClockWindow /\ -age <= ClockWindow THEN "nonce" ELSE "refused")
    /\ UNCHANGED <<rate, window, age, nonce, memNonce, keyLive, history>>

(* The nonce is looked up and never stored (mutant).                       *)
ConsumeNonceUnset(c) ==
    /\ copy[c].loc = "nonce"
    /\ Move(c, IF nonce > 0 \/ ~up THEN "refused" ELSE "served")
    /\ UNCHANGED <<rate, window, age, nonce, memNonce, keyLive, history>>

(* consume_api_nonce, by set_nx_ex: SET NX EX; an error is raised in       *)
(* production and answered from memory in development.                     *)
ConsumeNonce(c) ==
    LET p == copy[c].at
    IN  /\ copy[c].loc = "nonce"
        /\ IF up
           THEN /\ Move(c, IF nonce > 0 THEN "refused" ELSE "served")
                /\ nonce' = IF nonce > 0 THEN nonce ELSE NonceTTL
                /\ UNCHANGED memNonce
           ELSE IF production
           THEN Move(c, "refused") /\ UNCHANGED <<nonce, memNonce>>
           ELSE /\ Move(c, IF memNonce[p] > 0 THEN "refused" ELSE "served")
                /\ memNonce' = [memNonce EXCEPT ![p] = IF @ > 0 THEN @ ELSE NonceTTL]
                /\ UNCHANGED nonce
        /\ UNCHANGED <<rate, window, age, keyLive, history>>

(* revoke_api_key *)
RevokeKey ==
    /\ keyLive /\ keyLive' = FALSE
    /\ UNCHANGED <<rate, window, copy, age, nonce, memNonce, history>>

Less(n) == IF n > 0 THEN n - 1 ELSE 0

ApiTick ==
    /\ \A c \in Copies : copy[c].loc = "nonce" => copy[c].stall < MaxStall
    /\ age < ClockWindow + MaxStall
    /\ age' = age + 1
    /\ rate' = Aged(rate) /\ nonce' = Less(nonce)
    /\ memNonce' = [p \in Processes |-> Less(memNonce[p])]
    /\ window' = [p \in Processes |-> [i \in DOMAIN window[p] |-> window[p][i] + 1]]
    /\ copy' = [c \in Copies |-> IF copy[c].loc = "nonce"
                                 THEN [copy[c] EXCEPT !.stall = @ + 1] ELSE copy[c]]
    /\ through' = IF rate' = Absent THEN {} ELSE through
    /\ UNCHANGED <<keyLive, passed, begun, stranded>>

RequestsDie(p) ==
    /\ copy' = [c \in Copies |-> IF copy[c].at = p /\ copy[c].loc \in {"expire", "verify", "nonce"}
                                 THEN GoesOn(copy[c], p, "refused") ELSE copy[c]]
    /\ window' = [window EXCEPT ![p] = <<>>] /\ memNonce' = [memNonce EXCEPT ![p] = 0]
    /\ stranded' = (stranded \/ \E c \in Copies : copy[c].at = p /\ copy[c].loc = "expire")
    /\ UNCHANGED <<rate, age, nonce, keyLive, passed, through, begun>>

(* A signed request is served once, however often, wherever and whenever   *)
(* it is delivered: the nonce outlives the clock window. In development    *)
(* that holds while Redis answers.                                         *)
ServedOnce ==
    production \/ outages = 0 => Cardinality({c \in Copies : copy[c].loc = "served"}) <= 1

(* The copies that passed within the window that ends now. *)
Recent == {c \in Copies : age - passed[c] < RateWindow}

(* What the two commands INCR and EXPIRE give, in several processes: Redis *)
(* lets a client through less than twice its limit in any window, across   *)
(* the buckets' borders (in production there is no other way through); and *)
(* no bucket holds a client longer than a window, however often it asks    *)
(* again, unless a fault came between the two commands of the bucket's     *)
(* first request: then nothing ever removes it.                            *)
RateIsKept ==
    /\ Cardinality(Recent) < 2 * RateLimit
    /\ rate # Absent /\ age - begun >= RateWindow =>
          stranded \/ \E c \in Copies : copy[c].loc = "expire"

SignedRequest == [loc : {"unsent", "expire", "verify", "nonce", "refused", "served"},
                  at : Processes \cup {"none"}, stall : Int]

ApiType ==
    /\ copy \in [Copies -> SignedRequest]
    /\ rate \in [n : Nat, ttl : Nat \cup {Forever}] /\ (rate.n = 0 => rate = Absent)
    /\ age \in Int /\ nonce \in Int
    /\ -ClockWindow <= age /\ age <= ClockWindow + MaxStall
    /\ passed \in [Copies -> Int] /\ through \subseteq Copies
    /\ begun \in Int /\ stranded \in BOOLEAN

Expiring == {c \in Copies : copy[c].loc = "expire"}

(* A bucket's expiry: none until the one request that created it has asked *)
(* for it, which it will do unless a fault stops it; then a window from    *)
(* there.                                                                  *)
BucketInv ==
    /\ \A c \in Expiring : rate.ttl = Forever /\ Expiring = {c}
    /\ rate.ttl = Forever => stranded \/ Expiring # {}
    /\ rate # Absent /\ rate.ttl # Forever => rate.ttl > 0 /\ rate.ttl + (age - begun) = RateWindow

(* Why fewer than twice the limit pass in a window: the bucket lets no     *)
(* more than the limit pass, and of those that passed the bucket before    *)
(* one, at least the one that gave it its expiry, is out of the window     *)
(* when the next is created. So were the buckets before it.                *)
PassedInv ==
    /\ \A c \in Copies : passed[c] <= age
    /\ \A c \in through : copy[c].loc # "unsent"
    /\ rate = Absent => through = {}
    /\ Cardinality(through \cup Expiring) <= rate.n
    /\ Cardinality(through \cup Expiring) <= RateLimit
    /\ Cardinality(Recent \ through) < RateLimit
    /\ rate # Absent /\ rate.ttl # Forever =>
          /\ \E c \in through : passed[c] = begun
          /\ \A c \in Recent \ through : passed[c] <= begun

(* Why a request is served once: once a copy is served, what is left of    *)
(* the nonce's life is at least its whole life less the time since the     *)
(* earliest the message could be accepted, which is more than nothing      *)
(* until the latest.                                                       *)
NonceInv ==
    \A c \in Copies : copy[c].loc = "served" =>
        /\ nonce >= NonceTTL - (age + ClockWindow)
        /\ \A d \in Copies : copy[d].loc = "served" => d = c

ApiInv ==
    /\ ApiType /\ BucketInv /\ PassedInv
    /\ production \/ outages = 0 => NonceInv
=============================================================================

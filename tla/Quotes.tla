------------------------------- MODULE Quotes -------------------------------
(***************************************************************************)
(* The quotes that orders execute at and positions are valued by: _quote,  *)
(* get_last_price and get_mark_price of backend/services/                  *)
(* trading_service.py, called by threads of one process. A price is        *)
(* modelled by when its fetch began and by the time of its trade; the      *)
(* provider (Yahoo Finance, external) answers with a trade and its time,   *)
(* with a price of unknown time, or with nothing. A unit of time is 20     *)
(* seconds.                                                                *)
(*                                                                         *)
(* Where a reader is:                                                      *)
(*   idle      has its answer           waiting   for the asset's lock     *)
(*   live      in _live_quote           fallback  in _fast_info_price and  *)
(*                                                _last_close              *)
(*   priced    _quote has returned      unpriced  _quote has raised        *)
(***************************************************************************)
EXTENDS Integers, FiniteSets

CONSTANTS Readers,
          Quoted,       \* assets
          LockOf,       \* asset |-> its lock of _fetch_locks; assets may share one
          CacheTTL,     \* PRICE_CACHE_TTL
          FailureTTL,   \* QUOTE_FAILURE_TTL
          PruneAt,      \* _QUOTE_FAILURES_PRUNE_AT
          MaxQuoteAge,  \* MAX_QUOTE_AGE_SECONDS
          MaxClock      \* bound on the time

ASSUME QuotesAssumption ==
    /\ {CacheTTL, FailureTTL, PruneAt, MaxQuoteAge, MaxClock} \subseteq Nat
    /\ Quoted = DOMAIN LockOf
    /\ CacheTTL <= FailureTTL    \* both are 20 seconds

Unknown == -1

NoQuote == [at |-> Unknown, time |-> Unknown]

VARIABLES clock,
          priceCache,     \* _price_cache: asset |-> [at, time]
          quoteFailures,  \* _quote_failures: asset |-> when, or Unknown
          fetching,       \* per lock: its holder, or none
          reader,
          newest,         \* history: asset |-> at of the newest observation answered
          began,          \* history: asset |-> when its last fetch began
          hurried,        \* history: assets fetched again before a TTL had passed
          misled          \* history: assets executed at an old trade, or one of unknown time

quoteVars == <<clock, priceCache, quoteFailures, fetching, reader, newest, began, hurried, misled>>

Idle == [loc |-> "idle", asset |-> CHOOSE a \in Quoted : TRUE, quote |-> NoQuote, floor |-> Unknown,
         when |-> 0]

Locks == {LockOf[a] : a \in Quoted}

QuotesInit ==
    /\ clock = 0
    /\ priceCache = [a \in Quoted |-> NoQuote]
    /\ quoteFailures = [a \in Quoted |-> Unknown]
    /\ fetching = [l \in Locks |-> {}]
    /\ reader = [t \in Readers |-> Idle]
    /\ newest = [a \in Quoted |-> Unknown]
    /\ began = [a \in Quoted |-> Unknown]
    /\ hurried = {} /\ misled = {}

-----------------------------------------------------------------------------
(* _fresh_quote *)
Fresh(a) == priceCache[a] # NoQuote /\ clock - priceCache[a].at < CacheTTL

Failed(a) == ~Fresh(a) /\ quoteFailures[a] # Unknown /\ clock - quoteFailures[a] < FailureTTL

(* What _quote does with its two looks at the cache. *)
FromCache(t, r, otherwise) ==
    reader' = [reader EXCEPT ![t] =
        IF Fresh(r.asset) THEN [r EXCEPT !.loc = "priced", !.quote = priceCache[r.asset]]
        ELSE [r EXCEPT !.loc = IF Failed(r.asset) THEN "unpriced" ELSE otherwise]]

(* A call for the executable price or for the mark of an asset *)
ReadQuote(t, a) ==
    /\ reader[t].loc = "idle"
    /\ FromCache(t, [Idle EXCEPT !.asset = a, !.floor = newest[a]], "waiting")
    /\ UNCHANGED <<clock, priceCache, quoteFailures, fetching, newest, began, hurried, misled>>

(* The fetch of t begins: now is the time before the provider is asked. *)
Begin(t, a) ==
    /\ reader' = [reader EXCEPT ![t].loc = "live", ![t].when = clock]
    /\ fetching' = [fetching EXCEPT ![LockOf[a]] = {t}]
    /\ began' = [began EXCEPT ![a] = clock]
    /\ hurried' = IF began[a] # Unknown /\ clock - began[a] < CacheTTL THEN hurried \cup {a} ELSE hurried

(* Does not look again once it has the lock (mutant of TakeFetchLock). *)
TakeFetchLockBlindly(t) ==
    LET a == reader[t].asset
    IN /\ reader[t].loc = "waiting" /\ fetching[LockOf[a]] = {}
       /\ Begin(t, a)
       /\ UNCHANGED <<clock, priceCache, quoteFailures, newest, misled>>

(* "Another request may have fetched while this one waited." *)
TakeFetchLock(t) ==
    LET a == reader[t].asset
    IN /\ reader[t].loc = "waiting" /\ fetching[LockOf[a]] = {}
       /\ IF Fresh(a) \/ Failed(a)
          THEN FromCache(t, reader[t], "waiting") /\ UNCHANGED <<fetching, began, hurried>>
          ELSE Begin(t, a)
       /\ UNCHANGED <<clock, priceCache, quoteFailures, newest, misled>>

(* A price is stored with the time its fetch began, and forgets the        *)
(* asset's failure.                                                        *)
Store(t, time) ==
    LET a == reader[t].asset
        q == [at |-> reader[t].when, time |-> time]
    IN /\ priceCache' = [priceCache EXCEPT ![a] = q]
       /\ quoteFailures' = [quoteFailures EXCEPT ![a] = Unknown]
       /\ fetching' = [fetching EXCEPT ![LockOf[a]] = {}]
       /\ reader' = [reader EXCEPT ![t].loc = "priced", ![t].quote = q]

(* A trade of just now, or one too old to execute at *)
TradeTimes == {clock, clock - MaxQuoteAge - 1} \cap Nat

(* _live_quote: the last trade, whenever it was, or nothing *)
LiveQuote(t) ==
    /\ reader[t].loc = "live"
    /\ \/ \E time \in TradeTimes : Store(t, time)
       \/ reader' = [reader EXCEPT ![t].loc = "fallback"] /\ UNCHANGED <<priceCache, quoteFailures, fetching>>
    /\ UNCHANGED <<clock, newest, began, hurried, misled>>

(* _remember_failure: drops old failures when there are many. *)
RememberFailure(a, now) ==
    LET many == Cardinality({b \in Quoted : quoteFailures[b] # Unknown}) >= PruneAt
    IN quoteFailures' = [b \in Quoted |->
           IF b = a THEN now
           ELSE IF many /\ quoteFailures[b] # Unknown /\ now - quoteFailures[b] >= FailureTTL
           THEN Unknown ELSE quoteFailures[b]]

(* _fast_info_price or _last_close: a price without a time, or a failure *)
FallbackQuote(t) ==
    /\ reader[t].loc = "fallback"
    /\ \/ Store(t, Unknown)
       \/ /\ RememberFailure(reader[t].asset, reader[t].when)
          /\ fetching' = [fetching EXCEPT ![LockOf[reader[t].asset]] = {}]
          /\ reader' = [reader EXCEPT ![t].loc = "unpriced"]
          /\ UNCHANGED priceCache
    /\ UNCHANGED <<clock, newest, began, hurried, misled>>

(* The call returns the observation q. *)
AnswerWith(t, q) ==
    LET a == reader[t].asset
    IN /\ reader' = [reader EXCEPT ![t] = Idle]
       /\ newest' = [newest EXCEPT ![a] = IF q.at > @ THEN q.at ELSE @]
       /\ UNCHANGED <<clock, priceCache, quoteFailures, fetching, began, hurried>>

(* get_last_price: the age of the trade when the call returns *)
Executable(q) == q.time # Unknown /\ clock - q.time <= MaxQuoteAge

(* A price that is not executable is StaleMarketData, and still a mark. *)
CheckAge(t) ==
    LET q == reader[t].quote
    IN /\ reader[t].loc = "priced"
       /\ AnswerWith(t, q)
       /\ misled' = IF Executable(q) /\ q.time \notin (clock - MaxQuoteAge)..clock
                    THEN misled \cup {reader[t].asset} ELSE misled

(* get_mark_price after MarketDataUnavailable: the last observation, of    *)
(* any age                                                                 *)
FallBackOnCache(t) ==
    /\ reader[t].loc = "unpriced"
    /\ AnswerWith(t, priceCache[reader[t].asset])
    /\ UNCHANGED misled

QuoteTick ==
    /\ clock < MaxClock
    /\ clock' = clock + 1
    /\ UNCHANGED <<priceCache, quoteFailures, fetching, reader, newest, began, hurried, misled>>

QuotesNext ==
    \/ QuoteTick
    \/ \E t \in Readers :
          \/ \E a \in Quoted : ReadQuote(t, a)
          \/ TakeFetchLock(t) \/ LiveQuote(t) \/ FallbackQuote(t)
          \/ CheckAge(t) \/ FallBackOnCache(t)

-----------------------------------------------------------------------------
(* Properties *)

(* However calls overlap, the provider is asked for an asset once per TTL, *)
(* whether it answered or not ("fetched at most every PRICE_CACHE_TTL      *)
(* seconds"; the two TTLs are equal); no call is answered with an older    *)
(* observation than a call that ended before it began, so an asset that    *)
(* was once priced keeps a mark through every failure ("a failure never    *)
(* replaces the last good observation"); and an executable price is a      *)
(* trade of known time, recent when the call returns.                      *)
QuotesAreFresh ==
    /\ hurried = {} /\ misled = {}
    /\ \A t \in Readers :
          /\ reader[t].loc = "priced" => reader[t].quote.at >= reader[t].floor
          /\ reader[t].loc = "unpriced" => priceCache[reader[t].asset].at >= reader[t].floor

Observation == [at : Int, time : Int]

QuotesType ==
    /\ clock \in Nat
    /\ priceCache \in [Quoted -> Observation]
    /\ quoteFailures \in [Quoted -> Int] /\ newest \in [Quoted -> Int] /\ began \in [Quoted -> Int]
    /\ fetching \in [Locks -> SUBSET Readers]
    /\ reader \in [Readers -> [loc : {"idle", "waiting", "live", "fallback", "priced", "unpriced"},
                              asset : Quoted \cup {Idle.asset}, quote : Observation, floor : Int,
                              when : Int]]

(* A reader that fetches an asset holds its lock, and began after what is  *)
(* cached; every reader is owed no newer observation than is cached.       *)
ReadersInv ==
    \A t \in Readers :
        LET r == reader[t]
        IN r.loc # "idle" =>
              /\ r.asset \in Quoted
              /\ r.floor <= priceCache[r.asset].at
              /\ r.loc \in {"live", "fallback"} =>
                    /\ fetching[LockOf[r.asset]] = {t}
                    /\ r.when = began[r.asset] /\ priceCache[r.asset].at <= r.when
              /\ r.loc = "priced" =>
                    /\ r.floor <= r.quote.at /\ r.quote.at <= priceCache[r.asset].at
                    /\ r.quote.time <= clock

(* What a fetch came to is remembered, as a price or as a failure, until   *)
(* the TTL has passed.                                                     *)
CacheInv ==
    \A a \in Quoted :
        /\ priceCache[a].at >= Unknown /\ priceCache[a].time <= clock
        /\ newest[a] <= priceCache[a].at
        /\ began[a] <= clock /\ priceCache[a].at <= began[a]
        /\ began[a] # Unknown =>
              \/ clock - began[a] >= CacheTTL
              \/ priceCache[a].at = began[a] \/ quoteFailures[a] = began[a]
              \/ \E t \in fetching[LockOf[a]] : reader[t].asset = a /\ reader[t].loc \in {"live", "fallback"}

QuotesInv == QuotesType /\ ReadersInv /\ CacheInv /\ hurried = {} /\ misled = {}
=============================================================================

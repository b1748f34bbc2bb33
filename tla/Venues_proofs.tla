--------------------------- MODULE Venues_proofs ----------------------------
(***************************************************************************)
(* Proofs about Venues. First what the paper broker fills at and charges:  *)
(* it is honest, for every set of prices, readers, assets and locks. Then  *)
(* the research exchange and its replay, from the book up: pruning,        *)
(* execution, the engine's handlers, its loops, the account around them;   *)
(* the last section has the invariant of the calls and the theorems, for   *)
(* every feed, latency, account and set of orders.                         *)
(***************************************************************************)
EXTENDS Venues, SumTheorems, TLAPS

-----------------------------------------------------------------------------
(* The fill rules *)

(* A price rounds to a price, at most half a cent away. *)
LEMMA RoundedNear ==
    ASSUME NEW p \in Nat \ {0}
    PROVE  /\ Rounded(p) # {}
           /\ \A c \in Rounded(p) : c \in Int /\ p - Cent \div 2 <= c /\ c <= p + Cent \div 2
<1>1. CASE p < Dollar
  BY <1>1 DEF Rounded, Dollar, Cent
<1>2. CASE ~(p < Dollar)
  <2> DEFINE q == (p + 5) \div 10
  <2>1. 10 * q <= p + 5 /\ p + 5 < 10 * q + 10 /\ q \in Int
    OBVIOUS
  <2> HIDE DEF q
  <2>2. 10 * q \in (p - 5)..(p + 5) /\ (10 * q) % 10 = 0
    BY <2>1
  <2>3. Rounded(p) = {c \in (p - 5)..(p + 5) : c % 10 = 0}
    BY <1>2 DEF Rounded, Cent
  <2>4. 10 * q \in Rounded(p)
    BY <2>2, <2>3
  <2> QED
    BY <2>3, <2>4 DEF Cent
<1> QED
  BY <1>1, <1>2

(* A marketable order is filled at the last price, rounded. *)
LEMMA MarketableAtLast ==
    ASSUME NEW side \in Sides, NEW limit \in Nat, NEW p \in Nat \ {0}, Marketable(side, limit, p)
    PROVE  BetterPrice(side, limit, p) = p
BY DEF Sides, Marketable, BetterPrice, Lower, Higher

OrderShape == [side : Sides, type : OrderTypes, limit : Nat, stop : Nat]

(* What simulate_fill answers, case by case. *)
LEMMA SimulateFillCases ==
    ASSUME NEW o \in OrderShape, NEW p \in Nat \ {0}
    PROVE  /\ o.type = "market" => SimulateFill(o, p) = {p}
           /\ o.type \in {"stop", "stop_limit"} /\ ~StopTriggered(o.side, o.stop, p) =>
                 SimulateFill(o, p) = {}
           /\ o.type = "stop" /\ StopTriggered(o.side, o.stop, p) => SimulateFill(o, p) = {p}
           /\ o.type = "limit" \/ (o.type = "stop_limit" /\ StopTriggered(o.side, o.stop, p)) =>
                 /\ o.limit # NoPrice /\ Marketable(o.side, o.limit, p) =>
                       SimulateFill(o, p) = Rounded(p)
                 /\ o.limit # NoPrice /\ ~Marketable(o.side, o.limit, p) => SimulateFill(o, p) = {}
<1>1. o.side \in Sides /\ o.limit \in Nat /\ o.type \in OrderTypes
  BY DEF OrderShape
<1>2. Marketable(o.side, o.limit, p) => BetterPrice(o.side, o.limit, p) = p
  BY <1>1, MarketableAtLast
<1>3. CASE o.type = "market"
  BY <1>3 DEF SimulateFill
<1>4. CASE o.type = "stop"
  BY <1>4 DEF SimulateFill
<1>5. CASE o.type = "limit"
  BY <1>5, <1>2 DEF SimulateFill
<1>6. CASE o.type = "stop_limit"
  BY <1>6, <1>2 DEF SimulateFill
<1> QED
  BY <1>1, <1>3, <1>4, <1>5, <1>6 DEF OrderTypes

(* What the sweep fills an order at that has the price its type needs. *)
LEMMA SweepFillCases ==
    ASSUME NEW o \in OrderShape, NEW p \in Nat \ {0},
           o.type \in {"limit", "stop_limit"} => o.limit # NoPrice,
           o.type \in {"stop", "stop_limit"} => o.stop # NoPrice
    PROVE  /\ o.type = "limit" => SweepFill(o, p) =
                 IF Marketable(o.side, o.limit, p) THEN Rounded(p) ELSE {}
           /\ o.type \in {"stop", "stop_limit"} => SweepFill(o, p) = SimulateFill(o, p)
           /\ o.type = "limit" => (Actionable(o, p) <=> Marketable(o.side, o.limit, p))
           /\ o.type \in {"stop", "stop_limit"} =>
                 (Actionable(o, p) <=> StopTriggered(o.side, o.stop, p))
<1>1. o.side \in Sides /\ o.limit \in Nat /\ o.stop \in Nat /\ o.type \in OrderTypes
  BY DEF OrderShape
<1>2. Marketable(o.side, o.limit, p) => BetterPrice(o.side, o.limit, p) = p
  BY <1>1, MarketableAtLast
<1>3. CASE o.type = "limit"
  <2>1. HasLimit(o) /\ ~HasStop(o)
    BY <1>3 DEF HasLimit, HasStop
  <2>2. SweepFill(o, p) = IF Marketable(o.side, o.limit, p) THEN Rounded(p) ELSE {}
    BY <1>2, <2>1 DEF SweepFill, CheckPendingLimitFill
  <2>3. Actionable(o, p) <=> Marketable(o.side, o.limit, p)
    BY <1>1, <2>1 DEF Actionable, Marketable
  <2> QED
    BY <1>3, <2>2, <2>3
<1>4. CASE o.type \in {"stop", "stop_limit"}
  <2>1. ~HasLimit(o) /\ HasStop(o)
    BY <1>4 DEF HasLimit, HasStop
  <2>2. SweepFill(o, p) = SimulateFill(o, p)
    BY <2>1 DEF SweepFill
  <2>3. Actionable(o, p) <=> StopTriggered(o.side, o.stop, p)
    BY <1>1, <2>1 DEF Actionable, StopTriggered
  <2> QED
    BY <1>4, <2>2, <2>3
<1>5. CASE o.type = "market"
  BY <1>5
<1> QED
  BY <1>1, <1>3, <1>4, <1>5 DEF OrderTypes

(* The invariant of the resting order gives its rules. *)
LEMMA RestRules == RestInv => FillsByTheRules
<1> SUFFICES ASSUME RestInv PROVE FillsByTheRules
  OBVIOUS
<1>1. /\ order \in OrderShape /\ last \in Nat \ {0}
      /\ order.type \in {"limit", "stop_limit"} => order.limit # NoPrice
      /\ order.type \in {"stop", "stop_limit"} => order.stop # NoPrice
      /\ status = "ACCEPTED" => order.type # "market" /\ (triggered => order.type = "limit")
      /\ LimitHoldsToHalfACent
  BY DEF RestInv, OrderShape
<1>2. Rounded(last) # {} /\ {last} # {}
  BY <1>1, RoundedNear
<1>3. order.type \in OrderTypes
  BY <1>1 DEF OrderShape
<1>4. order.type = "limit" => ~Converts(order, last)
  BY DEF Converts, HasStop
<1>5. order.type = "stop" => ~Converts(order, last)
  BY DEF Converts
<1>6. order.type = "stop_limit" =>
         (Converts(order, last) <=> /\ SimulateFill(order, last) = {}
                                    /\ StopTriggered(order.side, order.stop, last))
  BY <1>1 DEF Converts, HasStop
<1>7. ActionableIsExact
  <2> SUFFICES ASSUME status = "ACCEPTED"
               PROVE  Actionable(order, last)
                        <=> SweepFill(order, last) # {} \/ Converts(order, last)
    BY DEF ActionableIsExact
  <2>1. CASE order.type = "limit"
    BY <2>1, <1>1, <1>2, <1>4, SweepFillCases
  <2>2. CASE order.type = "stop"
    BY <2>2, <1>1, <1>2, <1>5, SweepFillCases, SimulateFillCases
  <2>3. CASE order.type = "stop_limit"
    BY <2>3, <1>1, <1>2, <1>6, SweepFillCases, SimulateFillCases
  <2> QED
    BY <2>1, <2>2, <2>3, <1>1, <1>3 DEF OrderTypes
<1>8. TriggerIsKept
  BY <1>1, <1>2, SweepFillCases DEF TriggerIsKept
<1>9. PlacementAgreesWithSweep
  BY <1>1, SweepFillCases, SimulateFillCases DEF PlacementAgreesWithSweep
<1> QED
  BY <1>1, <1>7, <1>8, <1>9 DEF FillsByTheRules

(* An order with a limit fills within half a cent of it, when it is placed *)
(* and when it is swept.                                                   *)
LEMMA FillsNearLimit ==
    ASSUME NEW o \in OrderShape, NEW p \in Nat \ {0}, NEW c,
           o.type \in {"limit", "stop_limit"}, o.limit # NoPrice, o.type = "stop_limit" => o.stop # NoPrice,
           c \in SimulateFill(o, p) \/ c \in SweepFill(o, p)
    PROVE  IF o.side = "buy" THEN c <= o.limit + Cent \div 2 ELSE c >= o.limit - Cent \div 2
<1>1. o.side \in Sides /\ o.limit \in Nat
  BY DEF OrderShape
<1>2. Marketable(o.side, o.limit, p) /\ c \in Rounded(p)
  BY SimulateFillCases, SweepFillCases
<1>3. c \in Int /\ p - 5 <= c /\ c <= p + 5
  BY <1>2, RoundedNear DEF Cent
<1> QED
  BY <1>1, <1>2, <1>3 DEF Marketable, Cent

(* Every step of the resting order keeps its invariant. *)
LEMMA RestStep == RestInv /\ RestNext => RestInv'
<1> SUFFICES ASSUME RestInv, RestNext PROVE RestInv'
  OBVIOUS
<1>1. /\ order \in OrderShape /\ last \in Nat \ {0} /\ triggered \in BOOLEAN
      /\ status = "new" => ~triggered
      /\ order.type \in {"limit", "stop_limit"} => order.limit # NoPrice
      /\ order.type \in {"stop", "stop_limit"} => order.stop # NoPrice
      /\ status = "ACCEPTED" => order.type # "market" /\ (triggered => order.type = "limit")
      /\ LimitHoldsToHalfACent
  BY DEF RestInv, OrderShape
<1>2. order.type \in OrderTypes
  BY <1>1 DEF OrderShape
<1>3. order.type = "market" => SimulateFill(order, last) # {}
  BY <1>1, SimulateFillCases
<1>4. SeesTrigger \in BOOLEAN
  BY DEF SeesTrigger
<1>5. ASSUME SeesTrigger, order' = [order EXCEPT !.type = "limit"]
      PROVE  /\ order' \in OrderShape /\ order'.type = "limit" /\ order'.limit # NoPrice
  BY <1>1, <1>5 DEF SeesTrigger, OrderShape, OrderTypes
<1>6. ASSUME fill' \in SimulateFill(order, last) \/ fill' \in SweepFill(order, last), UNCHANGED order
      PROVE  LimitHoldsToHalfACent'
  BY <1>1, <1>6, FillsNearLimit DEF LimitHoldsToHalfACent
<1>7. CASE Place
  <2>1. CASE Fill(SimulateFill(order, last)) /\ UNCHANGED order
    <3>1. LimitHoldsToHalfACent'
      BY <2>1, <1>6 DEF Fill
    <3> QED
      BY <2>1, <3>1, <1>1, <1>4, <1>7 DEF Place, Fill, RestInv, OrderShape
  <2>2. CASE status' = "EXPIRED" /\ UNCHANGED <<order, fill>>
    BY <2>2, <1>1, <1>4, <1>7 DEF Place, RestInv, OrderShape, LimitHoldsToHalfACent
  <2>3. CASE /\ SimulateFill(order, last) = {} /\ status' = "ACCEPTED"
             /\ order' = IF SeesTrigger THEN [order EXCEPT !.type = "limit"] ELSE order
    <3>1. CASE SeesTrigger
      BY <2>3, <3>1, <1>1, <1>5, <1>7 DEF Place, RestInv, OrderShape, LimitHoldsToHalfACent
    <3>2. CASE ~SeesTrigger
      <4>1. order' = order /\ order.type # "market" /\ triggered' = FALSE
        BY <2>3, <3>2, <1>3, <1>7 DEF Place
      <4> QED
        BY <2>3, <4>1, <1>1, <1>7 DEF Place, RestInv, OrderShape, LimitHoldsToHalfACent
    <3> QED
      BY <3>1, <3>2
  <2> QED
    BY <2>1, <2>2, <2>3, <1>7 DEF Place
<1>8. CASE PlaceStale
  BY <1>1, <1>8 DEF PlaceStale, RestInv, OrderShape, LimitHoldsToHalfACent
<1>9. CASE Sweep
  <2>1. CASE Fill(SweepFill(order, last)) /\ UNCHANGED order
    <3>1. LimitHoldsToHalfACent'
      BY <2>1, <1>6 DEF Fill
    <3> QED
      BY <2>1, <3>1, <1>1, <1>4, <1>9 DEF Sweep, Fill, RestInv, OrderShape
  <2>2. CASE /\ Converts(order, last) /\ order' = [order EXCEPT !.type = "limit"]
             /\ UNCHANGED <<status, fill>>
    <3>1. SeesTrigger
      BY <2>2 DEF Converts, SeesTrigger
    <3> QED
      BY <2>2, <3>1, <1>1, <1>4, <1>5, <1>9 DEF Sweep, RestInv, OrderShape, LimitHoldsToHalfACent
  <2> QED
    BY <2>1, <2>2, <1>9 DEF Sweep
<1>10. CASE \E p \in Prices : Trade(p)
  BY <1>10, <1>1, PricesAssumption DEF Trade, RestInv, OrderShape, LimitHoldsToHalfACent
<1> QED
  BY <1>7, <1>8, <1>9, <1>10 DEF RestNext

-----------------------------------------------------------------------------
(* The quotes *)

ReaderShape == [loc : {"idle", "waiting", "live", "fallback", "priced", "unpriced"},
                asset : Quoted \cup {Idle.asset}, quote : Observation, floor : Int, when : Int]

(* What QuotesInv says of reader t, and of asset a. *)
ReaderOk(t) ==
    LET r == reader[t]
    IN r.loc # "idle" =>
          /\ r.asset \in Quoted
          /\ r.floor <= priceCache[r.asset].at
          /\ r.loc \in {"live", "fallback"} =>
                /\ fetching[LockOf[r.asset]] = {t}
                /\ r.when = began[r.asset] /\ priceCache[r.asset].at <= r.when
          /\ r.loc = "priced" =>
                /\ r.floor <= r.quote.at /\ r.quote.at <= priceCache[r.asset].at
                /\ r.quote.time <= clock

IsFetched(a) ==
    \E t \in fetching[LockOf[a]] : reader[t].asset = a /\ reader[t].loc \in {"live", "fallback"}

AssetOk(a) ==
    /\ priceCache[a].at >= Unknown /\ priceCache[a].time <= clock
    /\ newest[a] <= priceCache[a].at
    /\ began[a] <= clock /\ priceCache[a].at <= began[a]
    /\ began[a] # Unknown =>
          \/ clock - began[a] >= CacheTTL
          \/ priceCache[a].at = began[a] \/ quoteFailures[a] = began[a]
          \/ IsFetched(a)

(* The invariant in these words. *)
LEMMA QuotesInvParts ==
    QuotesInv <=>
        /\ clock \in Nat
        /\ priceCache \in [Quoted -> Observation]
        /\ quoteFailures \in [Quoted -> Int] /\ newest \in [Quoted -> Int] /\ began \in [Quoted -> Int]
        /\ fetching \in [Locks -> SUBSET Readers]
        /\ reader \in [Readers -> ReaderShape]
        /\ \A t \in Readers : ReaderOk(t)
        /\ \A a \in Quoted : AssetOk(a)
        /\ hurried = {} /\ misled = {}
BY DEF QuotesInv, QuotesType, ReadersInv, CacheInv, ReaderShape, ReaderOk, AssetOk, IsFetched

(* What is to show of a step that leaves its histories empty. *)
LEMMA QuotesInvNext ==
    ASSUME clock' \in Nat, priceCache' \in [Quoted -> Observation],
           quoteFailures' \in [Quoted -> Int], newest' \in [Quoted -> Int],
           began' \in [Quoted -> Int], fetching' \in [Locks -> SUBSET Readers],
           reader' \in [Readers -> ReaderShape], \A t \in Readers : ReaderOk(t)',
           \A a \in Quoted : AssetOk(a)', hurried' = {}, misled' = {}
    PROVE  QuotesInv'
BY DEF QuotesInv, QuotesType, ReadersInv, CacheInv, ReaderShape, ReaderOk, AssetOk, IsFetched

(* A lock is one of the locks; an idle reader is a reader. *)
LEMMA QuoteConstants ==
    /\ \A a \in Quoted : LockOf[a] \in Locks
    /\ Idle \in ReaderShape /\ Idle.loc = "idle"
    /\ {CacheTTL, FailureTTL, PruneAt, MaxQuoteAge, MaxClock} \subseteq Nat
    /\ CacheTTL <= FailureTTL
    /\ NoQuote \in Observation /\ NoQuote.at = -1 /\ NoQuote.time = -1
<1>1. NoQuote \in Observation /\ NoQuote.at = -1 /\ NoQuote.time = -1
  BY DEF NoQuote, Observation, Unknown
<1>2. Idle \in ReaderShape /\ Idle.loc = "idle"
  <2>1. Idle.asset \in Quoted \cup {Idle.asset}
    OBVIOUS
  <2>2. Idle = [loc |-> "idle", asset |-> Idle.asset, quote |-> NoQuote, floor |-> -1, when |-> 0]
    BY DEF Idle, Unknown
  <2> QED
    BY <1>1, <2>1, <2>2 DEF ReaderShape
<1> QED
  BY <1>1, <1>2, QuotesAssumption DEF Locks

(* A process starts with nothing cached and nobody reading. *)
LEMMA QuotesStart == QuotesInit => QuotesInv
<1> SUFFICES ASSUME QuotesInit PROVE QuotesInv
  OBVIOUS
<1>1. /\ clock \in Nat /\ priceCache \in [Quoted -> Observation]
      /\ quoteFailures \in [Quoted -> Int] /\ newest \in [Quoted -> Int] /\ began \in [Quoted -> Int]
      /\ fetching \in [Locks -> SUBSET Readers]
      /\ hurried = {} /\ misled = {}
  BY QuoteConstants DEF QuotesInit, Unknown
<1>2. reader \in [Readers -> ReaderShape] /\ \A t \in Readers : reader[t].loc = "idle"
  BY QuoteConstants DEF QuotesInit
<1>3. \A t \in Readers : ReaderOk(t)
  BY <1>2 DEF ReaderOk
<1>4. \A a \in Quoted : AssetOk(a)
  BY QuoteConstants DEF QuotesInit, AssetOk, Unknown
<1> QED
  BY <1>1, <1>2, <1>3, <1>4, QuotesInvParts

(* Two readers that fetch under one lock are one. *)
LEMMA OneFetches ==
    ASSUME QuotesInv, NEW t \in Readers, NEW u \in Readers,
           reader[t].loc \in {"live", "fallback"}, reader[u].loc \in {"live", "fallback"},
           LockOf[reader[t].asset] = LockOf[reader[u].asset]
    PROVE  t = u
<1>1. ReaderOk(t) /\ ReaderOk(u)
  BY QuotesInvParts
<1> QED
  BY <1>1 DEF ReaderOk

(* A reader that takes its answer from the cache, or waits or fails, keeps *)
(* the invariant when what it had read is no newer than the cache.         *)
LEMMA FromCacheStep ==
    ASSUME QuotesInv, NEW t \in Readers, NEW r \in ReaderShape, r.asset \in Quoted,
           r.floor <= priceCache[r.asset].at, reader[t].loc \in {"idle", "waiting"},
           FromCache(t, r, "waiting"),
           UNCHANGED <<clock, priceCache, quoteFailures, fetching, newest, began, hurried, misled>>
    PROVE  QuotesInv'
<1>1. /\ clock \in Nat /\ priceCache \in [Quoted -> Observation] /\ reader \in [Readers -> ReaderShape]
      /\ \A u \in Readers : ReaderOk(u)
      /\ \A a \in Quoted : AssetOk(a)
  BY QuotesInvParts
<1>2. PICK r2 \in ReaderShape :
         /\ reader' = [reader EXCEPT ![t] = r2]
         /\ r2.asset = r.asset /\ r2.floor = r.floor
         /\ \/ r2.loc \in {"waiting", "unpriced"}
            \/ r2.loc = "priced" /\ r2.quote = priceCache[r.asset]
  <2>1. CASE Fresh(r.asset)
    <3> DEFINE r2 == [r EXCEPT !.loc = "priced", !.quote = priceCache[r.asset]]
    <3>1. reader' = [reader EXCEPT ![t] = r2]
      BY <2>1 DEF FromCache
    <3>2. r2 \in ReaderShape /\ r2.asset = r.asset /\ r2.floor = r.floor /\ r2.loc = "priced"
            /\ r2.quote = priceCache[r.asset]
      BY <1>1 DEF ReaderShape
    <3> QED
      BY <3>1, <3>2
  <2>2. CASE ~Fresh(r.asset)
    <3> DEFINE loc2 == IF Failed(r.asset) THEN "unpriced" ELSE "waiting"
               r2 == [r EXCEPT !.loc = loc2]
    <3>1. reader' = [reader EXCEPT ![t] = r2]
      BY <2>2 DEF FromCache
    <3>2. r2 \in ReaderShape /\ r2.asset = r.asset /\ r2.floor = r.floor
            /\ r2.loc \in {"waiting", "unpriced"}
      BY DEF ReaderShape
    <3> QED
      BY <3>1, <3>2
  <2> QED
    BY <2>1, <2>2
<1>3. /\ reader' \in [Readers -> ReaderShape] /\ reader'[t] = r2
      /\ \A u \in Readers \ {t} : reader'[u] = reader[u]
  BY <1>1, <1>2
<1>4. \A u \in Readers : ReaderOk(u)'
  <2> SUFFICES ASSUME NEW u \in Readers PROVE ReaderOk(u)'
    OBVIOUS
  <2>1. CASE u # t
    BY <1>1, <1>3, <2>1 DEF ReaderOk
  <2>2. CASE u = t
    <3>1. AssetOk(r.asset)
      BY <1>1
    <3>2. priceCache[r.asset].time <= clock /\ priceCache[r.asset].at \in Int
      BY <3>1, <1>1 DEF AssetOk, Observation
    <3> QED
      BY <1>1, <1>2, <1>3, <2>2, <3>2 DEF ReaderOk
  <2> QED
    BY <2>1, <2>2
<1>5. \A a \in Quoted : AssetOk(a)'
  <2> SUFFICES ASSUME NEW a \in Quoted PROVE AssetOk(a)'
    OBVIOUS
  <2>1. IsFetched(a) => IsFetched(a)'
    <3> SUFFICES ASSUME NEW u \in fetching[LockOf[a]], reader[u].asset = a,
                        reader[u].loc \in {"live", "fallback"}
                 PROVE  IsFetched(a)'
      BY DEF IsFetched
    <3>1. u \in Readers /\ u # t
      BY <1>1, QuotesInvParts, QuoteConstants
    <3> QED
      BY <3>1, <1>3 DEF IsFetched
  <2> QED
    BY <2>1, <1>1 DEF AssetOk
<1> QED
  <2>1. /\ clock' \in Nat /\ priceCache' \in [Quoted -> Observation]
        /\ quoteFailures' \in [Quoted -> Int] /\ newest' \in [Quoted -> Int] /\ began' \in [Quoted -> Int]
        /\ fetching' \in [Locks -> SUBSET Readers] /\ hurried' = {} /\ misled' = {}
    BY QuotesInvParts
  <2> QED
    BY <1>3, <1>4, <1>5, <2>1, QuotesInvNext

(* The fetch of an asset that is neither fresh nor failed is not hurried:  *)
(* had its last fetch begun within a TTL, what that came to would be       *)
(* remembered, or it would hold the lock.                                  *)
LEMMA BeginStep ==
    ASSUME QuotesInv, NEW t \in Readers, NEW a \in Quoted, a = reader[t].asset,
           reader[t].loc = "waiting", fetching[LockOf[a]] = {}, ~Fresh(a), ~Failed(a), Begin(t, a),
           UNCHANGED <<clock, priceCache, quoteFailures, newest, misled>>
    PROVE  QuotesInv'
<1>1. /\ clock \in Nat /\ priceCache \in [Quoted -> Observation] /\ reader \in [Readers -> ReaderShape]
      /\ quoteFailures \in [Quoted -> Int] /\ newest \in [Quoted -> Int] /\ began \in [Quoted -> Int]
      /\ fetching \in [Locks -> SUBSET Readers] /\ hurried = {} /\ misled = {}
      /\ \A u \in Readers : ReaderOk(u)
      /\ \A b \in Quoted : AssetOk(b)
  BY QuotesInvParts
<1>2. /\ reader' \in [Readers -> ReaderShape]
      /\ reader'[t].loc = "live" /\ reader'[t].when = clock /\ reader'[t].asset = a
      /\ reader'[t].floor = reader[t].floor
      /\ \A u \in Readers \ {t} : reader'[u] = reader[u]
  <2> DEFINE r2 == [reader[t] EXCEPT !.loc = "live", !.when = clock]
  <2>1. reader' = [reader EXCEPT ![t].loc = "live", ![t].when = clock]
    BY DEF Begin
  <2>2. reader' = [reader EXCEPT ![t] = r2]
    BY <2>1, <1>1 DEF ReaderShape
  <2>3. /\ r2 \in ReaderShape /\ r2.loc = "live" /\ r2.when = clock
        /\ r2.asset = a /\ r2.floor = reader[t].floor
    <3>1. reader[t] \in ReaderShape /\ clock \in Int
      BY <1>1
    <3> QED
      BY <3>1 DEF ReaderShape
  <2> QED
    BY <1>1, <2>2, <2>3
<1>3. /\ fetching' \in [Locks -> SUBSET Readers] /\ fetching'[LockOf[a]] = {t}
      /\ \A l \in Locks \ {LockOf[a]} : fetching'[l] = fetching[l]
      /\ began' \in [Quoted -> Int] /\ began'[a] = clock
      /\ \A b \in Quoted \ {a} : began'[b] = began[b]
  BY <1>1, QuoteConstants DEF Begin
<1>4. \A u \in Readers \ {t} : reader[u].loc \in {"live", "fallback"} => LockOf[reader[u].asset] # LockOf[a]
  BY <1>1 DEF ReaderOk
<1>5. hurried' = {}
  <2>1. SUFFICES ASSUME began[a] # Unknown, clock - began[a] < CacheTTL PROVE FALSE
    BY <1>1 DEF Begin
  <2>2. AssetOk(a) /\ ~IsFetched(a)
    BY <1>1 DEF IsFetched
  <2>3. priceCache[a].at = began[a] \/ quoteFailures[a] = began[a]
    BY <2>1, <2>2, <1>1, QuoteConstants DEF AssetOk
  <2>4. CASE priceCache[a].at = began[a]
    <3>1. priceCache[a] # NoQuote
      BY <2>1, <2>4, QuoteConstants DEF Unknown
    <3> QED
      BY <2>1, <2>4, <3>1 DEF Fresh
  <2>5. CASE quoteFailures[a] = began[a]
    <3>1. clock - quoteFailures[a] < FailureTTL
      BY <2>1, <2>5, <1>1, QuoteConstants
    <3> QED
      BY <2>1, <2>5, <3>1 DEF Failed
  <2> QED
    BY <2>3, <2>4, <2>5
<1>6. ASSUME NEW u \in Readers PROVE ReaderOk(u)'
  <2>1. CASE u = t
    <3>1. reader[t].floor <= priceCache[a].at /\ priceCache[a].at <= clock
      <4>1. AssetOk(a) /\ ReaderOk(t) /\ priceCache[a].at \in Int /\ began[a] \in Int
        BY <1>1 DEF Observation
      <4> QED
        BY <4>1, <1>1 DEF AssetOk, ReaderOk
    <3> QED
      BY <2>1, <3>1, <1>2, <1>3 DEF ReaderOk
  <2>2. CASE u # t
    <3>1. ReaderOk(u) /\ reader'[u] = reader[u]
      BY <1>1, <1>2, <2>2
    <3>2. CASE reader[u].loc \in {"live", "fallback"}
      <4>1. /\ reader[u].asset \in Quoted /\ LockOf[reader[u].asset] \in Locks
            /\ LockOf[reader[u].asset] # LockOf[a] /\ reader[u].asset # a
        BY <3>1, <3>2, <1>4, <2>2, QuoteConstants DEF ReaderOk
      <4>2. /\ fetching'[LockOf[reader[u].asset]] = fetching[LockOf[reader[u].asset]]
            /\ began'[reader[u].asset] = began[reader[u].asset]
        BY <4>1, <1>3
      <4> QED
        BY <3>1, <4>2 DEF ReaderOk
    <3>3. CASE reader[u].loc \notin {"live", "fallback"}
      BY <3>1, <3>3 DEF ReaderOk
    <3> QED
      BY <3>2, <3>3
  <2> QED
    BY <2>1, <2>2
<1>7. ASSUME NEW b \in Quoted PROVE AssetOk(b)'
  <2>0. AssetOk(b) /\ AssetOk(a) /\ priceCache[a].at \in Int /\ began[a] \in Int
    BY <1>1 DEF Observation
  <2>1. CASE b = a
    <3>1. IsFetched(a)'
      BY <1>2, <1>3 DEF IsFetched
    <3>2. began[a] <= clock /\ priceCache[a].at <= clock
      BY <2>0, <1>1 DEF AssetOk
    <3> QED
      BY <2>0, <2>1, <3>1, <3>2, <1>1, <1>3 DEF AssetOk
  <2>2. CASE b # a
    <3>1. IsFetched(b) => IsFetched(b)'
      <4> SUFFICES ASSUME NEW u \in fetching[LockOf[b]], reader[u].asset = b,
                          reader[u].loc \in {"live", "fallback"}
                   PROVE  IsFetched(b)'
        BY DEF IsFetched
      <4>1. u \in Readers /\ u # t /\ LockOf[b] # LockOf[a] /\ LockOf[b] \in Locks
        BY <1>1, QuoteConstants
      <4>2. u \in fetching'[LockOf[b]] /\ reader'[u] = reader[u]
        BY <4>1, <1>2, <1>3
      <4> QED
        BY <4>2 DEF IsFetched
    <3>2. began'[b] = began[b]
      BY <2>2, <1>3
    <3> QED
      BY <2>0, <3>1, <3>2 DEF AssetOk
  <2> QED
    BY <2>1, <2>2
<1> QED
  BY <1>1, <1>2, <1>3, <1>5, <1>6, <1>7, QuotesInvNext

(* The fetch of reader t is over: it holds no lock, and what it came to is *)
(* remembered as the price or the failure of its asset, with the time at   *)
(* which it began.                                                         *)
LEMMA FetchedStep ==
    ASSUME QuotesInv, NEW t \in Readers, reader[t].loc \in {"live", "fallback"},
           NEW a, a = reader[t].asset, NEW q \in Observation, NEW loc2,
           fetching' = [fetching EXCEPT ![LockOf[a]] = {}],
           reader' = [reader EXCEPT ![t].loc = loc2, ![t].quote = q],
           priceCache' \in [Quoted -> Observation], quoteFailures' \in [Quoted -> Int],
           \A b \in Quoted \ {a} : priceCache'[b] = priceCache[b],
           \/ /\ loc2 = "priced" /\ priceCache'[a] = q /\ q.at = reader[t].when /\ q.time <= clock
           \/ loc2 = "unpriced" /\ priceCache'[a] = priceCache[a] /\ quoteFailures'[a] = reader[t].when,
           \A b \in Quoted \ {a} :
              \/ quoteFailures'[b] = quoteFailures[b]
              \/ reader[t].when - quoteFailures[b] >= FailureTTL,
           UNCHANGED <<clock, newest, began, hurried, misled>>
    PROVE  QuotesInv'
<1>1. /\ clock \in Nat /\ priceCache \in [Quoted -> Observation] /\ reader \in [Readers -> ReaderShape]
      /\ quoteFailures \in [Quoted -> Int] /\ newest \in [Quoted -> Int] /\ began \in [Quoted -> Int]
      /\ fetching \in [Locks -> SUBSET Readers] /\ hurried = {} /\ misled = {}
      /\ \A u \in Readers : ReaderOk(u)
      /\ \A b \in Quoted : AssetOk(b)
  BY QuotesInvParts
<1>2. /\ a \in Quoted /\ fetching[LockOf[a]] = {t} /\ reader[t].when = began[a]
      /\ priceCache[a].at <= reader[t].when /\ reader[t].floor <= priceCache[a].at
  <2>1. ReaderOk(t)
    BY <1>1
  <2> QED
    BY <2>1 DEF ReaderOk
<1>3. /\ began[a] \in Int /\ began[a] <= clock /\ priceCache[a].at \in Int /\ priceCache'[a].at \in Int
      /\ priceCache[a].at <= priceCache'[a].at /\ priceCache'[a].at <= began[a]
      /\ reader[t].floor \in Int
  <2>1. AssetOk(a)
    BY <1>1, <1>2
  <2> QED
    BY <2>1, <1>1, <1>2 DEF AssetOk, Observation, ReaderShape
<1>4. /\ reader' \in [Readers -> ReaderShape]
      /\ reader'[t].loc = loc2 /\ reader'[t].asset = a /\ reader'[t].quote = q
      /\ reader'[t].floor = reader[t].floor
      /\ \A u \in Readers \ {t} : reader'[u] = reader[u]
  BY <1>1, ZenonT(60) DEF ReaderShape
<1>5. /\ fetching' \in [Locks -> SUBSET Readers]
      /\ \A l \in Locks \ {LockOf[a]} : fetching'[l] = fetching[l]
  BY <1>1
<1>6. ASSUME NEW u \in Readers PROVE ReaderOk(u)'
  <2>1. CASE u = t
    BY <2>1, <1>2, <1>3, <1>4 DEF ReaderOk
  <2>2. CASE u # t
    <3>1. ReaderOk(u) /\ reader'[u] = reader[u]
      BY <1>1, <1>4, <2>2
    <3>2. CASE reader[u].loc \in {"live", "fallback"}
      <4>1. /\ reader[u].asset \in Quoted /\ LockOf[reader[u].asset] \in Locks
            /\ LockOf[reader[u].asset] # LockOf[a] /\ reader[u].asset # a
        BY <3>1, <3>2, <2>2, <1>2, QuoteConstants DEF ReaderOk
      <4>2. /\ fetching'[LockOf[reader[u].asset]] = fetching[LockOf[reader[u].asset]]
            /\ priceCache'[reader[u].asset] = priceCache[reader[u].asset]
        BY <4>1, <1>5
      <4> QED
        BY <3>1, <4>2 DEF ReaderOk
    <3>3. CASE reader[u].loc \notin {"live", "fallback", "idle"}
      <4> DEFINE b == reader[u].asset
      <4>1. /\ b \in Quoted /\ reader[u].floor <= priceCache[b].at
            /\ reader[u].loc = "priced" =>
                  /\ reader[u].floor <= reader[u].quote.at /\ reader[u].quote.at <= priceCache[b].at
                  /\ reader[u].quote.time <= clock
        BY <3>1, <3>3 DEF ReaderOk
      <4>2. /\ reader[u].floor \in Int /\ reader[u].quote.at \in Int /\ priceCache[b].at \in Int
            /\ priceCache'[b].at \in Int
        BY <4>1, <1>1 DEF ReaderShape, Observation
      <4>3. priceCache[b].at <= priceCache'[b].at
        BY <4>1, <4>2, <1>3
      <4>4. /\ reader[u].floor <= priceCache'[b].at
            /\ reader[u].loc = "priced" => reader[u].quote.at <= priceCache'[b].at
        BY <4>1, <4>2, <4>3
      <4> QED
        BY <3>1, <3>3, <4>1, <4>4 DEF ReaderOk
    <3>4. CASE reader[u].loc = "idle"
      BY <3>1, <3>4 DEF ReaderOk
    <3> QED
      BY <3>2, <3>3, <3>4
  <2> QED
    BY <2>1, <2>2
<1>7. ASSUME NEW b \in Quoted PROVE AssetOk(b)'
  <2>0. /\ AssetOk(b) /\ AssetOk(a) /\ priceCache[b].at \in Int /\ began[b] \in Int
        /\ newest[b] \in Int /\ quoteFailures[b] \in Int
    BY <1>1, <1>2 DEF Observation
  <2>1. CASE b = a
    <3>1. priceCache'[a].at = began[a] \/ quoteFailures'[a] = began[a]
      BY <1>2
    <3>2. priceCache'[a].time <= clock
      BY <2>0 DEF AssetOk
    <3> QED
      BY <2>0, <2>1, <3>1, <3>2, <1>1, <1>3 DEF AssetOk, Unknown
  <2>2. CASE b # a
    <3>1. IsFetched(b) => IsFetched(b)'
      <4> SUFFICES ASSUME NEW u \in fetching[LockOf[b]], reader[u].asset = b,
                          reader[u].loc \in {"live", "fallback"}
                   PROVE  IsFetched(b)'
        BY DEF IsFetched
      <4>1. u \in Readers /\ u # t /\ LockOf[b] # LockOf[a] /\ LockOf[b] \in Locks
        BY <2>2, <1>1, <1>2, QuoteConstants
      <4>2. u \in fetching'[LockOf[b]] /\ reader'[u] = reader[u]
        BY <4>1, <1>4, <1>5
      <4> QED
        BY <4>2 DEF IsFetched
    <3>2. priceCache'[b] = priceCache[b] /\ began' = began /\ newest' = newest /\ clock' = clock
      BY <2>2
    <3>3. quoteFailures[b] = began[b] => quoteFailures'[b] = began[b] \/ clock - began[b] >= CacheTTL
      BY <2>0, <2>2, <1>1, <1>2, <1>3, QuoteConstants
    <3> QED
      BY <2>0, <3>1, <3>2, <3>3 DEF AssetOk
  <2> QED
    BY <2>1, <2>2
<1> QED
  BY <1>1, <1>4, <1>5, <1>6, <1>7, QuotesInvNext

(* A call is answered with an observation no newer than the cache's. *)
LEMMA AnswerStep ==
    ASSUME QuotesInv, NEW t \in Readers, reader[t].loc \in {"priced", "unpriced"}, NEW q \in Observation,
           q.at <= priceCache[reader[t].asset].at, AnswerWith(t, q), misled' = {}
    PROVE  QuotesInv'
<1>1. /\ clock \in Nat /\ priceCache \in [Quoted -> Observation] /\ reader \in [Readers -> ReaderShape]
      /\ quoteFailures \in [Quoted -> Int] /\ newest \in [Quoted -> Int] /\ began \in [Quoted -> Int]
      /\ fetching \in [Locks -> SUBSET Readers] /\ hurried = {} /\ misled = {}
      /\ \A u \in Readers : ReaderOk(u)
      /\ \A b \in Quoted : AssetOk(b)
  BY QuotesInvParts
<1> DEFINE a == reader[t].asset
<1>2. a \in Quoted
  <2>1. ReaderOk(t)
    BY <1>1
  <2> QED
    BY <2>1 DEF ReaderOk
<1>3. /\ reader' \in [Readers -> ReaderShape] /\ reader'[t].loc = "idle"
      /\ \A u \in Readers \ {t} : reader'[u] = reader[u]
  BY <1>1, QuoteConstants DEF AnswerWith
<1>4. newest' \in [Quoted -> Int] /\ \A b \in Quoted : newest'[b] <= priceCache[b].at
  <2>1. newest' = [newest EXCEPT ![a] = IF q.at > newest[a] THEN q.at ELSE newest[a]]
    BY DEF AnswerWith
  <2>2. \A b \in Quoted : AssetOk(b) /\ priceCache[b].at \in Int
    BY <1>1 DEF Observation
  <2>3. q.at \in Int /\ newest[a] \in Int
    BY <1>1, <1>2 DEF Observation
  <2> QED
    BY <2>1, <2>2, <2>3, <1>1, <1>2 DEF AssetOk
<1>5. UNCHANGED <<clock, priceCache, quoteFailures, fetching, began, hurried>>
  BY DEF AnswerWith
<1>6. ASSUME NEW u \in Readers PROVE ReaderOk(u)'
  BY <1>1, <1>3, <1>5 DEF ReaderOk
<1>7. ASSUME NEW b \in Quoted PROVE AssetOk(b)'
  <2>1. IsFetched(b) => IsFetched(b)'
    <3>1. fetching[LockOf[b]] \subseteq Readers
      BY <1>1, QuoteConstants
    <3> QED
      BY <3>1, <1>3, <1>5 DEF IsFetched
  <2> QED
    BY <2>1, <1>1, <1>4, <1>5 DEF AssetOk
<1> QED
  BY <1>1, <1>3, <1>4, <1>5, <1>6, <1>7, QuotesInvNext

(* A tick of the clock only makes what is remembered older. *)
LEMMA QuoteTickStep == QuotesInv /\ QuoteTick => QuotesInv'
<1> SUFFICES ASSUME QuotesInv, QuoteTick PROVE QuotesInv'
  OBVIOUS
<1>1. /\ clock \in Nat /\ priceCache \in [Quoted -> Observation] /\ reader \in [Readers -> ReaderShape]
      /\ quoteFailures \in [Quoted -> Int] /\ newest \in [Quoted -> Int] /\ began \in [Quoted -> Int]
      /\ fetching \in [Locks -> SUBSET Readers] /\ hurried = {} /\ misled = {}
      /\ \A u \in Readers : ReaderOk(u)
      /\ \A b \in Quoted : AssetOk(b)
  BY QuotesInvParts
<1>2. /\ clock' = clock + 1
      /\ UNCHANGED <<priceCache, quoteFailures, fetching, reader, newest, began, hurried, misled>>
  BY DEF QuoteTick
<1>3. ASSUME NEW u \in Readers PROVE ReaderOk(u)'
  <2>1. ReaderOk(u) /\ reader[u].quote.time \in Int
    BY <1>1 DEF ReaderShape, Observation
  <2> QED
    BY <2>1, <1>1, <1>2 DEF ReaderOk
<1>4. ASSUME NEW b \in Quoted PROVE AssetOk(b)'
  <2>1. AssetOk(b) /\ priceCache[b].time \in Int /\ began[b] \in Int
    BY <1>1 DEF Observation
  <2>2. IsFetched(b)' <=> IsFetched(b)
    BY <1>2 DEF IsFetched
  <2> QED
    BY <2>1, <2>2, <1>1, <1>2, QuoteConstants DEF AssetOk
<1> QED
  BY <1>1, <1>2, <1>3, <1>4, QuotesInvNext

(* Every step of the quotes keeps their invariant. *)
LEMMA QuotesStep == QuotesInv /\ QuotesNext => QuotesInv'
<1> SUFFICES ASSUME QuotesInv, QuotesNext PROVE QuotesInv'
  OBVIOUS
<1>1. /\ clock \in Nat /\ priceCache \in [Quoted -> Observation] /\ reader \in [Readers -> ReaderShape]
      /\ quoteFailures \in [Quoted -> Int] /\ newest \in [Quoted -> Int] /\ began \in [Quoted -> Int]
      /\ fetching \in [Locks -> SUBSET Readers] /\ hurried = {} /\ misled = {}
      /\ \A u \in Readers : ReaderOk(u)
      /\ \A b \in Quoted : AssetOk(b)
  BY QuotesInvParts
<1>2. ASSUME NEW t \in Readers, NEW a \in Quoted, ReadQuote(t, a) PROVE QuotesInv'
  <2> DEFINE r == [Idle EXCEPT !.asset = a, !.floor = newest[a]]
  <2>1. r \in ReaderShape /\ r.asset = a /\ r.floor = newest[a]
    BY <1>1, QuoteConstants DEF ReaderShape
  <2>2. newest[a] <= priceCache[a].at
    BY <1>1 DEF AssetOk
  <2>3. reader[t].loc = "idle" /\ FromCache(t, r, "waiting")
        /\ UNCHANGED <<clock, priceCache, quoteFailures, fetching, newest, began, hurried, misled>>
    BY <1>2 DEF ReadQuote
  <2> HIDE DEF r
  <2> QED
    BY <2>1, <2>2, <2>3, FromCacheStep
<1>3. ASSUME NEW t \in Readers, TakeFetchLock(t) PROVE QuotesInv'
  <2> DEFINE a == reader[t].asset
  <2>1. reader[t].loc = "waiting" /\ fetching[LockOf[a]] = {} /\ reader[t] \in ReaderShape
    BY <1>1, <1>3 DEF TakeFetchLock
  <2>2. a \in Quoted /\ reader[t].floor <= priceCache[a].at
    BY <1>1, <2>1 DEF ReaderOk
  <2>3. CASE Fresh(a) \/ Failed(a)
    <3>1. FromCache(t, reader[t], "waiting")
          /\ UNCHANGED <<clock, priceCache, quoteFailures, fetching, newest, began, hurried, misled>>
      BY <1>3, <2>3 DEF TakeFetchLock
    <3> QED
      BY <2>1, <2>2, <3>1, FromCacheStep
  <2>4. CASE ~(Fresh(a) \/ Failed(a))
    <3>1. Begin(t, a) /\ UNCHANGED <<clock, priceCache, quoteFailures, newest, misled>>
      BY <1>3, <2>4 DEF TakeFetchLock
    <3> QED
      BY <2>1, <2>2, <2>4, <3>1, BeginStep
  <2> QED
    BY <2>3, <2>4
<1>4. ASSUME NEW t \in Readers, reader[t].loc \in {"live", "fallback"}, NEW time \in Int, time <= clock,
             Store(t, time), UNCHANGED <<clock, newest, began, hurried, misled>>
      PROVE  QuotesInv'
  <2> DEFINE a == reader[t].asset
             q == [at |-> reader[t].when, time |-> time]
  <2>1. q \in Observation /\ q.at = reader[t].when /\ q.time <= clock
    BY <1>1, <1>4 DEF Observation, ReaderShape
  <2>2. a \in Quoted
    BY <1>1, <1>4 DEF ReaderOk
  <2>3. /\ priceCache' = [priceCache EXCEPT ![a] = q]
        /\ quoteFailures' = [quoteFailures EXCEPT ![a] = -1]
        /\ fetching' = [fetching EXCEPT ![LockOf[a]] = {}]
        /\ reader' = [reader EXCEPT ![t].loc = "priced", ![t].quote = q]
    BY <1>4 DEF Store, Unknown
  <2> HIDE DEF q
  <2>4. /\ priceCache' \in [Quoted -> Observation] /\ priceCache'[a] = q
        /\ \A b \in Quoted \ {a} : priceCache'[b] = priceCache[b]
        /\ quoteFailures' \in [Quoted -> Int]
        /\ \A b \in Quoted \ {a} : quoteFailures'[b] = quoteFailures[b]
    BY <1>1, <2>1, <2>2, <2>3
  <2> QED
    BY <1>4, <2>1, <2>3, <2>4, FetchedStep
<1>5. ASSUME NEW t \in Readers, LiveQuote(t) PROVE QuotesInv'
  <2>1. CASE \E time \in TradeTimes : Store(t, time)
    <3>1. \A time \in TradeTimes : time \in Int /\ time <= clock
      BY <1>1, QuoteConstants DEF TradeTimes
    <3>2. reader[t].loc = "live" /\ UNCHANGED <<clock, newest, began, hurried, misled>>
      BY <1>5 DEF LiveQuote
    <3> QED
      BY <2>1, <3>1, <3>2, <1>4
  <2>2. CASE /\ reader' = [reader EXCEPT ![t].loc = "fallback"]
             /\ UNCHANGED <<priceCache, quoteFailures, fetching>>
    <3>1. /\ UNCHANGED <<clock, priceCache, quoteFailures, fetching, newest, began, hurried, misled>>
          /\ reader[t].loc = "live"
      BY <1>5, <2>2 DEF LiveQuote
    <3>2. /\ reader' \in [Readers -> ReaderShape] /\ reader'[t].loc = "fallback"
          /\ reader'[t].asset = reader[t].asset /\ reader'[t].floor = reader[t].floor
          /\ reader'[t].when = reader[t].when
          /\ \A u \in Readers \ {t} : reader'[u] = reader[u]
      BY <1>1, <2>2 DEF ReaderShape
    <3>3. ASSUME NEW u \in Readers PROVE ReaderOk(u)'
      BY <1>1, <3>1, <3>2, ZenonT(60) DEF ReaderOk
    <3>4. ASSUME NEW b \in Quoted PROVE AssetOk(b)'
      <4>1. fetching[LockOf[b]] \subseteq Readers
        BY <1>1, QuoteConstants
      <4>2. IsFetched(b) => IsFetched(b)'
        BY <4>1, <3>1, <3>2 DEF IsFetched
      <4> QED
        BY <4>2, <1>1, <3>1 DEF AssetOk
    <3> QED
      BY <1>1, <3>1, <3>2, <3>3, <3>4, QuotesInvNext
  <2> QED
    BY <1>5, <2>1, <2>2 DEF LiveQuote
<1>6. ASSUME NEW t \in Readers, FallbackQuote(t) PROVE QuotesInv'
  <2> DEFINE a == reader[t].asset
  <2>1. reader[t].loc = "fallback" /\ UNCHANGED <<clock, newest, began, hurried, misled>>
    BY <1>6 DEF FallbackQuote
  <2>2. CASE Store(t, Unknown)
    <3>1. Unknown \in Int /\ Unknown <= clock
      BY <1>1 DEF Unknown
    <3> QED
      BY <2>1, <2>2, <3>1, <1>4
  <2>3. CASE /\ RememberFailure(a, reader[t].when)
             /\ fetching' = [fetching EXCEPT ![LockOf[a]] = {}]
             /\ reader' = [reader EXCEPT ![t].loc = "unpriced"]
             /\ UNCHANGED priceCache
    <3>1. a \in Quoted
      BY <1>1, <2>1 DEF ReaderOk
    <3>2. reader' = [reader EXCEPT ![t].loc = "unpriced", ![t].quote = reader[t].quote]
      BY <2>3, <1>1 DEF ReaderShape
    <3>3. reader[t].quote \in Observation /\ reader[t].when \in Int
      BY <1>1 DEF ReaderShape
    <3>4. /\ quoteFailures' \in [Quoted -> Int] /\ quoteFailures'[a] = reader[t].when
          /\ \A b \in Quoted \ {a} :
                \/ quoteFailures'[b] = quoteFailures[b]
                \/ reader[t].when - quoteFailures[b] >= FailureTTL
      BY <2>3, <3>1, <3>3, <1>1 DEF RememberFailure, Unknown
    <3> QED
      BY <2>1, <2>3, <3>2, <3>3, <3>4, <1>1, FetchedStep, ZenonT(60)
  <2> QED
    BY <1>6, <2>2, <2>3 DEF FallbackQuote
<1>7. ASSUME NEW t \in Readers, CheckAge(t) PROVE QuotesInv'
  <2> DEFINE q == reader[t].quote
  <2>1. reader[t].loc = "priced" /\ AnswerWith(t, q)
    BY <1>7 DEF CheckAge
  <2>2. q \in Observation /\ q.at <= priceCache[reader[t].asset].at /\ q.time <= clock /\ q.time \in Int
    BY <1>1, <2>1 DEF ReaderOk, ReaderShape, Observation
  <2>3. Executable(q) => q.time \in (clock - MaxQuoteAge)..clock
    BY <2>2, <1>1, QuoteConstants DEF Executable
  <2>4. misled' = {}
    BY <1>1, <1>7, <2>3 DEF CheckAge
  <2> QED
    BY <2>1, <2>2, <2>4, AnswerStep
<1>8. ASSUME NEW t \in Readers, FallBackOnCache(t) PROVE QuotesInv'
  <2>1. /\ reader[t].loc = "unpriced" /\ AnswerWith(t, priceCache[reader[t].asset]) /\ misled' = {}
    BY <1>1, <1>8 DEF FallBackOnCache
  <2>2. priceCache[reader[t].asset] \in Observation
    BY <1>1, <2>1 DEF ReaderOk
  <2>3. priceCache[reader[t].asset].at <= priceCache[reader[t].asset].at
    BY <2>2 DEF Observation
  <2> QED
    BY <2>1, <2>2, <2>3, AnswerStep
<1> QED
  BY <1>2, <1>3, <1>5, <1>6, <1>7, <1>8, QuoteTickStep DEF QuotesNext

-----------------------------------------------------------------------------
(* The invariant of the two: the quotes keep theirs in every part, and the *)
(* resting order is untouched in every part but its own.                   *)
PricesInv ==
    /\ QuotesInv
    /\ part = "resting" => RestInv
    /\ part # "resting" => order.type = "market" /\ status = "new"

(* The invariant gives the property. *)
LEMMA PricesInvSuffices == PricesInv => PricesAreHonest
<1> SUFFICES ASSUME PricesInv PROVE PricesAreHonest
  OBVIOUS
<1>1. FillsByTheRules
  <2>1. CASE part = "resting"
    BY <2>1, RestRules DEF PricesInv
  <2>2. CASE part # "resting"
    BY <2>2 DEF PricesInv, FillsByTheRules, ActionableIsExact, TriggerIsKept,
                PlacementAgreesWithSweep, LimitHoldsToHalfACent
  <2> QED
    BY <2>1, <2>2
<1>2. QuotesAreFresh
  <2>1. /\ \A u \in Readers : ReaderOk(u)
        /\ reader \in [Readers -> ReaderShape] /\ priceCache \in [Quoted -> Observation]
        /\ hurried = {} /\ misled = {}
    BY QuotesInvParts DEF PricesInv
  <2> QED
    BY <2>1 DEF QuotesAreFresh, ReaderOk, ReaderShape, Observation
<1> QED
  BY <1>1, <1>2 DEF PricesAreHonest

(* It holds at the start. *)
LEMMA PricesInvStart == VenueInit => PricesInv
<1> SUFFICES ASSUME VenueInit PROVE PricesInv
  OBVIOUS
<1>1. QuotesInv
  BY QuotesStart DEF VenueInit
<1>2. CASE part = "resting"
  <2>1. RestInit
    BY <1>2 DEF VenueInit
  <2>2. PICK type \in OrderTypes : order \in Given(type)
    BY <2>1 DEF RestInit
  <2>3. /\ order \in [side : Sides, type : {type}, limit : Prices \cup {NoPrice},
                      stop : Prices \cup {NoPrice}]
        /\ type \in {"limit", "stop_limit"} => order.limit # NoPrice
        /\ type \in {"stop", "stop_limit"} => order.stop # NoPrice
    BY <2>2 DEF Given
  <2>4. Prices \subseteq Nat \ {0} /\ NoPrice \in Nat
    BY PricesAssumption DEF NoPrice
  <2>5. order \in [side : Sides, type : OrderTypes, limit : Nat, stop : Nat] /\ order.type = type
    BY <2>3, <2>4
  <2> QED
    BY <1>1, <1>2, <2>1, <2>3, <2>4, <2>5 DEF PricesInv, RestInit, RestInv, LimitHoldsToHalfACent
<1>3. CASE part # "resting"
  BY <1>1, <1>3 DEF PricesInv, VenueInit, NothingRests
<1> QED
  BY <1>2, <1>3

(* It does not look at the exchange and the replay. *)
LEMMA PricesInvSame ==
    ASSUME PricesInv, UNCHANGED <<part, restVars, quoteVars>> PROVE PricesInv'
<1>1. QuotesInv'
  BY DEF PricesInv, quoteVars, QuotesInv, QuotesType, ReadersInv, CacheInv
<1>2. part = "resting" => RestInv'
  BY DEF PricesInv, restVars, RestInv, LimitHoldsToHalfACent
<1> QED
  BY <1>1, <1>2 DEF PricesInv, restVars

(* Every step keeps it. *)
LEMMA PricesInvStep == PricesInv /\ [VenueNext]_venueVars => PricesInv'
<1> SUFFICES ASSUME PricesInv, [VenueNext]_venueVars PROVE PricesInv'
  OBVIOUS
<1>1. CASE UNCHANGED venueVars
  BY <1>1, PricesInvSame DEF venueVars
<1>2. CASE VenueNext
  <2>1. CASE UNCHANGED <<restVars, quoteVars>>
    BY <1>2, <2>1, PricesInvSame DEF VenueNext
  <2>2. CASE part = "resting" /\ RestNext /\ UNCHANGED <<vars, replayVars, quoteVars>>
    <3>1. RestInv'
      BY <2>2, RestStep DEF PricesInv
    <3>2. QuotesInv'
      BY <2>2 DEF PricesInv, quoteVars, QuotesInv, QuotesType, ReadersInv, CacheInv
    <3> QED
      BY <1>2, <2>2, <3>1, <3>2 DEF VenueNext, PricesInv
  <2>3. CASE part = "quotes" /\ QuotesNext /\ UNCHANGED <<vars, replayVars, restVars>>
    <3>1. QuotesInv'
      BY <2>3, QuotesStep DEF PricesInv
    <3> QED
      BY <1>2, <2>3, <3>1 DEF VenueNext, PricesInv, restVars
  <2> QED
    BY <1>2, <2>1, <2>2, <2>3 DEF VenueNext
<1> QED
  BY <1>1, <1>2

(* An order of the paper broker fills only by the rules of its type and at *)
(* the price it was promised, and that price is a recent trade fetched     *)
(* once for all who ask: for every set of prices, readers, assets and      *)
(* locks, and every interleaving of the threads of get_last_price.         *)
THEOREM PricesStayHonest == VenueSpec => []PricesAreHonest
<1>1. VenueInit => PricesInv
  BY PricesInvStart
<1>2. PricesInv /\ [VenueNext]_venueVars => PricesInv'
  BY PricesInvStep
<1>3. PricesInv => PricesAreHonest
  BY PricesInvSuffices
<1> QED
  BY <1>1, <1>2, <1>3, PTL DEF VenueSpec

-----------------------------------------------------------------------------
(* The order book *)

(* A finite set of numbers that is not empty has a largest one. *)
LEMMA LargestExists ==
    ASSUME NEW S, IsFiniteSet(S), S \subseteq Int, S # {}
    PROVE  Max(S) \in S /\ \A y \in S : y <= Max(S)
<1> DEFINE G == {T \in SUBSET S : T # {} => \E m \in T : \A y \in T : y <= m}
<1>1. {} \in G
  OBVIOUS
<1>2. ASSUME NEW T \in SUBSET S, NEW z \in S \ T, T \in G PROVE T \cup {z} \in G
  <2>1. CASE T = {}
    BY <2>1
  <2>2. CASE T # {}
    <3>1. PICK m \in T : \A y \in T : y <= m
      BY <1>2, <2>2
    <3>2. CASE z <= m
      BY <3>1, <3>2
    <3>3. CASE ~(z <= m)
      <4>1. \A y \in T \cup {z} : y <= z
        BY <3>1, <3>3
      <4> QED
        BY <4>1
    <3> QED
      BY <3>2, <3>3
  <2> QED
    BY <2>1, <2>2
<1>3. S \in G
  <2> HIDE DEF G
  <2> QED
    BY <1>1, <1>2, SubsetsByOne
<1>4. \E m \in S : \A y \in S : m >= y
  BY <1>3
<1> QED
  BY <1>4 DEF Max

(* Orders and queue entries of an exchange have their types. *)
LEMMA ExchangeTypes ==
    ASSUME NEW s, ExchangeType(s)
    PROVE  /\ Len(s.orders) \in Nat /\ DOMAIN s.orders = 1..Len(s.orders)
           /\ \A n \in DOMAIN s.orders : s.orders[n] \in PaperOrder
           /\ \A i \in DOMAIN s.queue : s.queue[i] \in QueueEntry /\ i \in Nat
           /\ 0 \notin DOMAIN s.orders
<1>1. s.orders \in Seq(PaperOrder) /\ s.queue \in [DOMAIN s.queue -> QueueEntry] /\ DOMAIN s.queue \subseteq Nat
  BY DEF ExchangeType
<1> QED
  BY <1>1

(* A function on the numbers up to N is a sequence. *)
LEMMA OrdersAreSeq ==
    ASSUME NEW N \in Nat, NEW f \in [1..N -> PaperOrder]
    PROVE  f \in Seq(PaperOrder) /\ Len(f) = N
OBVIOUS

(* What is left of the entries adds up to a number. *)
LEMMA TotalType ==
    ASSUME NEW s, IsFiniteSet(DOMAIN s.queue), NEW I \in SUBSET DOMAIN s.queue,
           \A i \in I : Left(s, i) \in Nat
    PROVE  IsFiniteSet(I) /\ Total(s, I) \in Nat
<1>1. IsFiniteSet(I)
  BY FS_Subset
<1> DEFINE f == [i \in I |-> Left(s, i)]
<1>2. \A i \in I : f[i] \in Nat
  OBVIOUS
<1> HIDE DEF f
<1>3. SumFunctionOnSet(f, I) \in Nat
  BY <1>1, <1>2, SumCovers
<1> QED
  BY <1>1, <1>3 DEF Total, f

(* It depends on the entries only. *)
LEMMA TotalSame ==
    ASSUME NEW s, NEW t, NEW I, \A i \in I : Left(s, i) = Left(t, i)
    PROVE  Total(s, I) = Total(t, I)
<1>1. [i \in I |-> Left(s, i)] = [i \in I |-> Left(t, i)]
  OBVIOUS
<1> QED
  BY <1>1, Zenon DEF Total

(* What is left of an entry is a number, positive in a book that is in     *)
(* order.                                                                  *)
LEMMA LeftType ==
    ASSUME NEW s, BookInv(s)
    PROVE  \A i \in DOMAIN s.queue : Left(s, i) \in Nat /\ Left(s, i) > 0
<1> SUFFICES ASSUME NEW i \in DOMAIN s.queue PROVE Left(s, i) \in Nat /\ Left(s, i) > 0
  OBVIOUS
<1>1. ExchangeType(s) /\ EntryInv(s, i)
  BY DEF BookInv
<1>2. s.queue[i] \in QueueEntry /\ \A n \in DOMAIN s.orders : s.orders[n] \in PaperOrder
  BY <1>1, ExchangeTypes
<1>3. CASE s.queue[i].owner = "MARKET"
  BY <1>1, <1>2, <1>3 DEF EntryInv, Left, QueueEntry
<1>4. CASE s.queue[i].owner = "PAPER"
  <2>1. /\ s.queue[i].id \in DOMAIN s.orders
        /\ s.orders[s.queue[i].id].filled < s.orders[s.queue[i].id].qty
    BY <1>1, <1>4 DEF EntryInv
  <2> QED
    BY <1>2, <1>4, <2>1 DEF Left, Remaining, PaperOrder
<1> QED
  BY <1>2, <1>3, <1>4 DEF QueueEntry

-----------------------------------------------------------------------------
(* Pruning *)

(* The entries of the given levels may be exhausted, over, or misplaced;   *)
(* all else is in order.                                                   *)
EntryTouched(b, levels, i) ==
    LET e == b.queue[i]
        o == b.orders[e.id]
    IN /\ e.owner = "MARKET" => e.left > 0 \/ LevelOf(e) \in levels
       /\ e.owner = "PAPER" =>
             /\ e.id \in DOMAIN b.orders /\ MayRest(o, e) /\ RestsAt(b, e.id) = {i}
             /\ \/ o.status \in RESTING /\ o.filled < o.qty
                \/ o.status \notin ACTIVE /\ LevelOf(e) \in levels
             /\ o.ahead = Total(b, InFront(b, i)) \/ LevelOf(e) \in levels

(* A book of which levels are being changed *)
Touched(b, levels) ==
    /\ ExchangeType(b)
    /\ \A n \in DOMAIN b.orders : OrderInv(b.orders[n])
    /\ \A i \in DOMAIN b.queue : EntryTouched(b, levels, i)

(* Only queue positions of orders differ. *)
SameOrders(b, c) ==
    /\ DOMAIN c.orders = DOMAIN b.orders
    /\ \A n \in DOMAIN b.orders : c.orders[n] = [b.orders[n] EXCEPT !.ahead = c.orders[n].ahead]

(* Only the book and the orders differ. *)
SameAccount(b, c) ==
    /\ c.stops = b.stops /\ c.fills = b.fills /\ c.inflight = b.inflight
    /\ c.cash = b.cash /\ c.position = b.position /\ c.now = b.now

(* Refreshing levels gives the paper orders there their true positions.    *)
LEMMA RefreshDoes ==
    ASSUME NEW b, ExchangeType(b), NEW levels,
           \A i \in DOMAIN b.queue : Left(b, i) \in Nat,
           \A i \in DOMAIN b.queue : b.queue[i].owner = "PAPER" =>
               b.queue[i].id \in DOMAIN b.orders /\ RestsAt(b, b.queue[i].id) = {i}
    PROVE  LET c == Refresh(b, levels)
           IN /\ ExchangeType(c) /\ SameOrders(b, c) /\ SameAccount(b, c) /\ c.queue = b.queue
              /\ \A i \in DOMAIN b.queue : Left(c, i) = Left(b, i)
              /\ \A i \in DOMAIN b.queue : b.queue[i].owner = "PAPER" =>
                    IF LevelOf(b.queue[i]) \in levels
                    THEN c.orders[b.queue[i].id].ahead = Total(b, InFront(b, i))
                    ELSE c.orders[b.queue[i].id] = b.orders[b.queue[i].id]
<1> DEFINE at(n) == {i \in RestsAt(b, n) : LevelOf(b.queue[i]) \in levels}
           refreshed(n) == IF at(n) = {} THEN b.orders[n]
                           ELSE [b.orders[n] EXCEPT !.ahead = Total(b, InFront(b, CHOOSE i \in at(n) : TRUE))]
           c == Refresh(b, levels)
           os == [n \in DOMAIN b.orders |-> refreshed(n)]
<1>1. c = [b EXCEPT !.orders = os]
  BY DEF Refresh
<1>2. /\ Len(b.orders) \in Nat /\ DOMAIN b.orders = 1..Len(b.orders)
      /\ \A n \in DOMAIN b.orders : b.orders[n] \in PaperOrder
  BY ExchangeTypes
<1>3. "orders" \in DOMAIN b
  BY DEF ExchangeType
<1>4. c.orders = os /\ c.queue = b.queue /\ SameAccount(b, c) /\ DOMAIN c = DOMAIN b
  <2> HIDE DEF os, c
  <2> QED
    BY <1>1, <1>3 DEF SameAccount
<1>5. ASSUME NEW n \in DOMAIN b.orders
      PROVE  refreshed(n) \in PaperOrder /\ refreshed(n) = [b.orders[n] EXCEPT !.ahead = refreshed(n).ahead]
  <2>0. b.orders[n] \in PaperOrder
    BY <1>2
  <2>1. CASE at(n) = {}
    BY <2>0, <2>1 DEF PaperOrder
  <2>2. CASE at(n) # {}
    <3>1. PICK i \in DOMAIN b.queue : i = CHOOSE j \in at(n) : TRUE
      BY <2>2 DEF RestsAt
    <3>2. InFront(b, i) \in SUBSET DOMAIN b.queue /\ IsFiniteSet(DOMAIN b.queue)
      BY DEF InFront, ExchangeType
    <3>3. Total(b, InFront(b, i)) \in Nat
      BY <3>2, TotalType
    <3>4. refreshed(n) = [b.orders[n] EXCEPT !.ahead = Total(b, InFront(b, i))]
      BY <2>2, <3>1
    <3> HIDE DEF refreshed
    <3> QED
      BY <2>0, <3>3, <3>4 DEF PaperOrder
  <2> QED
    BY <2>1, <2>2
<1>6. os \in [1..Len(b.orders) -> PaperOrder]
  BY <1>2, <1>5
<1>7. os \in Seq(PaperOrder)
  <2> HIDE DEF os
  <2> QED
    BY <1>2, <1>6, OrdersAreSeq
<1>8. ExchangeType(c)
  <2>1. DOMAIN os = DOMAIN b.orders
    OBVIOUS
  <2> HIDE DEF os, c
  <2> QED
    BY <1>4, <1>7, <2>1 DEF ExchangeType, SameAccount
<1>9. SameOrders(b, c)
  BY <1>4, <1>5 DEF SameOrders
<1>10. ASSUME NEW i \in DOMAIN b.queue PROVE Left(c, i) = Left(b, i)
  <2>1. CASE b.queue[i].owner = "PAPER"
    <3>1. b.queue[i].id \in DOMAIN b.orders
      BY <2>1
    <3>2. b.orders[b.queue[i].id] \in PaperOrder
      BY <1>2, <3>1
    <3> HIDE DEF c, os
    <3>3. /\ c.orders[b.queue[i].id].qty = b.orders[b.queue[i].id].qty
          /\ c.orders[b.queue[i].id].filled = b.orders[b.queue[i].id].filled
      BY <1>9, <3>1, <3>2 DEF SameOrders, PaperOrder
    <3> QED
      BY <1>4, <2>1, <3>3 DEF Left, Remaining
  <2>2. CASE b.queue[i].owner # "PAPER"
    <3> HIDE DEF c, os
    <3> QED
      BY <1>4, <2>2 DEF Left
  <2> QED
    BY <2>1, <2>2
<1>11. ASSUME NEW i \in DOMAIN b.queue, b.queue[i].owner = "PAPER"
       PROVE  IF LevelOf(b.queue[i]) \in levels
              THEN c.orders[b.queue[i].id].ahead = Total(b, InFront(b, i))
              ELSE c.orders[b.queue[i].id] = b.orders[b.queue[i].id]
  <2> DEFINE n == b.queue[i].id
  <2>1. n \in DOMAIN b.orders /\ RestsAt(b, n) = {i} /\ b.orders[n] \in PaperOrder
    BY <1>2, <1>11
  <2>2. c.orders[n] = refreshed(n)
    BY <1>4, <2>1
  <2>3. CASE LevelOf(b.queue[i]) \in levels
    <3>1. at(n) = {i}
      BY <2>1, <2>3
    <3>2. refreshed(n) = [b.orders[n] EXCEPT !.ahead = Total(b, InFront(b, i))]
      BY <3>1
    <3> HIDE DEF refreshed, n, c, os
    <3> QED
      BY <2>1, <2>2, <2>3, <3>2 DEF PaperOrder, n
  <2>4. CASE LevelOf(b.queue[i]) \notin levels
    <3>1. at(n) = {}
      BY <2>1, <2>4
    <3> HIDE DEF at, c, os
    <3> QED
      BY <2>2, <2>4, <3>1
  <2> QED
    BY <2>3, <2>4
<1> HIDE DEF c, os
<1> QED
  BY <1>4, <1>8, <1>9, <1>10, <1>11 DEF c

(* Pruning leaves a book that is in order: who is exhausted or over is     *)
(* gone, who stays has its true position, nothing else has changed.        *)
LEMMA PruneKeeps ==
    ASSUME NEW b, NEW levels, Touched(b, levels)
    PROVE  LET c == Prune(b, levels)
           IN /\ BookInv(c) /\ SameOrders(b, c) /\ SameAccount(b, c)
              /\ \A n \in DOMAIN b.orders :
                    RestsAt(c, n) = IF b.orders[n].status \in RESTING THEN RestsAt(b, n) ELSE {}
<1> DEFINE stays(i) == \/ LevelOf(b.queue[i]) \notin levels
                       \/ /\ Left(b, i) > 0
                          /\ b.queue[i].owner = "PAPER" => b.orders[b.queue[i].id].status \in ACTIVE
           K == {i \in DOMAIN b.queue : stays(i)}
           q == Restrict(b.queue, K)
           d == [b EXCEPT !.queue = q]
           c == Refresh(d, levels)
<1>1. Prune(b, levels) = c
  BY DEF Prune
<1>2. DOMAIN q = K /\ \A i \in K : q[i] = b.queue[i]
  BY DEF Restrict
<1>3. ExchangeType(b) /\ \A i \in DOMAIN b.queue : EntryTouched(b, levels, i)
  BY DEF Touched
<1>4. /\ \A n \in DOMAIN b.orders : b.orders[n] \in PaperOrder
      /\ \A i \in DOMAIN b.queue : b.queue[i] \in QueueEntry /\ i \in Nat
  BY <1>3, ExchangeTypes
<1> HIDE DEF q
<1>5. d.queue = q /\ d.orders = b.orders /\ SameAccount(b, d) /\ DOMAIN d = DOMAIN b
  <2>1. "queue" \in DOMAIN b
    BY <1>3 DEF ExchangeType
  <2> QED
    BY <2>1 DEF SameAccount
<1> HIDE DEF d
<1>6. ExchangeType(d)
  <2>1. IsFiniteSet(K) /\ K \subseteq Nat
    BY <1>3, <1>4, FS_Subset DEF ExchangeType
  <2>2. q \in [K -> QueueEntry]
    BY <1>2, <1>4 DEF q, Restrict
  <2> HIDE DEF K
  <2> QED
    BY <1>2, <1>3, <1>5, <2>1, <2>2 DEF ExchangeType, SameAccount
<1>7. ASSUME NEW i \in K
      PROVE  /\ Left(d, i) = Left(b, i) /\ Left(b, i) \in Nat /\ Left(b, i) > 0
             /\ b.queue[i].owner = "PAPER" =>
                   /\ b.queue[i].id \in DOMAIN b.orders /\ RestsAt(b, b.queue[i].id) = {i}
                   /\ MayRest(b.orders[b.queue[i].id], b.queue[i])
                   /\ b.orders[b.queue[i].id].status \in RESTING
                   /\ b.orders[b.queue[i].id].filled < b.orders[b.queue[i].id].qty
                   /\ RestsAt(d, b.queue[i].id) = {i}
  <2>1. i \in DOMAIN b.queue /\ q[i] = b.queue[i] /\ stays(i) /\ b.queue[i] \in QueueEntry
    BY <1>2, <1>4
  <2>2. EntryTouched(b, levels, i)
    BY <1>3, <2>1
  <2>3. Left(d, i) = Left(b, i)
    BY <1>5, <2>1 DEF Left, Remaining
  <2>4. CASE b.queue[i].owner = "PAPER"
    <3> DEFINE n == b.queue[i].id
    <3>1. n \in DOMAIN b.orders /\ RestsAt(b, n) = {i} /\ MayRest(b.orders[n], b.queue[i])
      BY <2>2, <2>4 DEF EntryTouched
    <3>2. b.orders[n].status \in RESTING /\ b.orders[n].filled < b.orders[n].qty
      BY <2>1, <2>2, <2>4 DEF EntryTouched
    <3>3. b.orders[n] \in PaperOrder
      BY <1>4, <3>1
    <3>4. Left(b, i) \in Nat /\ Left(b, i) > 0
      BY <2>4, <3>2, <3>3 DEF Left, Remaining, PaperOrder
    <3>5. RestsAt(d, n) = {i}
      <4>1. \A j \in K : IsPaper(q[j], n) => j \in RestsAt(b, n)
        BY <1>2 DEF RestsAt
      <4>2. IsPaper(q[i], n)
        BY <2>1, <2>4 DEF IsPaper
      <4>3. RestsAt(d, n) = {j \in K : IsPaper(q[j], n)}
        BY <1>2, <1>5 DEF RestsAt
      <4> HIDE DEF K, n
      <4> QED
        BY <3>1, <4>1, <4>2, <4>3
    <3> QED
      BY <2>3, <2>4, <3>1, <3>2, <3>4, <3>5
  <2>5. CASE b.queue[i].owner # "PAPER"
    <3>1. b.queue[i].owner = "MARKET" /\ Left(b, i) = b.queue[i].left /\ b.queue[i].left \in Nat
      BY <2>1, <2>5 DEF QueueEntry, Left
    <3> QED
      BY <2>1, <2>2, <2>3, <2>5, <3>1 DEF EntryTouched
  <2> QED
    BY <2>4, <2>5
<1>8. /\ \A i \in DOMAIN d.queue : Left(d, i) \in Nat
      /\ \A i \in DOMAIN d.queue : d.queue[i].owner = "PAPER" =>
            d.queue[i].id \in DOMAIN d.orders /\ RestsAt(d, d.queue[i].id) = {i}
  <2> HIDE DEF K
  <2> QED
    BY <1>2, <1>5, <1>7
<1>9. /\ ExchangeType(c) /\ SameOrders(d, c) /\ SameAccount(d, c) /\ c.queue = d.queue
      /\ \A i \in DOMAIN d.queue : Left(c, i) = Left(d, i)
      /\ \A i \in DOMAIN d.queue : d.queue[i].owner = "PAPER" =>
            IF LevelOf(d.queue[i]) \in levels
            THEN c.orders[d.queue[i].id].ahead = Total(d, InFront(d, i))
            ELSE c.orders[d.queue[i].id] = d.orders[d.queue[i].id]
  BY <1>6, <1>8, RefreshDoes
<1> HIDE DEF c
<1>10. SameOrders(b, c) /\ SameAccount(b, c)
  BY <1>5, <1>9 DEF SameOrders, SameAccount
<1>11. \A n : RestsAt(c, n) = RestsAt(d, n)
  BY <1>9 DEF RestsAt
<1>12. ASSUME NEW n \in DOMAIN c.orders PROVE OrderInv(c.orders[n])
  <2>1. n \in DOMAIN b.orders /\ OrderInv(b.orders[n]) /\ b.orders[n] \in PaperOrder
    BY <1>4, <1>10 DEF SameOrders, Touched
  <2>2. c.orders[n] = [b.orders[n] EXCEPT !.ahead = c.orders[n].ahead]
    BY <1>10, <2>1 DEF SameOrders
  <2>3. PICK p : p = c.orders[n]
    OBVIOUS
  <2>4. PICK o : o = b.orders[n]
    OBVIOUS
  <2>5. p = [o EXCEPT !.ahead = p.ahead] /\ o \in PaperOrder /\ OrderInv(o)
    BY <2>1, <2>2, <2>3, <2>4
  <2>6. OrderInv(p)
    BY <2>5 DEF OrderInv, PaperOrder
  <2> QED
    BY <2>3, <2>6
<1>13. ASSUME NEW i \in DOMAIN c.queue PROVE EntryInv(c, i)
  <2>1. i \in K /\ c.queue[i] = b.queue[i] /\ b.queue[i] \in QueueEntry /\ i \in DOMAIN d.queue
    BY <1>2, <1>4, <1>5, <1>9
  <2>2. CASE b.queue[i].owner = "PAPER"
    <3> DEFINE n == b.queue[i].id
    <3>1. /\ n \in DOMAIN b.orders /\ MayRest(b.orders[n], b.queue[i])
          /\ b.orders[n].status \in RESTING /\ b.orders[n].filled < b.orders[n].qty
          /\ RestsAt(d, n) = {i} /\ RestsAt(b, n) = {i}
      BY <1>7, <2>1, <2>2
    <3>2. b.orders[n] \in PaperOrder /\ c.orders[n] = [b.orders[n] EXCEPT !.ahead = c.orders[n].ahead]
      BY <1>4, <1>10, <3>1 DEF SameOrders
    <3>3. /\ c.orders[n].status = b.orders[n].status /\ c.orders[n].filled = b.orders[n].filled
          /\ c.orders[n].qty = b.orders[n].qty /\ c.orders[n].side = b.orders[n].side
          /\ c.orders[n].limit = b.orders[n].limit /\ c.orders[n].type = b.orders[n].type
          /\ c.orders[n].tif = b.orders[n].tif
      BY <3>2 DEF PaperOrder
    <3>4. c.orders[n].ahead = Total(d, InFront(d, i))
      <4>1. d.queue[i] = b.queue[i] /\ d.orders[n] = b.orders[n]
        BY <1>5, <1>9, <2>1
      <4>2. CASE LevelOf(b.queue[i]) \in levels
        BY <1>9, <2>1, <2>2, <4>1, <4>2
      <4>3. CASE LevelOf(b.queue[i]) \notin levels
        <5>1. c.orders[n] = b.orders[n]
          BY <1>9, <2>1, <2>2, <4>1, <4>3
        <5>2. b.orders[n].ahead = Total(b, InFront(b, i))
          BY <1>3, <2>1, <2>2, <4>3 DEF EntryTouched
        <5>3. InFront(d, i) = InFront(b, i) /\ InFront(d, i) \subseteq K
          <6>1. \A j \in DOMAIN b.queue : LevelOf(b.queue[j]) = LevelOf(b.queue[i]) => j \in K
            BY <4>3
          <6>2. K \subseteq DOMAIN b.queue
            OBVIOUS
          <6> HIDE DEF K
          <6>3. DOMAIN d.queue = K /\ \A j \in K : d.queue[j] = b.queue[j]
            BY <1>2, <1>5
          <6> QED
            BY <2>1, <6>1, <6>2, <6>3 DEF InFront
        <5>4. Total(d, InFront(b, i)) = Total(b, InFront(b, i))
          <6>1. \A j \in InFront(b, i) : Left(d, j) = Left(b, j)
            BY <1>7, <5>3
          <6> QED
            BY <6>1, TotalSame
        <5> QED
          BY <5>1, <5>2, <5>3, <5>4
      <4> QED
        BY <4>2, <4>3
    <3>5. Total(d, InFront(d, i)) = Total(c, InFront(c, i))
      <4>1. InFront(c, i) = InFront(d, i) /\ InFront(d, i) \subseteq DOMAIN d.queue
        BY <1>9 DEF InFront
      <4>2. \A j \in InFront(d, i) : Left(d, j) = Left(c, j)
        BY <1>9, <4>1
      <4>3. Total(d, InFront(d, i)) = Total(c, InFront(d, i))
        BY <4>2, TotalSame
      <4> QED
        BY <4>1, <4>3
    <3>6. RestsAt(c, n) = {i} /\ n \in DOMAIN c.orders
      BY <1>10, <1>11, <3>1 DEF SameOrders
    <3>7. MayRest(c.orders[n], b.queue[i])
      BY <3>1, <3>3 DEF MayRest
    <3> HIDE DEF n
    <3> QED
      BY <2>1, <2>2, <3>1, <3>3, <3>4, <3>5, <3>6, <3>7 DEF EntryInv, n
  <2>3. CASE b.queue[i].owner = "MARKET"
    <3>1. b.queue[i].left > 0
      BY <1>7, <2>1, <2>3 DEF Left
    <3> QED
      BY <2>1, <2>3, <3>1 DEF EntryInv
  <2> QED
    BY <2>1, <2>2, <2>3 DEF QueueEntry
<1>14. ASSUME NEW n \in DOMAIN b.orders
       PROVE  RestsAt(c, n) = IF b.orders[n].status \in RESTING THEN RestsAt(b, n) ELSE {}
  <2>1. RestsAt(c, n) = {i \in K : IsPaper(b.queue[i], n)}
    <3> HIDE DEF K
    <3> QED
      BY <1>2, <1>5, <1>11 DEF RestsAt
  <2>2. CASE b.orders[n].status \in RESTING
    <3>1. ASSUME NEW i \in RestsAt(b, n) PROVE i \in K
      <4>1. i \in DOMAIN b.queue /\ b.queue[i].owner = "PAPER" /\ b.queue[i].id = n
        BY DEF RestsAt, IsPaper
      <4>2. EntryTouched(b, levels, i)
        BY <1>3, <4>1
      <4>3. b.orders[n].filled < b.orders[n].qty /\ b.orders[n] \in PaperOrder
        BY <1>4, <2>2, <4>1, <4>2 DEF EntryTouched, RESTING, ACTIVE
      <4>4. Left(b, i) > 0
        BY <4>1, <4>3 DEF Left, Remaining, PaperOrder
      <4> QED
        BY <2>2, <4>1, <4>4 DEF RESTING, ACTIVE
    <3> HIDE DEF K
    <3>2. RestsAt(b, n) \subseteq K
      BY <3>1
    <3> QED
      BY <2>1, <2>2, <3>1 DEF RestsAt, K
  <2>3. CASE b.orders[n].status \notin RESTING
    <3>1. ASSUME NEW i \in K, IsPaper(b.queue[i], n) PROVE FALSE
      BY <1>7, <2>3, <3>1 DEF IsPaper
    <3> HIDE DEF K
    <3> QED
      BY <2>1, <2>3, <3>1
  <2> QED
    BY <2>2, <2>3
<1>15. BookInv(c)
  BY <1>9, <1>12, <1>13 DEF BookInv
<1> QED
  BY <1>1, <1>10, <1>14, <1>15

-----------------------------------------------------------------------------
(* Execution *)

(* What is executed is what entries of the book have left. *)
Hits(b, share) ==
    /\ DOMAIN share \subseteq DOMAIN b.queue
    /\ \A i \in DOMAIN share : share[i] \in Nat /\ 0 < share[i] /\ share[i] <= Left(b, i)

(* The entries of paper order n that are executed *)
PaperHits(b, share, n) == {i \in DOMAIN share : IsPaper(b.queue[i], n)}

(* An order and an entry once they were executed *)
OrderHit(b, share, n) ==
    IF PaperHits(b, share, n) = {} THEN b.orders[n]
    ELSE RecordFill(b.orders[n], share[CHOOSE i \in PaperHits(b, share, n) : TRUE])

EntryHit(b, share, i) ==
    IF i \in DOMAIN share /\ b.queue[i].owner = "MARKET"
    THEN [b.queue[i] EXCEPT !.left = @ - share[i]] ELSE b.queue[i]

(* The book before it is pruned *)
BookHit(b, share) ==
    [b EXCEPT !.queue = [i \in DOMAIN b.queue |-> EntryHit(b, share, i)],
              !.orders = [n \in DOMAIN b.orders |-> OrderHit(b, share, n)]]

(* A fill within what remains keeps an order that rests in order. *)
LEMMA RecordFillKeeps ==
    ASSUME NEW o \in PaperOrder, OrderInv(o), NEW k \in Nat, 0 < k, k <= o.qty - o.filled,
           o.tif = "FOK" /\ o.given \in {"limit", "stop_limit"} => o.filled + k = o.qty
    PROVE  LET p == RecordFill(o, k)
           IN /\ p \in PaperOrder /\ OrderInv(p) /\ p.filled = o.filled + k
              /\ p.status = IF o.filled + k = o.qty THEN "FILLED" ELSE "PARTIALLY_FILLED"
              /\ p = [o EXCEPT !.filled = p.filled, !.status = p.status]
<1> DEFINE p == RecordFill(o, k)
<1>1. /\ o.filled \in Nat /\ o.qty \in Nat /\ o.filled + k \in Nat
      /\ "FILLED" \in Statuses /\ "PARTIALLY_FILLED" \in Statuses
  BY DEF PaperOrder, Statuses, WORKING
<1>2. /\ p.filled = o.filled + k
      /\ p.status = IF o.filled + k = o.qty THEN "FILLED" ELSE "PARTIALLY_FILLED"
      /\ p = [o EXCEPT !.filled = p.filled, !.status = p.status]
      /\ p \in PaperOrder
  BY <1>1 DEF RecordFill, PaperOrder
<1>3. /\ p.qty = o.qty /\ p.type = o.type /\ p.given = o.given /\ p.tif = o.tif
  BY <1>1 DEF RecordFill, PaperOrder
<1>4. OrderInv(p)
  <2> HIDE DEF p
  <2> QED
    BY <1>1, <1>2, <1>3 DEF OrderInv
<1> QED
  BY <1>2, <1>4

(* Order o has become p by what the entries I gave it. *)
RightlyHit(o, p, I, share) ==
    /\ p \in PaperOrder /\ OrderInv(p)
    /\ p = [o EXCEPT !.filled = p.filled, !.status = p.status]
    /\ I = {} => p = o
    /\ \A i \in I : /\ I = {i} /\ p.filled = o.filled + share[i]
                    /\ p.status = IF p.filled = o.qty THEN "FILLED" ELSE "PARTIALLY_FILLED"

(* A resting paper order is hit at most once, within what remains of it.   *)
LEMMA OrderHitKeeps ==
    ASSUME NEW b, BookInv(b), NEW share, Hits(b, share), NEW n \in DOMAIN b.orders
    PROVE  RightlyHit(b.orders[n], OrderHit(b, share, n), PaperHits(b, share, n), share)
<1> DEFINE o == b.orders[n]
           p == OrderHit(b, share, n)
<1>1. ExchangeType(b) /\ OrderInv(o)
  BY DEF BookInv
<1>2. o \in PaperOrder
  BY <1>1, ExchangeTypes
<1>3. CASE PaperHits(b, share, n) = {}
  <2>1. p = o
    BY <1>3 DEF OrderHit
  <2>2. o = [o EXCEPT !.filled = o.filled, !.status = o.status]
    BY <1>2 DEF PaperOrder
  <2> HIDE DEF p, o
  <2>3. RightlyHit(o, p, PaperHits(b, share, n), share)
    BY <1>1, <1>2, <1>3, <2>1, <2>2 DEF RightlyHit
  <2> QED
    BY <2>3 DEF p, o
<1>4. CASE PaperHits(b, share, n) # {}
  <2>1. PICK i : i = CHOOSE j \in PaperHits(b, share, n) : TRUE
    OBVIOUS
  <2>2. i \in PaperHits(b, share, n)
    BY <1>4, <2>1
  <2>3. i \in DOMAIN share /\ i \in DOMAIN b.queue /\ b.queue[i].owner = "PAPER" /\ b.queue[i].id = n
    BY <2>2 DEF PaperHits, IsPaper, Hits
  <2>4. EntryInv(b, i)
    BY <2>3 DEF BookInv
  <2>5. RestsAt(b, n) = {i} /\ o.tif = "GTC"
    BY <2>3, <2>4 DEF EntryInv, MayRest
  <2>6. PaperHits(b, share, n) = {i}
    BY <2>2, <2>5 DEF PaperHits, RestsAt, Hits
  <2>7. share[i] \in Nat /\ 0 < share[i] /\ share[i] <= o.qty - o.filled
    BY <2>3 DEF Hits, Left, Remaining
  <2>8. p = RecordFill(o, share[i])
    BY <1>4, <2>1 DEF OrderHit
  <2> HIDE DEF p, o
  <2>9. /\ p \in PaperOrder /\ OrderInv(p) /\ p.filled = o.filled + share[i]
        /\ p.status = IF o.filled + share[i] = o.qty THEN "FILLED" ELSE "PARTIALLY_FILLED"
        /\ p = [o EXCEPT !.filled = p.filled, !.status = p.status]
    BY <1>1, <1>2, <2>5, <2>7, <2>8, RecordFillKeeps
  <2>10. RightlyHit(o, p, PaperHits(b, share, n), share)
    BY <2>6, <2>9 DEF RightlyHit
  <2> QED
    BY <2>10 DEF p, o
<1> QED
  BY <1>3, <1>4

(* Execution keeps the book in order. *)
LEMMA ExecuteKeeps ==
    ASSUME NEW b, BookInv(b), NEW share, Hits(b, share)
    PROVE  LET c == Execute(b, share)
           IN /\ BookInv(c) /\ SameAccount(b, c) /\ DOMAIN c.orders = DOMAIN b.orders
              /\ \A n \in DOMAIN b.orders :
                    /\ c.orders[n] = [OrderHit(b, share, n) EXCEPT !.ahead = c.orders[n].ahead]
                    /\ RestsAt(c, n) = IF c.orders[n].status \in RESTING THEN RestsAt(b, n) ELSE {}
<1> DEFINE levels == {LevelOf(b.queue[i]) : i \in DOMAIN share}
           d == BookHit(b, share)
           c == Prune(d, levels)
<1>1. Execute(b, share) = c
  BY Zenon DEF Execute, BookHit, EntryHit, OrderHit, PaperHits
<1>2. ExchangeType(b) /\ \A i \in DOMAIN b.queue : EntryInv(b, i)
  BY DEF BookInv
<1>3. /\ Len(b.orders) \in Nat /\ DOMAIN b.orders = 1..Len(b.orders)
      /\ \A n \in DOMAIN b.orders : b.orders[n] \in PaperOrder
      /\ \A i \in DOMAIN b.queue : b.queue[i] \in QueueEntry /\ i \in Nat
  BY <1>2, ExchangeTypes
<1>4. /\ d.queue = [i \in DOMAIN b.queue |-> EntryHit(b, share, i)]
      /\ d.orders = [n \in DOMAIN b.orders |-> OrderHit(b, share, n)]
      /\ SameAccount(b, d) /\ DOMAIN d = DOMAIN b
  <2>1. "queue" \in DOMAIN b /\ "orders" \in DOMAIN b
    BY <1>2 DEF ExchangeType
  <2> QED
    BY <2>1 DEF BookHit, SameAccount
<1> HIDE DEF d
<1>5. ASSUME NEW i \in DOMAIN b.queue
      PROVE  /\ EntryHit(b, share, i) \in QueueEntry
             /\ LevelOf(EntryHit(b, share, i)) = LevelOf(b.queue[i])
             /\ EntryHit(b, share, i).owner = b.queue[i].owner
             /\ b.queue[i].owner = "PAPER" => EntryHit(b, share, i) = b.queue[i]
             /\ i \notin DOMAIN share => EntryHit(b, share, i) = b.queue[i]
             /\ \A n : IsPaper(EntryHit(b, share, i), n) <=> IsPaper(b.queue[i], n)
  <2>1. b.queue[i] \in QueueEntry
    BY <1>3
  <2>2. CASE i \in DOMAIN share /\ b.queue[i].owner = "MARKET"
    <3>1. share[i] \in Nat /\ share[i] <= b.queue[i].left
      BY <2>2 DEF Hits, Left
    <3>2. EntryHit(b, share, i) = [b.queue[i] EXCEPT !.left = b.queue[i].left - share[i]]
      BY <2>2 DEF EntryHit
    <3>3. b.queue[i].left - share[i] \in Nat
      BY <2>1, <3>1 DEF QueueEntry
    <3>4. PICK e : e = b.queue[i]
      OBVIOUS
    <3>5. PICK f : f = EntryHit(b, share, i)
      OBVIOUS
    <3>6. PICK k : k = b.queue[i].left - share[i]
      OBVIOUS
    <3>7. e \in QueueEntry /\ f = [e EXCEPT !.left = k] /\ k \in Nat
      BY <2>1, <3>2, <3>3, <3>4, <3>5, <3>6
    <3>8. f \in QueueEntry /\ LevelOf(f) = LevelOf(e) /\ f.owner = e.owner /\ f.id = e.id
      BY <3>7 DEF QueueEntry, LevelOf
    <3> QED
      BY <2>2, <3>4, <3>5, <3>8 DEF IsPaper
  <2>3. CASE ~(i \in DOMAIN share /\ b.queue[i].owner = "MARKET")
    <3>1. EntryHit(b, share, i) = b.queue[i]
      BY <2>3 DEF EntryHit
    <3> QED
      BY <2>1, <3>1
  <2> QED
    BY <2>2, <2>3
<1>6. ASSUME NEW n \in DOMAIN b.orders
      PROVE  RightlyHit(b.orders[n], OrderHit(b, share, n), PaperHits(b, share, n), share)
  BY OrderHitKeeps
<1>7. ExchangeType(d)
  <2>1. d.orders \in [1..Len(b.orders) -> PaperOrder] /\ DOMAIN d.orders = DOMAIN b.orders
    <3>1. \A n \in DOMAIN b.orders : OrderHit(b, share, n) \in PaperOrder
      BY <1>6 DEF RightlyHit
    <3> QED
      BY <1>3, <1>4, <3>1
  <2>2. d.orders \in Seq(PaperOrder)
    BY <1>3, <2>1, OrdersAreSeq
  <2>3. DOMAIN d.queue = DOMAIN b.queue /\ d.queue \in [DOMAIN b.queue -> QueueEntry]
    BY <1>4, <1>5
  <2> QED
    BY <1>2, <1>4, <2>1, <2>2, <2>3 DEF ExchangeType, SameAccount
<1>8. \A n : RestsAt(d, n) = RestsAt(b, n)
  BY <1>4, <1>5 DEF RestsAt
<1>9. ASSUME NEW i \in DOMAIN b.queue, LevelOf(b.queue[i]) \notin levels
      PROVE  Left(d, i) = Left(b, i) /\ d.queue[i] = b.queue[i]
             /\ (b.queue[i].owner = "PAPER" => d.orders[b.queue[i].id] = b.orders[b.queue[i].id])
  <2>1. i \notin DOMAIN share
    BY <1>9
  <2>2. d.queue[i] = b.queue[i] /\ b.queue[i] \in QueueEntry
    BY <1>3, <1>4, <1>5, <2>1
  <2>3. CASE b.queue[i].owner = "PAPER"
    <3> DEFINE n == b.queue[i].id
    <3>1. n \in DOMAIN b.orders /\ RestsAt(b, n) = {i}
      BY <1>2, <2>3 DEF EntryInv
    <3>2. PaperHits(b, share, n) = {}
      BY <2>1, <3>1 DEF PaperHits, RestsAt, Hits
    <3>3. d.orders[n] = b.orders[n]
      BY <1>4, <1>6, <3>1, <3>2 DEF RightlyHit
    <3> QED
      BY <2>2, <2>3, <3>3 DEF Left, Remaining
  <2>4. CASE b.queue[i].owner # "PAPER"
    BY <2>2, <2>4 DEF Left
  <2> QED
    BY <2>3, <2>4
<1>10. ASSUME NEW i \in DOMAIN d.queue PROVE EntryTouched(d, levels, i)
  <2>1. /\ i \in DOMAIN b.queue /\ EntryInv(b, i) /\ b.queue[i] \in QueueEntry
        /\ d.queue[i] = EntryHit(b, share, i) /\ LevelOf(d.queue[i]) = LevelOf(b.queue[i])
    BY <1>2, <1>3, <1>4, <1>5
  <2>2. CASE b.queue[i].owner = "MARKET"
    <3>1. d.queue[i].owner = "MARKET"
      BY <1>5, <2>1, <2>2
    <3>2. LevelOf(b.queue[i]) \in levels \/ d.queue[i].left > 0
      BY <1>9, <2>1, <2>2 DEF EntryInv
    <3> HIDE DEF levels
    <3> QED
      BY <2>1, <3>1, <3>2 DEF EntryTouched
  <2>3. CASE b.queue[i].owner = "PAPER"
    <3> DEFINE n == b.queue[i].id
    <3>1. d.queue[i] = b.queue[i]
      BY <1>5, <2>1, <2>3
    <3>2. /\ n \in DOMAIN b.orders /\ MayRest(b.orders[n], b.queue[i]) /\ RestsAt(b, n) = {i}
          /\ b.orders[n].status \in RESTING /\ b.orders[n].filled < b.orders[n].qty
          /\ b.orders[n].ahead = Total(b, InFront(b, i))
      BY <2>1, <2>3 DEF EntryInv
    <3>3. n \in DOMAIN d.orders /\ d.orders[n] = OrderHit(b, share, n) /\ b.orders[n] \in PaperOrder
      BY <1>3, <1>4, <3>2
    <3>4. /\ d.orders[n] = [b.orders[n] EXCEPT !.filled = d.orders[n].filled, !.status = d.orders[n].status]
          /\ d.orders[n] \in PaperOrder /\ OrderInv(d.orders[n])
      BY <1>6, <3>2, <3>3 DEF RightlyHit
    <3>5. MayRest(d.orders[n], d.queue[i]) /\ d.orders[n].qty = b.orders[n].qty
      <4>1. PICK o : o = b.orders[n]
        OBVIOUS
      <4>2. PICK p : p = d.orders[n]
        OBVIOUS
      <4>3. p = [o EXCEPT !.filled = p.filled, !.status = p.status] /\ o \in PaperOrder
        BY <3>3, <3>4, <4>1, <4>2
      <4>4. /\ p.side = o.side /\ p.limit = o.limit /\ p.type = o.type /\ p.tif = o.tif
            /\ p.qty = o.qty
        BY <4>3 DEF PaperOrder
      <4> QED
        BY <3>1, <3>2, <4>1, <4>2, <4>4 DEF MayRest
    <3>6. RestsAt(d, n) = {i}
      BY <1>8, <3>2
    <3>7. CASE PaperHits(b, share, n) = {}
      <4>1. d.orders[n] = b.orders[n]
        BY <1>6, <3>2, <3>3, <3>7 DEF RightlyHit
      <4>2. CASE LevelOf(b.queue[i]) \in levels
        <5> HIDE DEF levels, n
        <5> QED
          BY <2>1, <2>3, <3>1, <3>2, <3>3, <3>5, <3>6, <4>1, <4>2 DEF EntryTouched, n
      <4>3. CASE LevelOf(b.queue[i]) \notin levels
        <5>1. InFront(d, i) = InFront(b, i)
          BY <1>4, <1>5, <2>1 DEF InFront
        <5>2. \A j \in InFront(b, i) : Left(d, j) = Left(b, j)
          BY <1>9, <4>3 DEF InFront
        <5>3. Total(d, InFront(b, i)) = Total(b, InFront(b, i))
          BY <5>2, TotalSame
        <5>4. d.orders[n].ahead = Total(d, InFront(d, i))
          BY <3>2, <4>1, <5>1, <5>3
        <5> HIDE DEF levels, n
        <5> QED
          BY <2>1, <2>3, <3>1, <3>2, <3>3, <3>5, <3>6, <4>1, <5>4 DEF EntryTouched, n
      <4> QED
        BY <4>2, <4>3
    <3>8. CASE PaperHits(b, share, n) # {}
      <4>1. PICK j : j \in PaperHits(b, share, n)
        BY <3>8
      <4>2. j = i /\ j \in DOMAIN share
        BY <3>2, <4>1 DEF PaperHits, RestsAt, Hits
      <4>3. LevelOf(b.queue[i]) \in levels
        BY <4>2
      <4>4. /\ d.orders[n].filled = b.orders[n].filled + share[i]
            /\ d.orders[n].status = IF d.orders[n].filled = b.orders[n].qty THEN "FILLED" ELSE "PARTIALLY_FILLED"
        BY <1>6, <3>2, <3>3, <4>1, <4>2, ZenonT(60) DEF RightlyHit
      <4>5. d.orders[n].filled <= d.orders[n].qty /\ d.orders[n].filled \in Nat /\ d.orders[n].qty \in Nat
        BY <3>4 DEF OrderInv, PaperOrder
      <4>6. \/ d.orders[n].status \in RESTING /\ d.orders[n].filled < d.orders[n].qty
            \/ d.orders[n].status \notin ACTIVE
        <5>1. CASE d.orders[n].filled = b.orders[n].qty
          BY <4>4, <5>1 DEF ACTIVE
        <5>2. CASE d.orders[n].filled # b.orders[n].qty
          <6>1. d.orders[n].filled < d.orders[n].qty
            BY <3>5, <4>5, <5>2
          <6> QED
            BY <4>4, <5>2, <6>1 DEF RESTING
        <5> QED
          BY <5>1, <5>2
      <4> HIDE DEF levels, n
      <4> QED
        BY <2>1, <2>3, <3>1, <3>3, <3>5, <3>6, <4>3, <4>6 DEF EntryTouched, n
    <3> QED
      BY <3>7, <3>8
  <2> QED
    BY <2>1, <2>2, <2>3 DEF QueueEntry
<1>11. Touched(d, levels)
  <2>1. \A n \in DOMAIN d.orders : OrderInv(d.orders[n])
    BY <1>4, <1>6 DEF RightlyHit
  <2> HIDE DEF levels
  <2> QED
    BY <1>7, <1>10, <2>1 DEF Touched
<1>12. /\ BookInv(c) /\ SameOrders(d, c) /\ SameAccount(d, c)
       /\ \A n \in DOMAIN d.orders :
             RestsAt(c, n) = IF d.orders[n].status \in RESTING THEN RestsAt(d, n) ELSE {}
  <2> HIDE DEF levels
  <2> QED
    BY <1>11, PruneKeeps
<1> HIDE DEF c
<1>13. SameAccount(b, c) /\ DOMAIN c.orders = DOMAIN b.orders
  BY <1>4, <1>12 DEF SameAccount, SameOrders
<1>14. ASSUME NEW n \in DOMAIN b.orders
       PROVE  /\ c.orders[n] = [OrderHit(b, share, n) EXCEPT !.ahead = c.orders[n].ahead]
              /\ RestsAt(c, n) = IF c.orders[n].status \in RESTING THEN RestsAt(b, n) ELSE {}
  <2>1. d.orders[n] = OrderHit(b, share, n) /\ n \in DOMAIN d.orders /\ d.orders[n] \in PaperOrder
    BY <1>4, <1>6 DEF RightlyHit
  <2>2. c.orders[n] = [d.orders[n] EXCEPT !.ahead = c.orders[n].ahead]
    BY <1>12, <2>1 DEF SameOrders
  <2>3. c.orders[n].status = d.orders[n].status
    BY <2>1, <2>2 DEF PaperOrder
  <2> QED
    BY <1>8, <1>12, <2>1, <2>2, <2>3
<1> QED
  BY <1>1, <1>12, <1>13, <1>14

-----------------------------------------------------------------------------
(* What an aggressor gets *)

(* The larger of two numbers *)
LEMMA TwoMax ==
    ASSUME NEW a \in Int, NEW b \in Int
    PROVE  Max({a, b}) = IF a >= b THEN a ELSE b
<1>1. \E m \in {a, b} : \A y \in {a, b} : m >= y
  OBVIOUS
<1>2. Max({a, b}) \in {a, b} /\ \A y \in {a, b} : Max({a, b}) >= y
  BY <1>1 DEF Max
<1> QED
  BY <1>2

(* The smaller of two numbers *)
LEMMA TwoMin ==
    ASSUME NEW a \in Int, NEW b \in Int
    PROVE  Min({a, b}) = IF a <= b THEN a ELSE b
<1>1. \E m \in {a, b} : \A y \in {a, b} : m <= y
  OBVIOUS
<1>2. Min({a, b}) \in {a, b} /\ \A y \in {a, b} : Min({a, b}) <= y
  BY <1>1 DEF Min
<1> QED
  BY <1>2

(* Price and time order the entries that an aggressor meets. *)
LEMMA EarlierOrders ==
    ASSUME NEW b, ExchangeType(b), NEW side
    PROVE  /\ \A i, j, k \in DOMAIN b.queue :
                Earlier(b, side, i, j) /\ Earlier(b, side, j, k) => Earlier(b, side, i, k)
           /\ \A i, j \in DOMAIN b.queue : i # j => Earlier(b, side, i, j) \/ Earlier(b, side, j, i)
           /\ \A i, j \in DOMAIN b.queue : ~(Earlier(b, side, i, j) /\ Earlier(b, side, j, i))
           /\ \A i \in DOMAIN b.queue : ~Earlier(b, side, i, i)
<1>1. \A i \in DOMAIN b.queue : b.queue[i].price \in Nat /\ i \in Nat
  BY ExchangeTypes DEF QueueEntry
<1> QED
  BY <1>1 DEF Earlier

(* One of them is the last. *)
LEMMA LastExists ==
    ASSUME NEW b, ExchangeType(b), NEW side, NEW S \in SUBSET DOMAIN b.queue, S # {}
    PROVE  \E m \in S : \A j \in S \ {m} : Earlier(b, side, j, m)
<1> DEFINE G == {T \in SUBSET S : T # {} => \E m \in T : \A j \in T \ {m} : Earlier(b, side, j, m)}
<1>0. IsFiniteSet(S)
  BY FS_Subset DEF ExchangeType
<1>1. {} \in G
  OBVIOUS
<1>2. ASSUME NEW T \in SUBSET S, NEW i \in S \ T, T \in G PROVE T \cup {i} \in G
  <2>1. CASE T = {}
    BY <2>1
  <2>2. CASE T # {}
    <3>1. PICK m \in T : \A j \in T \ {m} : Earlier(b, side, j, m)
      BY <1>2, <2>2
    <3>2. CASE Earlier(b, side, i, m)
      <4>1. \A j \in (T \cup {i}) \ {m} : Earlier(b, side, j, m)
        BY <3>1, <3>2
      <4> QED
        BY <4>1
    <3>3. CASE ~Earlier(b, side, i, m)
      <4>1. Earlier(b, side, m, i)
        BY <3>3, EarlierOrders
      <4>2. \A j \in (T \cup {i}) \ {i} : Earlier(b, side, j, i)
        BY <3>1, <4>1, EarlierOrders
      <4> QED
        BY <4>2
    <3> QED
      BY <3>2, <3>3
  <2> QED
    BY <2>1, <2>2
<1>3. S \in G
  <2> HIDE DEF G
  <2> QED
    BY <1>0, <1>1, <1>2, SubsetsByOne
<1> QED
  BY <1>3

(* A share is part of what the entry has left. *)
LEMMA ShareType ==
    ASSUME NEW b, ExchangeType(b), NEW side, NEW path \in SUBSET DOMAIN b.queue, NEW qty \in Nat,
           \A i \in path : Left(b, i) \in Nat, NEW i \in path
    PROVE  LET sooner == Total(b, {j \in path : Earlier(b, side, j, i)})
           IN /\ sooner \in Nat
              /\ Share(b, side, path, qty, i) \in Nat
              /\ Share(b, side, path, qty, i) <= Left(b, i)
              /\ Share(b, side, path, qty, i) =
                    IF qty <= sooner THEN 0
                    ELSE IF Left(b, i) <= qty - sooner THEN Left(b, i) ELSE qty - sooner
<1> DEFINE T == {j \in path : Earlier(b, side, j, i)}
           sooner == Total(b, T)
<1>1. IsFiniteSet(DOMAIN b.queue) /\ T \in SUBSET DOMAIN b.queue /\ \A j \in T : Left(b, j) \in Nat
  BY DEF ExchangeType
<1> HIDE DEF T
<1>2. sooner \in Nat
  BY <1>1, TotalType
<1>3. Share(b, side, path, qty, i) = Min({Left(b, i), Max({0, qty - sooner})})
  BY DEF Share, T
<1> HIDE DEF sooner
<1>4. qty - sooner \in Int /\ Left(b, i) \in Nat
  BY <1>2
<1>5. Max({0, qty - sooner}) = IF 0 >= qty - sooner THEN 0 ELSE qty - sooner
  BY <1>4, TwoMax
<1>6. Min({Left(b, i), Max({0, qty - sooner})}) =
        IF Left(b, i) <= Max({0, qty - sooner}) THEN Left(b, i) ELSE Max({0, qty - sooner})
  <2>1. Max({0, qty - sooner}) \in Int
    BY <1>4, <1>5
  <2> QED
    BY <1>4, <2>1, TwoMin
<1>7. /\ Share(b, side, path, qty, i) \in Nat /\ Share(b, side, path, qty, i) <= Left(b, i)
      /\ Share(b, side, path, qty, i) =
            IF qty <= sooner THEN 0 ELSE IF Left(b, i) <= qty - sooner THEN Left(b, i) ELSE qty - sooner
  BY <1>2, <1>3, <1>4, <1>5, <1>6
<1> QED
  BY <1>2, <1>7 DEF sooner, T

(* The shares of all entries add up to the quantity, or to all there is. *)
LEMMA SharesAddUp ==
    ASSUME NEW b, ExchangeType(b), NEW side, NEW path \in SUBSET DOMAIN b.queue, NEW qty \in Nat,
           \A i \in path : Left(b, i) \in Nat
    PROVE  SumFunctionOnSet([i \in path |-> Share(b, side, path, qty, i)], path) =
               IF qty <= Total(b, path) THEN qty ELSE Total(b, path)
<1> DEFINE f == [i \in path |-> Share(b, side, path, qty, i)]
           l == [i \in path |-> Left(b, i)]
           Closed(T) == \A i \in T : \A j \in path : Earlier(b, side, j, i) => j \in T
           Right(T) == SumFunctionOnSet(f, T) =
                           IF qty <= SumFunctionOnSet(l, T) THEN qty ELSE SumFunctionOnSet(l, T)
           bad == {k \in Nat : \E T \in SUBSET path : Cardinality(T) = k /\ Closed(T) /\ ~Right(T)}
<1>1. IsFiniteSet(path)
  BY FS_Subset DEF ExchangeType
<1>2. \A i \in path : f[i] \in Nat /\ l[i] \in Nat /\ f[i] \in Int /\ l[i] \in Int
  <2>1. ASSUME NEW i \in path PROVE Share(b, side, path, qty, i) \in Nat
    BY ShareType
  <2> QED
    BY <2>1
<1>3. ASSUME NEW T \in SUBSET path PROVE Total(b, T) = SumFunctionOnSet(l, T)
  <2>1. IsFiniteSet(T)
    BY <1>1, FS_Subset
  <2> DEFINE k == [i \in T |-> Left(b, i)]
  <2>2. \A i \in T : k[i] \in Int /\ l[i] = k[i]
    OBVIOUS
  <2> HIDE DEF k, l
  <2>3. SumFunctionOnSet(l, T) = SumFunctionOnSet(k, T)
    BY <2>1, <2>2, SumSame
  <2> QED
    BY <2>3 DEF Total, k
<1>4. ASSUME bad # {} PROVE FALSE
  <2>1. PICK k \in bad : \A j \in bad : k <= j
    <3>1. bad \subseteq Nat
      OBVIOUS
    <3> HIDE DEF bad
    <3> QED
      BY <1>4, <3>1, SmallestOne
  <2>2. PICK T \in SUBSET path : Cardinality(T) = k /\ Closed(T) /\ ~Right(T)
    BY <2>1
  <2> HIDE DEF f, l
  <2>3. T # {}
    <3>1. SumFunctionOnSet(f, {}) = 0 /\ SumFunctionOnSet(l, {}) = 0
      BY <1>1, <1>2, SumType
    <3>2. Right({})
      BY <3>1
    <3> HIDE DEF Right
    <3> QED
      BY <2>2, <3>2
  <2>4. PICK m \in T : \A j \in T \ {m} : Earlier(b, side, j, m)
    BY <2>3, LastExists
  <2> DEFINE R == T \ {m}
  <2>5. /\ R \in SUBSET path /\ Cardinality(R) \in Nat /\ Cardinality(R) = k - 1
        /\ k \in Nat /\ IsFiniteSet(T) /\ IsFiniteSet(R)
    <3>1. IsFiniteSet(T)
      BY <1>1, FS_Subset
    <3> QED
      BY <1>1, <2>2, <2>4, <3>1, OneLess, FS_RemoveElement
  <2>6. Closed(R)
    <3>1. ASSUME NEW i \in R, NEW j \in path, Earlier(b, side, j, i) PROVE j \in R
      <4>1. j \in T
        BY <2>2, <3>1
      <4>2. j # m
        BY <2>4, <3>1, EarlierOrders
      <4> QED
        BY <4>1, <4>2
    <3> QED
      BY <3>1
  <2>7. Right(R)
    <3>1. k - 1 \notin bad
      BY <2>1, <2>5
    <3> HIDE DEF Right, Closed, R
    <3> QED
      BY <2>5, <2>6, <3>1
  <2>8. {j \in path : Earlier(b, side, j, m)} = R
    BY <2>2, <2>4, EarlierOrders
  <2> DEFINE sooner == SumFunctionOnSet(l, R)
  <2>9. f[m] = IF qty <= sooner THEN 0 ELSE IF l[m] <= qty - sooner THEN l[m] ELSE qty - sooner
    <3>1. sooner = Total(b, R)
      BY <1>3, <2>5
    <3>2. Share(b, side, path, qty, m) =
             IF qty <= Total(b, R) THEN 0
             ELSE IF Left(b, m) <= qty - Total(b, R) THEN Left(b, m) ELSE qty - Total(b, R)
      <4> HIDE DEF R
      <4> QED
        BY <2>8, ShareType
    <3> HIDE DEF R, sooner
    <3> QED
      BY <3>1, <3>2 DEF f, l
  <2>10. /\ SumFunctionOnSet(f, T) = f[m] + SumFunctionOnSet(f, R)
         /\ SumFunctionOnSet(l, T) = l[m] + sooner
    BY <1>2, <2>5, SumWithout
  <2>11. sooner \in Nat /\ SumFunctionOnSet(f, R) \in Int /\ l[m] \in Nat
    BY <1>2, <2>5, SumCovers, SumType
  <2>12. SumFunctionOnSet(f, R) = IF qty <= sooner THEN qty ELSE sooner
    BY <2>7
  <2>13. Right(T)
    <3> HIDE DEF R, sooner
    <3> QED
      BY <2>9, <2>10, <2>11, <2>12 DEF sooner
  <2> QED
    BY <2>2, <2>13
<1>5. Right(path)
  <2>1. Cardinality(path) \in Nat /\ Closed(path) /\ path \in SUBSET path
    BY <1>1, FS_CardinalityType
  <2> HIDE DEF Right, Closed
  <2> QED
    BY <1>4, <2>1
<1>6. Total(b, path) = SumFunctionOnSet(l, path)
  <2>1. path \in SUBSET path
    OBVIOUS
  <2> QED
    BY <1>3, <2>1
<1> HIDE DEF f, l
<1> QED
  BY <1>5, <1>6 DEF f

(* The shares of a path are what its entries have left, up to the quantity. *)
LEMMA SharesHit ==
    ASSUME NEW b, BookInv(b), NEW side, NEW path \in SUBSET DOMAIN b.queue, NEW qty \in Nat
    PROVE  LET shares == Shares(b, side, path, qty)
           IN /\ Hits(b, shares) /\ DOMAIN shares \subseteq path /\ IsFiniteSet(DOMAIN shares)
              /\ SumFunctionOnSet(shares, DOMAIN shares) =
                     IF qty <= Total(b, path) THEN qty ELSE Total(b, path)
              /\ Total(b, path) \in Nat
<1> DEFINE shares == Shares(b, side, path, qty)
           D == {j \in path : Share(b, side, path, qty, j) > 0}
           f == [i \in path |-> Share(b, side, path, qty, i)]
<1>1. ExchangeType(b) /\ \A i \in path : Left(b, i) \in Nat
  BY LeftType DEF BookInv
<1>2. shares = [i \in D |-> Share(b, side, path, qty, i)]
  BY DEF Shares
<1>3. \A i \in path : Share(b, side, path, qty, i) \in Nat /\ Share(b, side, path, qty, i) <= Left(b, i)
  <2>1. ASSUME NEW i \in path
        PROVE  Share(b, side, path, qty, i) \in Nat /\ Share(b, side, path, qty, i) <= Left(b, i)
    BY <1>1, ShareType
  <2> QED
    BY <2>1
<1>4. IsFiniteSet(path) /\ IsFiniteSet(D) /\ Total(b, path) \in Nat
  <2>1. IsFiniteSet(DOMAIN b.queue)
    BY <1>1 DEF ExchangeType
  <2>2. IsFiniteSet(path) /\ Total(b, path) \in Nat
    BY <1>1, <2>1, TotalType
  <2>3. D \in SUBSET path
    OBVIOUS
  <2> HIDE DEF D
  <2> QED
    BY <2>2, <2>3, FS_Subset
<1>5. Hits(b, shares)
  BY <1>2, <1>3 DEF Hits
<1>6. SumFunctionOnSet(f, path) = IF qty <= Total(b, path) THEN qty ELSE Total(b, path)
  BY <1>1, SharesAddUp
<1>7. SumFunctionOnSet(f, path) = SumFunctionOnSet(f, D)
  <2>1. /\ \A i \in path : f[i] \in Int
        /\ D \in SUBSET path /\ \A i \in path \ D : f[i] = 0
    BY <1>3
  <2> HIDE DEF f, D
  <2> QED
    BY <1>4, <2>1, SumDrops
<1>8. SumFunctionOnSet(shares, D) = SumFunctionOnSet(f, D)
  <2>1. \A i \in D : f[i] \in Int /\ shares[i] = f[i]
    BY <1>2, <1>3
  <2> HIDE DEF f, D, shares
  <2> QED
    BY <1>4, <2>1, SumSame
<1>9. DOMAIN shares = D /\ D \subseteq path
  BY <1>2
<1> HIDE DEF shares, D, f
<1> QED
  BY <1>4, <1>5, <1>6, <1>7, <1>8, <1>9 DEF shares

-----------------------------------------------------------------------------
(* One order at a time *)

(* An exchange in which one order was replaced. *)
LEMMA OrderReplaced ==
    ASSUME NEW s, ExchangeType(s), NEW n \in DOMAIN s.orders, NEW p \in PaperOrder
    PROVE  LET t == [s EXCEPT !.orders[n] = p]
           IN /\ ExchangeType(t) /\ SameAccount(s, t) /\ t.queue = s.queue /\ DOMAIN t = DOMAIN s
              /\ DOMAIN t.orders = DOMAIN s.orders /\ t.orders[n] = p
              /\ \A m \in DOMAIN s.orders \ {n} : t.orders[m] = s.orders[m]
              /\ \A m : RestsAt(t, m) = RestsAt(s, m)
<1> DEFINE t == [s EXCEPT !.orders[n] = p]
           os == [s.orders EXCEPT ![n] = p]
<1>1. /\ Len(s.orders) \in Nat /\ DOMAIN s.orders = 1..Len(s.orders)
      /\ \A m \in DOMAIN s.orders : s.orders[m] \in PaperOrder
      /\ "orders" \in DOMAIN s
  BY ExchangeTypes DEF ExchangeType
<1>2. t = [s EXCEPT !.orders = os]
  OBVIOUS
<1>3. /\ DOMAIN os = DOMAIN s.orders /\ os[n] = p
      /\ \A m \in DOMAIN s.orders \ {n} : os[m] = s.orders[m]
      /\ os \in [1..Len(s.orders) -> PaperOrder]
  BY <1>1
<1>4. os \in Seq(PaperOrder)
  <2> HIDE DEF os
  <2> QED
    BY <1>1, <1>3, OrdersAreSeq
<1> HIDE DEF os
<1>5. t.orders = os /\ t.queue = s.queue /\ SameAccount(s, t) /\ DOMAIN t = DOMAIN s
  BY <1>1, <1>2 DEF SameAccount
<1> HIDE DEF t
<1>6. ExchangeType(t)
  BY <1>3, <1>4, <1>5 DEF ExchangeType, SameAccount
<1>7. \A m : RestsAt(t, m) = RestsAt(s, m)
  BY <1>5 DEF RestsAt
<1> QED
  BY <1>3, <1>5, <1>6, <1>7 DEF t

(* The book does not notice what becomes of an order that does not rest.   *)
LEMMA BookFrame ==
    ASSUME NEW s, BookInv(s), NEW t, ExchangeType(t), t.queue = s.queue,
           DOMAIN t.orders = DOMAIN s.orders, NEW n \in DOMAIN s.orders, RestsAt(s, n) = {},
           OrderInv(t.orders[n]), \A m \in DOMAIN s.orders \ {n} : t.orders[m] = s.orders[m]
    PROVE  BookInv(t) /\ \A i \in DOMAIN s.queue : Left(t, i) = Left(s, i)
<1>1. \A m : RestsAt(t, m) = RestsAt(s, m)
  BY DEF RestsAt
<1>2. ASSUME NEW i \in DOMAIN s.queue, s.queue[i].owner = "PAPER"
      PROVE  s.queue[i].id \in DOMAIN s.orders \ {n}
  <2>1. EntryInv(s, i)
    BY DEF BookInv
  <2>2. s.queue[i].id \in DOMAIN s.orders /\ RestsAt(s, s.queue[i].id) = {i}
    BY <1>2, <2>1 DEF EntryInv
  <2> QED
    BY <2>2
<1>3. ASSUME NEW i \in DOMAIN s.queue PROVE Left(t, i) = Left(s, i)
  BY <1>2 DEF Left, Remaining
<1>4. ASSUME NEW i \in DOMAIN t.queue PROVE EntryInv(t, i)
  <2>1. EntryInv(s, i)
    BY DEF BookInv
  <2>2. CASE s.queue[i].owner = "PAPER"
    <3>1. t.orders[s.queue[i].id] = s.orders[s.queue[i].id] /\ s.queue[i].id \in DOMAIN t.orders
      BY <1>2, <2>2
    <3>2. InFront(t, i) = InFront(s, i) /\ InFront(s, i) \subseteq DOMAIN s.queue
      BY DEF InFront
    <3>3. \A j \in InFront(s, i) : Left(t, j) = Left(s, j)
      BY <1>3, <3>2
    <3>4. Total(t, InFront(s, i)) = Total(s, InFront(s, i))
      BY <3>3, TotalSame
    <3> QED
      BY <1>1, <2>1, <2>2, <3>1, <3>2, <3>4 DEF EntryInv
  <2>3. CASE s.queue[i].owner # "PAPER"
    BY <2>1, <2>3 DEF EntryInv
  <2> QED
    BY <2>2, <2>3
<1>5. \A m \in DOMAIN t.orders : OrderInv(t.orders[m])
  BY DEF BookInv
<1> QED
  BY <1>3, <1>4, <1>5 DEF BookInv

(* An order in limbo may change. *)
LimboChanged(s, n, p, t) ==
    /\ ExchangeInv(t, {n}) /\ SameAccount(s, t) /\ t.queue = s.queue
    /\ DOMAIN t.orders = DOMAIN s.orders /\ t.orders[n] = p
    /\ \A m \in DOMAIN s.orders \ {n} : t.orders[m] = s.orders[m]

(* It stays in limbo. *)
LEMMA LimboChange ==
    ASSUME NEW s, NEW n \in DOMAIN s.orders, ExchangeInv(s, {n}), NEW p \in PaperOrder, OrderInv(p)
    PROVE  LimboChanged(s, n, p, [s EXCEPT !.orders[n] = p])
<1> DEFINE t == [s EXCEPT !.orders[n] = p]
<1>1. BookInv(s) /\ ExchangeType(s) /\ Nowhere(s, n)
  BY DEF ExchangeInv, BookInv
<1>2. /\ ExchangeType(t) /\ SameAccount(s, t) /\ t.queue = s.queue
      /\ DOMAIN t.orders = DOMAIN s.orders /\ t.orders[n] = p
      /\ \A m \in DOMAIN s.orders \ {n} : t.orders[m] = s.orders[m]
      /\ \A m : RestsAt(t, m) = RestsAt(s, m)
  BY <1>1, OrderReplaced, SMTT(30)
<1> HIDE DEF t
<1>3. BookInv(t)
  <2>1. RestsAt(s, n) = {} /\ OrderInv(t.orders[n])
    BY <1>1, <1>2 DEF Nowhere
  <2> QED
    BY <1>1, <1>2, <2>1, BookFrame
<1>4. ASSUME NEW m \in DOMAIN t.orders
      PROVE  IF m \in {n} THEN Nowhere(t, m) ELSE PlaceInv(t, m)
  <2>1. CASE m = n
    BY <1>1, <1>2, <2>1 DEF Nowhere, InFlight, SameAccount
  <2>2. CASE m # n
    <3>1. PlaceInv(s, m) /\ t.orders[m] = s.orders[m]
      BY <1>2, <2>2 DEF ExchangeInv
    <3> QED
      BY <1>2, <2>2, <3>1 DEF PlaceInv, InFlight, SameAccount
  <2> QED
    BY <2>1, <2>2
<1>5. ExchangeInv(t, {n})
  BY <1>3, <1>4 DEF ExchangeInv
<1>6. LimboChanged(s, n, p, t)
  BY <1>2, <1>5 DEF LimboChanged
<1> QED
  BY <1>6 DEF t

(* An order that is over needs no place. *)
LEMMA LimboOver ==
    ASSUME NEW s, NEW n \in DOMAIN s.orders, ExchangeInv(s, {n}), s.orders[n].status \notin WORKING
    PROVE  ExchangeInv(s, {})
<1>1. PlaceInv(s, n)
  <2>1. Nowhere(s, n)
    BY DEF ExchangeInv
  <2> QED
    BY <2>1 DEF Nowhere, PlaceInv, WORKING, RESTING
<1> QED
  BY <1>1 DEF ExchangeInv

(* Its end is recorded in its status. *)
LEMMA StatusOver ==
    ASSUME NEW s, NEW n \in DOMAIN s.orders, ExchangeInv(s, {n}), NEW outcome \in Statuses,
           LET o == s.orders[n]
           IN /\ outcome \in {"CANCELLED", "REJECTED", "EXPIRED"} /\ o.status # "FILLED"
              /\ outcome = "REJECTED" => o.filled = 0
    PROVE  LET t == SetStatus(s, n, outcome)
           IN /\ ExchangeInv(t, {}) /\ SameAccount(s, t) /\ t.queue = s.queue
              /\ DOMAIN t.orders = DOMAIN s.orders
              /\ t.orders[n] = [s.orders[n] EXCEPT !.status = outcome]
              /\ \A m \in DOMAIN s.orders \ {n} : t.orders[m] = s.orders[m]
<1> DEFINE o == s.orders[n]
           p == [o EXCEPT !.status = outcome]
           t == SetStatus(s, n, outcome)
<1>1. ExchangeType(s) /\ OrderInv(o)
  BY DEF ExchangeInv, BookInv
<1>2. o \in PaperOrder
  BY <1>1, ExchangeTypes
<1>3. t = [s EXCEPT !.orders[n] = p]
  BY DEF SetStatus
<1>4. p \in PaperOrder /\ OrderInv(p) /\ p.status = outcome
  <2>1. /\ outcome \in {"CANCELLED", "REJECTED", "EXPIRED"} /\ o.status # "FILLED"
        /\ outcome = "REJECTED" => o.filled = 0
    OBVIOUS
  <2> HIDE DEF o
  <2>2. /\ p \in PaperOrder /\ p.status = outcome /\ p.filled = o.filled /\ p.qty = o.qty
        /\ p.type = o.type /\ p.given = o.given /\ p.tif = o.tif
    BY <1>2 DEF PaperOrder
  <2> HIDE DEF p
  <2> QED
    BY <1>1, <2>1, <2>2 DEF OrderInv
<1> HIDE DEF o
<1> HIDE DEF p, t
<1>5. /\ ExchangeInv(t, {n}) /\ SameAccount(s, t) /\ t.queue = s.queue
      /\ DOMAIN t.orders = DOMAIN s.orders /\ t.orders[n] = p
      /\ \A m \in DOMAIN s.orders \ {n} : t.orders[m] = s.orders[m]
  <2>1. LimboChanged(s, n, p, [s EXCEPT !.orders[n] = p])
    BY <1>4, LimboChange
  <2> QED
    BY <1>3, <2>1 DEF LimboChanged
<1>6. ExchangeInv(t, {})
  <2>1. n \in DOMAIN t.orders /\ t.orders[n].status \notin WORKING
    BY <1>4, <1>5 DEF WORKING
  <2> QED
    BY <1>5, <2>1, LimboOver
<1> QED
  BY <1>5, <1>6 DEF p, o, t

-----------------------------------------------------------------------------
(* The engine *)

(* What an execution leaves alone *)
SameButFills(b, c) ==
    /\ c.stops = b.stops /\ c.inflight = b.inflight
    /\ c.cash = b.cash /\ c.position = b.position /\ c.now = b.now

(* Orders keep their places when cash, position, clock or fills change.    *)
LEMMA AccountChange ==
    ASSUME NEW s, NEW limbo, ExchangeInv(s, limbo), NEW t, ExchangeType(t), t.queue = s.queue,
           t.orders = s.orders, t.stops = s.stops, t.inflight = s.inflight
    PROVE  ExchangeInv(t, limbo)
<1>1. \A i \in DOMAIN s.queue : Left(t, i) = Left(s, i)
  BY DEF Left, Remaining
<1>2. \A m : RestsAt(t, m) = RestsAt(s, m)
  BY DEF RestsAt
<1>3. ASSUME NEW i \in DOMAIN t.queue PROVE EntryInv(t, i)
  <2>1. EntryInv(s, i)
    BY DEF ExchangeInv, BookInv
  <2>2. InFront(t, i) = InFront(s, i) /\ InFront(s, i) \subseteq DOMAIN s.queue
    BY DEF InFront
  <2>3. Total(t, InFront(s, i)) = Total(s, InFront(s, i))
    BY <1>1, <2>2, TotalSame
  <2> QED
    BY <1>2, <2>1, <2>2, <2>3 DEF EntryInv
<1>4. BookInv(t)
  BY <1>3 DEF BookInv, ExchangeInv
<1>5. \A m : (Nowhere(t, m) <=> Nowhere(s, m)) /\ (PlaceInv(t, m) <=> PlaceInv(s, m))
  BY <1>2 DEF Nowhere, PlaceInv, InFlight
<1> QED
  BY <1>4, <1>5 DEF ExchangeInv

(* An execution leaves every order where its status says. *)
LEMMA ExecuteInv ==
    ASSUME NEW b, NEW limbo, ExchangeInv(b, limbo), NEW share, Hits(b, share)
    PROVE  ExchangeInv(Execute(b, share), limbo)
<1> DEFINE c == Execute(b, share)
<1>0. BookInv(b) /\ ExchangeType(b)
  BY DEF ExchangeInv, BookInv
<1>1. /\ BookInv(c) /\ SameAccount(b, c) /\ DOMAIN c.orders = DOMAIN b.orders
      /\ \A n \in DOMAIN b.orders :
            /\ c.orders[n] = [OrderHit(b, share, n) EXCEPT !.ahead = c.orders[n].ahead]
            /\ RestsAt(c, n) = IF c.orders[n].status \in RESTING THEN RestsAt(b, n) ELSE {}
  BY <1>0, ExecuteKeeps
<1> HIDE DEF c
<1>2. ASSUME NEW n \in DOMAIN c.orders PROVE IF n \in limbo THEN Nowhere(c, n) ELSE PlaceInv(c, n)
  <2>1. n \in DOMAIN b.orders /\ b.orders[n] \in PaperOrder
    BY <1>0, <1>1, ExchangeTypes
  <2>2. RightlyHit(b.orders[n], OrderHit(b, share, n), PaperHits(b, share, n), share)
    BY <1>0, <2>1, OrderHitKeeps
  <2>3. PICK p : p = OrderHit(b, share, n)
    OBVIOUS
  <2>4. /\ p \in PaperOrder /\ c.orders[n] = [p EXCEPT !.ahead = c.orders[n].ahead]
        /\ p = [b.orders[n] EXCEPT !.filled = p.filled, !.status = p.status]
        /\ PaperHits(b, share, n) = {} => p = b.orders[n]
    BY <1>1, <2>1, <2>2, <2>3 DEF RightlyHit
  <2>5. c.orders[n].status = p.status
    BY <2>4 DEF PaperOrder
  <2>6. CASE n \in limbo
    <3>1. Nowhere(b, n)
      BY <2>1, <2>6 DEF ExchangeInv
    <3>2. RestsAt(c, n) = {}
      BY <1>1, <2>1, <3>1 DEF Nowhere
    <3> QED
      BY <1>1, <2>6, <3>1, <3>2 DEF Nowhere, InFlight, SameAccount
  <2>7. CASE n \notin limbo
    <3>1. PlaceInv(b, n)
      BY <2>1, <2>7 DEF ExchangeInv
    <3>2. c.orders[n].type = b.orders[n].type /\ (Malformed(c.orders[n]) <=> Malformed(b.orders[n]))
      <4>1. PICK o : o = b.orders[n]
        OBVIOUS
      <4>2. PICK r : r = c.orders[n]
        OBVIOUS
      <4>3. /\ o \in PaperOrder /\ p = [o EXCEPT !.filled = p.filled, !.status = p.status]
            /\ r = [p EXCEPT !.ahead = r.ahead] /\ p \in PaperOrder
        BY <2>1, <2>4, <4>1, <4>2
      <4>4. /\ p.qty = o.qty /\ p.type = o.type /\ p.limit = o.limit /\ p.stop = o.stop
        BY <4>3 DEF PaperOrder
      <4>5. /\ r.qty = p.qty /\ r.type = p.type /\ r.limit = p.limit /\ r.stop = p.stop
        BY <4>3 DEF PaperOrder
      <4> QED
        BY <4>1, <4>2, <4>4, <4>5 DEF Malformed
    <3>3. CASE PaperHits(b, share, n) = {}
      <4>1. c.orders[n].status = b.orders[n].status
        BY <2>4, <2>5, <3>3
      <4>2. RestsAt(c, n) = RestsAt(b, n)
        BY <1>1, <2>1, <3>1, <4>1 DEF PlaceInv
      <4> QED
        BY <1>1, <2>7, <3>1, <3>2, <4>1, <4>2 DEF PlaceInv, InFlight, SameAccount
    <3>4. CASE PaperHits(b, share, n) # {}
      <4>1. PICK i : i \in PaperHits(b, share, n)
        BY <3>4
      <4>2. c.orders[n].status \in {"FILLED", "PARTIALLY_FILLED"}
        BY <2>2, <2>3, <2>5, <4>1 DEF RightlyHit
      <4>3. i \in RestsAt(b, n)
        BY <4>1 DEF PaperHits, RestsAt, Hits
      <4>4. b.orders[n].status \in RESTING
        BY <3>1, <4>3 DEF PlaceInv
      <4>5. ~InFlight(b, n) /\ n \notin b.stops
        BY <3>1, <4>4 DEF PlaceInv, RESTING
      <4>6. RestsAt(c, n) # {} <=> c.orders[n].status \in RESTING
        BY <1>1, <2>1, <4>3
      <4> QED
        BY <1>1, <2>7, <4>2, <4>5, <4>6 DEF PlaceInv, InFlight, SameAccount
    <3> QED
      BY <3>3, <3>4
  <2> QED
    BY <2>6, <2>7
<1> QED
  BY <1>1, <1>2 DEF ExchangeInv, c

(* Fill events that were added. *)
LEMMA FillsAdded ==
    ASSUME NEW s, NEW limbo, ExchangeInv(s, limbo), NEW F, IsFiniteSet(F), F \subseteq FillEvent,
           \A f \in F : f.order \in DOMAIN s.orders
    PROVE  LET t == [s EXCEPT !.fills = @ \cup F]
           IN /\ ExchangeInv(t, limbo) /\ t.queue = s.queue /\ t.orders = s.orders
              /\ SameButFills(s, t) /\ t.fills = s.fills \cup F
<1> DEFINE t == [s EXCEPT !.fills = @ \cup F]
<1>1. ExchangeType(s) /\ "fills" \in DOMAIN s
  BY DEF ExchangeInv, BookInv, ExchangeType
<1>2. /\ t.queue = s.queue /\ t.orders = s.orders /\ SameButFills(s, t) /\ t.fills = s.fills \cup F
      /\ DOMAIN t = DOMAIN s
  BY <1>1 DEF SameButFills
<1> HIDE DEF t
<1>3. IsFiniteSet(s.fills \cup F)
  BY <1>1, FS_Union DEF ExchangeType
<1>4. ExchangeType(t)
  BY <1>1, <1>2, <1>3 DEF ExchangeType, SameButFills
<1>5. ExchangeInv(t, limbo)
  BY <1>2, <1>4, AccountChange DEF SameButFills
<1> QED
  BY <1>2, <1>5 DEF t

(* The events of an execution are fill events. *)
LEMMA FillsType ==
    ASSUME NEW g, ExchangeType(g), NEW n \in Nat, NEW shares, NEW I, I \subseteq DOMAIN shares,
           DOMAIN shares \subseteq DOMAIN g.queue, IsFiniteSet(DOMAIN shares),
           \A i \in DOMAIN shares : shares[i] \in Nat
    PROVE  IsFiniteSet(FillsOf(g, n, shares, I)) /\ FillsOf(g, n, shares, I) \subseteq FillEvent
<1> DEFINE ev == [i \in I |-> [order |-> IF n = None THEN g.queue[i].id ELSE n, price |-> g.queue[i].price,
                              qty |-> shares[i], entry |-> i]]
<1>1. FillsOf(g, n, shares, I) = {ev[i] : i \in I}
  BY DEF FillsOf
<1>2. \A i \in I : ev[i] \in FillEvent
  <2>1. \A i \in I : g.queue[i] \in QueueEntry /\ i \in Nat
    BY ExchangeTypes
  <2> QED
    BY <2>1 DEF FillEvent, QueueEntry
<1>3. IsFiniteSet(I)
  BY FS_Subset
<1> HIDE DEF ev
<1>4. IsFiniteSet({ev[i] : i \in I})
  BY <1>3, ImageIsFinite
<1> QED
  BY <1>1, <1>2, <1>4

(* Order n of g has got k shares from market entries, h is the result.     *)
HasTaken(g, n, shares, k, h) ==
    LET o == g.orders[n]
        p == h.orders[n]
    IN /\ ExchangeInv(h, {n}) /\ SameButFills(g, h) /\ DOMAIN h.orders = DOMAIN g.orders
       /\ h.fills = g.fills \cup FillsOf(g, n, shares, DOMAIN shares)
       /\ \A m \in DOMAIN g.orders \ {n} :
             h.orders[m] = [g.orders[m] EXCEPT !.ahead = h.orders[m].ahead]
       /\ k \in Nat /\ p.filled = o.filled + k
       /\ p.status = IF k = 0 THEN "ACCEPTED"
                     ELSE IF p.filled = o.qty THEN "FILLED" ELSE "PARTIALLY_FILLED"
       /\ p = [o EXCEPT !.filled = p.filled, !.status = p.status, !.ahead = p.ahead]

(* An order takes market liquidity: it is filled by what it got, the       *)
(* others are as they were.                                                *)
LEMMA TakenKeeps ==
    ASSUME NEW g, NEW n \in DOMAIN g.orders, ExchangeInv(g, {n}), NEW shares, Hits(g, shares),
           IsFiniteSet(DOMAIN shares), \A i \in DOMAIN shares : g.queue[i].owner = "MARKET",
           NEW k, k = SumFunctionOnSet(shares, DOMAIN shares), k <= Remaining(g, n),
           LET o == g.orders[n]
           IN /\ o.tif = "FOK" /\ o.given \in {"limit", "stop_limit"} => k = 0 \/ k = Remaining(g, n)
              /\ o.status = "ACCEPTED"
    PROVE  HasTaken(g, n, shares, k, Taken(g, n, shares))
<1> DEFINE e == Execute(g, shares)
           o == g.orders[n]
           q == IF DOMAIN shares = {} THEN e.orders[n] ELSE RecordFill(e.orders[n], k)
           F == FillsOf(g, n, shares, DOMAIN shares)
           e2 == [e EXCEPT !.orders[n] = q]
           h == Taken(g, n, shares)
<1>0. BookInv(g) /\ ExchangeType(g) /\ o \in PaperOrder /\ OrderInv(o) /\ o.status = "ACCEPTED"
  BY ExchangeTypes DEF ExchangeInv, BookInv
<1>1. /\ ExchangeInv(e, {n}) /\ SameAccount(g, e) /\ DOMAIN e.orders = DOMAIN g.orders
      /\ \A m \in DOMAIN g.orders :
            e.orders[m] = [OrderHit(g, shares, m) EXCEPT !.ahead = e.orders[m].ahead]
  BY <1>0, ExecuteKeeps, ExecuteInv
<1>2. \A m : PaperHits(g, shares, m) = {}
  BY DEF PaperHits, IsPaper
<1>3. \A m \in DOMAIN g.orders : e.orders[m] = [g.orders[m] EXCEPT !.ahead = e.orders[m].ahead]
  BY <1>1, <1>2 DEF OrderHit
<1>4. \A m \in DOMAIN g.orders : e.orders[m] \in PaperOrder /\ OrderInv(e.orders[m])
  BY <1>1, ExchangeTypes DEF ExchangeInv, BookInv
<1>5. h = [e2 EXCEPT !.fills = @ \cup F]
  <2>1. ExchangeType(e)
    BY <1>1 DEF ExchangeInv, BookInv
  <2>2. "orders" \in DOMAIN e /\ "fills" \in DOMAIN e
    BY <2>1 DEF ExchangeType
  <2>3. h = [e EXCEPT !.orders[n] = q, !.fills = @ \cup F]
    BY DEF Taken
  <2> HIDE DEF e, q, F, h
  <2> QED
    BY <2>2, <2>3
<1>6. PICK r : r = e.orders[n]
  OBVIOUS
<1>7. r \in PaperOrder /\ OrderInv(r) /\ r = [o EXCEPT !.ahead = r.ahead]
  BY <1>3, <1>4, <1>6
<1>8. /\ r.filled = o.filled /\ r.qty = o.qty /\ r.tif = o.tif /\ r.given = o.given
      /\ r.status = o.status
  <2> HIDE DEF o
  <2> QED
    BY <1>0, <1>7 DEF PaperOrder
<1>9. \A i \in DOMAIN shares : shares[i] \in Nat /\ shares[i] > 0 /\ shares[i] \in Int
  BY DEF Hits
<1>10. k \in Nat /\ (k = 0 <=> DOMAIN shares = {})
  <2>1. k \in Nat /\ \A i \in DOMAIN shares : shares[i] <= k
    BY <1>9, SumCovers
  <2>2. DOMAIN shares = {} => k = 0
    BY <1>9, SumType
  <2>3. ASSUME DOMAIN shares # {} PROVE k # 0
    <3>1. PICK i : i \in DOMAIN shares
      BY <2>3
    <3>2. shares[i] \in Nat /\ shares[i] > 0 /\ shares[i] <= k
      BY <1>9, <2>1, <3>1
    <3> QED
      BY <2>1, <3>2
  <2> QED
    BY <2>1, <2>2, <2>3
<1>11. k <= o.qty - o.filled
  BY DEF Remaining
<1>12. /\ q \in PaperOrder /\ OrderInv(q) /\ q.filled = o.filled + k
       /\ q.status = IF k = 0 THEN "ACCEPTED"
                     ELSE IF q.filled = o.qty THEN "FILLED" ELSE "PARTIALLY_FILLED"
       /\ q = [r EXCEPT !.filled = q.filled, !.status = q.status]
  <2>1. CASE DOMAIN shares = {}
    <3>1. q = r /\ k = 0
      BY <1>6, <1>10, <2>1
    <3>2. r = [r EXCEPT !.filled = r.filled, !.status = r.status]
      BY <1>7 DEF PaperOrder
    <3>3. o.filled \in Nat
      BY <1>0 DEF PaperOrder
    <3>4. o.status = "ACCEPTED"
      BY <1>0
    <3> HIDE DEF q, o
    <3>5. q.filled = o.filled + k
      BY <1>8, <3>1, <3>3
    <3>6. q.status = "ACCEPTED"
      BY <1>8, <3>1, <3>4
    <3> QED
      BY <1>7, <3>1, <3>2, <3>5, <3>6
  <2>2. CASE DOMAIN shares # {}
    <3>1. q = RecordFill(r, k) /\ 0 < k
      BY <1>6, <1>10, <2>2
    <3>2. r.tif = "FOK" /\ r.given \in {"limit", "stop_limit"} => r.filled + k = r.qty
      <4>1. o.tif = "FOK" /\ o.given \in {"limit", "stop_limit"} => k = 0 \/ k = o.qty - o.filled
        BY DEF Remaining
      <4>2. o.qty \in Nat /\ o.filled \in Nat
        BY <1>0 DEF PaperOrder
      <4> HIDE DEF o
      <4> QED
        BY <1>8, <3>1, <4>1, <4>2
    <3>3. k <= r.qty - r.filled
      BY <1>8, <1>11
    <3> HIDE DEF q, o
    <3>4. /\ q \in PaperOrder /\ OrderInv(q) /\ q.filled = r.filled + k
          /\ q.status = IF r.filled + k = r.qty THEN "FILLED" ELSE "PARTIALLY_FILLED"
          /\ q = [r EXCEPT !.filled = q.filled, !.status = q.status]
      BY <1>7, <1>10, <3>1, <3>2, <3>3, RecordFillKeeps
    <3> QED
      BY <1>8, <1>10, <2>2, <3>4
  <2> QED
    BY <2>1, <2>2
<1>13. q = [o EXCEPT !.filled = q.filled, !.status = q.status, !.ahead = q.ahead]
  <2> HIDE DEF q, o
  <2> QED
    BY <1>0, <1>7, <1>12 DEF PaperOrder
<1> HIDE DEF q, e, o
<1>14. /\ ExchangeInv(e2, {n}) /\ SameAccount(e, e2) /\ e2.queue = e.queue
       /\ DOMAIN e2.orders = DOMAIN e.orders /\ e2.orders[n] = q
       /\ \A m \in DOMAIN e.orders \ {n} : e2.orders[m] = e.orders[m]
  <2>1. n \in DOMAIN e.orders
    BY <1>1
  <2>2. LimboChanged(e, n, q, e2)
    BY <1>1, <1>12, <2>1, LimboChange
  <2> HIDE DEF e2
  <2> QED
    BY <2>2 DEF LimboChanged
<1> HIDE DEF e2
<1>15. IsFiniteSet(F) /\ F \subseteq FillEvent /\ \A f \in F : f.order \in DOMAIN e2.orders
  <2>1. n \in Nat /\ n # None
    BY <1>0, ExchangeTypes DEF None
  <2>2. IsFiniteSet(F) /\ F \subseteq FillEvent
    BY <1>0, <1>9, <2>1, FillsType DEF Hits
  <2>3. \A f \in F : f.order = n
    BY <2>1 DEF FillsOf
  <2> HIDE DEF F
  <2> QED
    BY <1>1, <1>14, <2>2, <2>3
<1>16. /\ ExchangeInv(h, {n}) /\ h.queue = e2.queue /\ h.orders = e2.orders
       /\ SameButFills(e2, h) /\ h.fills = e2.fills \cup F
  <2> HIDE DEF F, h
  <2> QED
    BY <1>5, <1>14, <1>15, FillsAdded
<1> HIDE DEF h
<1>17. SameButFills(g, h) /\ h.fills = g.fills \cup F
  BY <1>1, <1>14, <1>16 DEF SameAccount, SameButFills
<1>18. ASSUME NEW m \in DOMAIN g.orders \ {n}
       PROVE  h.orders[m] = [g.orders[m] EXCEPT !.ahead = h.orders[m].ahead]
  BY <1>1, <1>3, <1>14, <1>16
<1>19. h.orders[n] = q /\ DOMAIN h.orders = DOMAIN g.orders
  BY <1>1, <1>14, <1>16
<1> QED
  BY <1>10, <1>12, <1>13, <1>16, <1>17, <1>18, <1>19 DEF h, o, HasTaken

(* ... up to what remains of it: all of that, if there is enough. *)
LEMMA TakeIsTaken ==
    ASSUME NEW g, NEW n \in DOMAIN g.orders, ExchangeInv(g, {n}), NEW limit,
           g.orders[n].status = "ACCEPTED",
           LET o == g.orders[n]
           IN o.tif = "FOK" /\ o.given \in {"limit", "stop_limit"} => Available(g, o.side, limit) >= o.qty
    PROVE  LET o == g.orders[n]
               shares == Shares(g, o.side, OfMarket(g, Path(g, o.side, limit)), Remaining(g, n))
               k == SumFunctionOnSet(shares, DOMAIN shares)
           IN /\ Take(g, n, limit) = Taken(g, n, shares)
              /\ Hits(g, shares) /\ IsFiniteSet(DOMAIN shares)
              /\ DOMAIN shares \subseteq OfMarket(g, Path(g, o.side, limit))
              /\ \A i \in DOMAIN shares : g.queue[i].owner = "MARKET"
              /\ k \in Nat /\ k <= Remaining(g, n) /\ Available(g, o.side, limit) \in Nat
              /\ k = IF Remaining(g, n) <= Available(g, o.side, limit) THEN Remaining(g, n)
                     ELSE Available(g, o.side, limit)
              /\ o.tif = "FOK" /\ o.given \in {"limit", "stop_limit"} => k = 0 \/ k = Remaining(g, n)
<1> DEFINE o == g.orders[n]
           path == OfMarket(g, Path(g, o.side, limit))
           shares == Shares(g, o.side, path, Remaining(g, n))
           k == SumFunctionOnSet(shares, DOMAIN shares)
<1>1. BookInv(g) /\ ExchangeType(g) /\ o \in PaperOrder /\ OrderInv(o)
  BY ExchangeTypes DEF ExchangeInv, BookInv
<1>2. Take(g, n, limit) = Taken(g, n, shares)
  BY DEF Take
<1>3. path \in SUBSET DOMAIN g.queue /\ \A i \in path : g.queue[i].owner = "MARKET"
  BY DEF OfMarket, Path
<1>4. /\ Remaining(g, n) \in Nat /\ o.filled = 0 /\ Remaining(g, n) = o.qty /\ o.qty \in Nat
  <2>1. o.status = "ACCEPTED"
    OBVIOUS
  <2>2. o.filled = 0 /\ o.qty \in Nat
    BY <1>1, <2>1 DEF OrderInv, PaperOrder
  <2> QED
    BY <2>2 DEF Remaining
<1>5. Available(g, o.side, limit) = Total(g, path)
  BY DEF Available
<1>5a. o.tif = "FOK" /\ o.given \in {"limit", "stop_limit"} => Total(g, path) >= o.qty
  BY DEF Available
<1> HIDE DEF path
<1>6. /\ Hits(g, shares) /\ DOMAIN shares \subseteq path /\ IsFiniteSet(DOMAIN shares)
      /\ k = IF Remaining(g, n) <= Total(g, path) THEN Remaining(g, n) ELSE Total(g, path)
      /\ Total(g, path) \in Nat
  BY <1>1, <1>3, <1>4, SharesHit
<1> HIDE DEF shares
<1>7. k \in Nat /\ k <= Remaining(g, n)
  BY <1>4, <1>6
<1>8. o.tif = "FOK" /\ o.given \in {"limit", "stop_limit"} => k = 0 \/ k = Remaining(g, n)
  BY <1>4, <1>5a, <1>6
<1>9. \A i \in DOMAIN shares : g.queue[i].owner = "MARKET"
  BY <1>3, <1>6
<1> HIDE DEF k, o
<1> QED
  BY <1>2, <1>5, <1>6, <1>7, <1>8, <1>9 DEF o, k, shares, path

-----------------------------------------------------------------------------
(* Who joins the queue is behind all who are there. *)
LEMMA JoinedLast ==
    ASSUME NEW q, IsFiniteSet(DOMAIN q), DOMAIN q \subseteq Nat, NEW e
    PROVE  \E t \in Nat : /\ \A i \in DOMAIN q : i < t /\ Joined(q, e)[i] = q[i]
                          /\ t \notin DOMAIN q /\ Joined(q, e)[t] = e
                          /\ DOMAIN Joined(q, e) = DOMAIN q \cup {t}
<1> DEFINE S == DOMAIN q \cup {0}
<1>1. IsFiniteSet(S) /\ S \subseteq Int /\ S # {}
  BY FS_AddElement
<1>2. Max(S) \in S /\ \A y \in S : y <= Max(S)
  <2> HIDE DEF S
  <2> QED
    BY <1>1, LargestExists
<1>3. Max(S) \in Nat /\ \A i \in DOMAIN q : i <= Max(S)
  BY <1>2
<1>4. PICK t : t = 1 + Max(S)
  OBVIOUS
<1>5. t \in Nat /\ (\A i \in DOMAIN q : i < t) /\ t \notin DOMAIN q
  <2> HIDE DEF S
  <2> QED
    BY <1>3, <1>4
<1>6. Joined(q, e) = [i \in DOMAIN q \cup {t} |-> IF i = t THEN e ELSE q[i]]
  BY <1>4 DEF Joined, Extended
<1> QED
  BY <1>5, <1>6

(* The book with a new entry: nobody's position changes. *)
LEMMA JoinKeeps ==
    ASSUME NEW s, BookInv(s), NEW e \in QueueEntry, NEW t, ExchangeType(t),
           t.queue = Joined(s.queue, e), DOMAIN t.orders = DOMAIN s.orders,
           \A m \in DOMAIN s.orders : OrderInv(t.orders[m]) /\ Remaining(t, m) = Remaining(s, m),
           IF e.owner = "PAPER"
           THEN /\ e.id \in DOMAIN s.orders /\ RestsAt(s, e.id) = {}
                /\ MayRest(t.orders[e.id], e) /\ t.orders[e.id].status \in RESTING
                /\ t.orders[e.id].filled < t.orders[e.id].qty
                /\ t.orders[e.id].ahead = Total(s, Level(s, e.side, e.price))
                /\ \A m \in DOMAIN s.orders \ {e.id} : t.orders[m] = s.orders[m]
           ELSE e.left > 0 /\ t.orders = s.orders
    PROVE  /\ BookInv(t)
           /\ \A m : RestsAt(t, m) = {} <=> RestsAt(s, m) = {} /\ ~IsPaper(e, m)
<1>1. ExchangeType(s) /\ \A i \in DOMAIN s.queue : EntryInv(s, i)
  BY DEF BookInv
<1>2. PICK k \in Nat : /\ \A i \in DOMAIN s.queue : i < k /\ t.queue[i] = s.queue[i]
                       /\ k \notin DOMAIN s.queue /\ t.queue[k] = e
                       /\ DOMAIN t.queue = DOMAIN s.queue \cup {k}
  <2>1. IsFiniteSet(DOMAIN s.queue) /\ DOMAIN s.queue \subseteq Nat
    BY <1>1 DEF ExchangeType
  <2>2. PICK q : q = s.queue
    OBVIOUS
  <2>3. PICK r : r = Joined(q, e)
    OBVIOUS
  <2>4. \E k \in Nat : /\ \A i \in DOMAIN q : i < k /\ r[i] = q[i]
                       /\ k \notin DOMAIN q /\ r[k] = e
                       /\ DOMAIN r = DOMAIN q \cup {k}
    <3>1. IsFiniteSet(DOMAIN q) /\ DOMAIN q \subseteq Nat
      BY <2>1, <2>2
    <3>2. \E k \in Nat : /\ \A i \in DOMAIN q : i < k /\ Joined(q, e)[i] = q[i]
                         /\ k \notin DOMAIN q /\ Joined(q, e)[k] = e
                         /\ DOMAIN Joined(q, e) = DOMAIN q \cup {k}
      BY <3>1, JoinedLast
    <3> QED
      BY <2>3, <3>2
  <2> QED
    BY <2>2, <2>3, <2>4
<1>3. \A i \in DOMAIN s.queue : i \in Nat /\ s.queue[i] \in QueueEntry
  BY <1>1, ExchangeTypes
<1>4. ASSUME NEW i \in DOMAIN s.queue PROVE Left(t, i) = Left(s, i)
  <2>1. s.queue[i].owner = "PAPER" => s.queue[i].id \in DOMAIN s.orders
    BY <1>1 DEF EntryInv
  <2> QED
    BY <1>2, <2>1 DEF Left
<1>5. \A m : RestsAt(t, m) = RestsAt(s, m) \cup (IF IsPaper(e, m) THEN {k} ELSE {})
  BY <1>2 DEF RestsAt
<1>6. ASSUME NEW i \in DOMAIN s.queue PROVE EntryInv(t, i)
  <2>1. EntryInv(s, i) /\ t.queue[i] = s.queue[i]
    BY <1>1, <1>2
  <2>2. CASE s.queue[i].owner = "PAPER"
    <3> DEFINE n == s.queue[i].id
    <3>1. n \in DOMAIN s.orders /\ RestsAt(s, n) = {i}
      BY <2>1, <2>2 DEF EntryInv
    <3>2. ~IsPaper(e, n)
      BY <3>1 DEF IsPaper
    <3>3. t.orders[n] = s.orders[n]
      BY <3>1, <3>2 DEF IsPaper
    <3>4. RestsAt(t, n) = {i}
      BY <1>5, <3>1, <3>2
    <3>5. InFront(t, i) = InFront(s, i) /\ InFront(s, i) \subseteq DOMAIN s.queue
      BY <1>2, <1>3 DEF InFront
    <3>6. Total(t, InFront(s, i)) = Total(s, InFront(s, i))
      BY <1>4, <3>5, TotalSame
    <3> QED
      BY <2>1, <2>2, <3>1, <3>3, <3>4, <3>5, <3>6 DEF EntryInv
  <2>3. CASE s.queue[i].owner # "PAPER"
    BY <2>1, <2>3 DEF EntryInv
  <2> QED
    BY <2>2, <2>3
<1>7. EntryInv(t, k)
  <2>1. CASE e.owner = "PAPER"
    <3>1. InFront(t, k) = Level(s, e.side, e.price)
      BY <1>2, <1>3 DEF InFront, Level, LevelOf
    <3>2. Total(t, Level(s, e.side, e.price)) = Total(s, Level(s, e.side, e.price))
      <4>1. \A i \in Level(s, e.side, e.price) : Left(t, i) = Left(s, i)
        BY <1>4 DEF Level
      <4> QED
        BY <4>1, TotalSame
    <3>3. RestsAt(t, e.id) = {k}
      BY <1>5, <2>1 DEF IsPaper
    <3> QED
      BY <1>2, <2>1, <3>1, <3>2, <3>3 DEF EntryInv
  <2>2. CASE e.owner # "PAPER"
    BY <1>2, <2>2 DEF EntryInv
  <2> QED
    BY <2>1, <2>2
<1>8. BookInv(t)
  BY <1>2, <1>6, <1>7 DEF BookInv
<1> QED
  BY <1>5, <1>8

(* The types of an exchange whose queue was joined. *)
LEMMA JoinedType ==
    ASSUME NEW s, ExchangeType(s), NEW e \in QueueEntry
    PROVE  LET t == [s EXCEPT !.queue = Joined(@, e)]
           IN /\ ExchangeType(t) /\ SameAccount(s, t) /\ t.orders = s.orders /\ DOMAIN t = DOMAIN s
              /\ t.queue = Joined(s.queue, e)
<1> DEFINE t == [s EXCEPT !.queue = Joined(@, e)]
           q == Joined(s.queue, e)
<1>1. t.queue = q /\ SameAccount(s, t) /\ t.orders = s.orders /\ DOMAIN t = DOMAIN s
  <2>1. "queue" \in DOMAIN s
    BY DEF ExchangeType
  <2> QED
    BY <2>1 DEF SameAccount
<1> HIDE DEF t
<1>2. PICK k \in Nat : /\ \A i \in DOMAIN s.queue : i < k /\ q[i] = s.queue[i]
                       /\ k \notin DOMAIN s.queue /\ q[k] = e
                       /\ DOMAIN q = DOMAIN s.queue \cup {k}
  BY JoinedLast DEF ExchangeType
<1>3. q = [i \in DOMAIN q |-> q[i]]
  BY DEF Joined, Extended
<1> HIDE DEF q
<1>4. IsFiniteSet(DOMAIN q) /\ DOMAIN q \subseteq Nat
  BY <1>2, FS_AddElement DEF ExchangeType
<1>5. q \in [DOMAIN q -> QueueEntry]
  <2>1. \A i \in DOMAIN q : q[i] \in QueueEntry
    BY <1>2, ExchangeTypes
  <2> QED
    BY <1>3, <2>1
<1>6. ExchangeType(t)
  BY <1>1, <1>4, <1>5 DEF ExchangeType, SameAccount
<1> QED
  BY <1>1, <1>6 DEF t, q

(* A limit order that is left over rests. *)
LEMMA AddPaperKeeps ==
    ASSUME NEW g, NEW n \in DOMAIN g.orders, ExchangeInv(g, {n}),
           LET o == g.orders[n]
           IN /\ o.type = "limit" /\ o.tif = "GTC" /\ o.limit # None
              /\ o.status \in {"ACCEPTED", "PARTIALLY_FILLED"} /\ o.filled < o.qty
    PROVE  LET h == AddPaper(g, n)
               o == g.orders[n]
               p == h.orders[n]
           IN /\ ExchangeInv(h, {}) /\ SameAccount(g, h) /\ DOMAIN h.orders = DOMAIN g.orders
              /\ \A m \in DOMAIN g.orders \ {n} : h.orders[m] = g.orders[m]
              /\ p = [o EXCEPT !.ahead = p.ahead, !.status = p.status] /\ p.status \in RESTING
<1> DEFINE o == g.orders[n]
           e == [owner |-> "PAPER", id |-> n, side |-> o.side, price |-> o.limit, left |-> 0]
           a == Total(g, Level(g, o.side, o.limit))
           p == [o EXCEPT !.ahead = a, !.status = IF o.filled = 0 THEN "QUEUED" ELSE o.status]
           d == [g EXCEPT !.orders[n] = p]
           h == AddPaper(g, n)
<1>0. /\ BookInv(g) /\ ExchangeType(g) /\ o \in PaperOrder /\ OrderInv(o) /\ Nowhere(g, n) /\ n \in Nat
      /\ o.type = "limit" /\ o.tif = "GTC" /\ o.limit # None
      /\ o.status \in {"ACCEPTED", "PARTIALLY_FILLED"} /\ o.filled < o.qty
  BY ExchangeTypes DEF ExchangeInv, BookInv
<1>1. h = [d EXCEPT !.queue = Joined(@, e)]
  <2>1. "queue" \in DOMAIN g /\ "orders" \in DOMAIN g
    BY <1>0 DEF ExchangeType
  <2>2. h = [g EXCEPT !.queue = Joined(@, e), !.orders[n] = p]
    BY DEF AddPaper
  <2> HIDE DEF e, p, h
  <2>3. "queue" # "orders"
    OBVIOUS
  <2> QED
    BY <2>1, <2>2, <2>3, Zenon
<1>2. a \in Nat
  <2>1. Level(g, o.side, o.limit) \in SUBSET DOMAIN g.queue /\ IsFiniteSet(DOMAIN g.queue)
    BY <1>0 DEF Level, ExchangeType
  <2>2. \A i \in Level(g, o.side, o.limit) : Left(g, i) \in Nat
    BY <1>0, <2>1, LeftType
  <2> QED
    BY <2>1, <2>2, TotalType
<1>3. e \in QueueEntry /\ e.owner = "PAPER" /\ e.id = n /\ e.side = o.side /\ e.price = o.limit
  <2>1. o.side \in {"BUY", "SELL"} /\ o.limit \in Nat
    BY <1>0 DEF PaperOrder
  <2> QED
    BY <1>0, <2>1 DEF QueueEntry
<1> HIDE DEF a
<1>4. /\ p \in PaperOrder /\ p.ahead = a /\ p.filled = o.filled /\ p.qty = o.qty
      /\ p.side = o.side /\ p.limit = o.limit /\ p.type = o.type /\ p.tif = o.tif /\ p.given = o.given
      /\ p.status = (IF o.filled = 0 THEN "QUEUED" ELSE o.status)
      /\ p = [o EXCEPT !.ahead = p.ahead, !.status = p.status]
  <2>1. "QUEUED" \in Statuses
    BY DEF Statuses, WORKING
  <2> HIDE DEF o
  <2> QED
    BY <1>0, <1>2, <2>1 DEF PaperOrder
<1> HIDE DEF p, e
<1>5. OrderInv(p) /\ p.status \in RESTING
  <2> HIDE DEF o
  <2> QED
    BY <1>0, <1>4 DEF OrderInv, RESTING
<1>6. /\ ExchangeInv(d, {n}) /\ SameAccount(g, d) /\ d.queue = g.queue
      /\ DOMAIN d.orders = DOMAIN g.orders /\ d.orders[n] = p
      /\ \A m \in DOMAIN g.orders \ {n} : d.orders[m] = g.orders[m]
  <2>1. p \in PaperOrder /\ OrderInv(p)
    BY <1>4, <1>5
  <2>2. LimboChanged(g, n, p, d)
    BY <2>1, LimboChange
  <2> HIDE DEF d
  <2> QED
    BY <2>2 DEF LimboChanged
<1> HIDE DEF d
<1>7. ExchangeType(d) /\ BookInv(d)
  BY <1>6 DEF ExchangeInv, BookInv
<1>8. ExchangeType(h) /\ SameAccount(d, h) /\ h.orders = d.orders /\ h.queue = Joined(d.queue, e)
  BY <1>1, <1>3, <1>7, JoinedType
<1> HIDE DEF h
<1>9. ASSUME NEW m \in DOMAIN d.orders PROVE OrderInv(h.orders[m]) /\ Remaining(h, m) = Remaining(d, m)
  BY <1>7, <1>8 DEF BookInv, Remaining
<1>10. /\ RestsAt(d, n) = {} /\ MayRest(h.orders[n], e) /\ h.orders[n].status \in RESTING
       /\ h.orders[n].filled < h.orders[n].qty
  <2>1. RestsAt(d, n) = {}
    BY <1>0, <1>6 DEF Nowhere, RestsAt
  <2> QED
    <3>1. h.orders[n] = p
      BY <1>6, <1>8
    <3> HIDE DEF o
    <3> QED
      BY <1>0, <1>3, <1>4, <1>5, <2>1, <3>1 DEF MayRest
<1>11. h.orders[n].ahead = Total(d, Level(d, e.side, e.price))
  <2>1. Level(d, e.side, e.price) = Level(g, o.side, o.limit)
    BY <1>3, <1>6 DEF Level
  <2>2. \A i \in Level(g, o.side, o.limit) : Left(d, i) = Left(g, i)
    <3>1. RestsAt(g, n) = {} /\ OrderInv(d.orders[n])
      BY <1>0, <1>5, <1>6 DEF Nowhere
    <3>2. \A i \in DOMAIN g.queue : Left(d, i) = Left(g, i)
      BY <1>0, <1>6, <1>7, <3>1, BookFrame
    <3> QED
      BY <3>2 DEF Level
  <2>3. Total(d, Level(g, o.side, o.limit)) = a
    BY <2>2, TotalSame DEF a
  <2> QED
    BY <1>4, <1>6, <1>8, <2>1, <2>3
<1>12. /\ BookInv(h)
       /\ \A m : RestsAt(h, m) = {} <=> RestsAt(d, m) = {} /\ ~IsPaper(e, m)
  BY <1>3, <1>6, <1>7, <1>8, <1>9, <1>10, <1>11, JoinKeeps
<1>13. ASSUME NEW m \in DOMAIN h.orders PROVE PlaceInv(h, m)
  <2>1. CASE m = n
    <3>1. Nowhere(d, n)
      BY <1>6 DEF ExchangeInv
    <3>2. RestsAt(h, n) # {}
      BY <1>3, <1>12 DEF IsPaper
    <3>3. h.orders[n].status \in RESTING
      BY <1>10
    <3> QED
      BY <1>8, <2>1, <3>1, <3>2, <3>3 DEF PlaceInv, Nowhere, InFlight, SameAccount, RESTING
  <2>2. CASE m # n
    <3>1. PlaceInv(d, m)
      BY <1>6, <1>8, <2>2 DEF ExchangeInv
    <3>2. RestsAt(h, m) = {} <=> RestsAt(d, m) = {}
      BY <1>3, <1>12, <2>2 DEF IsPaper
    <3> QED
      BY <1>8, <3>1, <3>2 DEF PlaceInv, InFlight, SameAccount
  <2> QED
    BY <2>1, <2>2
<1>14. ExchangeInv(h, {})
  BY <1>12, <1>13 DEF ExchangeInv
<1>15. SameAccount(g, h)
  BY <1>6, <1>8 DEF SameAccount
<1> HIDE DEF o
<1> QED
  BY <1>4, <1>5, <1>6, <1>8, <1>14, <1>15 DEF h, o

(* Only the queue has changed, and the invariant still holds. *)
MarketAdded(g, limbo, h) == ExchangeInv(h, limbo) /\ SameAccount(g, h) /\ h.orders = g.orders

(* Market liquidity joins. *)
LEMMA AddMarketKeeps ==
    ASSUME NEW g, NEW limbo, ExchangeInv(g, limbo), NEW id \in Nat, NEW side \in {"BUY", "SELL"},
           NEW price \in Nat, NEW size \in Nat, size > 0
    PROVE  MarketAdded(g, limbo, AddMarket(g, id, side, price, size))
<1> DEFINE e == [owner |-> "MARKET", id |-> id, side |-> side, price |-> price, left |-> size]
           h == AddMarket(g, id, side, price, size)
<1>1. h = [g EXCEPT !.queue = Joined(@, e)]
  BY DEF AddMarket
<1>2. e \in QueueEntry /\ e.owner = "MARKET" /\ e.left > 0
  BY DEF QueueEntry
<1> HIDE DEF e, h
<1>3. BookInv(g) /\ ExchangeType(g)
  BY DEF ExchangeInv, BookInv
<1>4. ExchangeType(h) /\ SameAccount(g, h) /\ h.orders = g.orders /\ h.queue = Joined(g.queue, e)
  BY <1>1, <1>2, <1>3, JoinedType
<1>5. ASSUME NEW m \in DOMAIN g.orders PROVE OrderInv(h.orders[m]) /\ Remaining(h, m) = Remaining(g, m)
  BY <1>3, <1>4 DEF BookInv, Remaining
<1>6. BookInv(h) /\ \A m : RestsAt(h, m) = {} <=> RestsAt(g, m) = {} /\ ~IsPaper(e, m)
  BY <1>2, <1>3, <1>4, <1>5, JoinKeeps
<1>7. \A m : RestsAt(h, m) = {} <=> RestsAt(g, m) = {}
  BY <1>2, <1>6 DEF IsPaper
<1>8. \A m : (PlaceInv(g, m) => PlaceInv(h, m)) /\ (Nowhere(g, m) => Nowhere(h, m))
  BY <1>4, <1>7 DEF PlaceInv, Nowhere, InFlight, SameAccount
<1>9. ExchangeInv(h, limbo)
  BY <1>4, <1>6, <1>8 DEF ExchangeInv
<1> QED
  BY <1>4, <1>9 DEF h, MarketAdded

-----------------------------------------------------------------------------
(* What flows: fills move shares and cash; whatever happens to an order,   *)
(* it asks for no more than it did.                                        *)

(* Order o becomes p: what was asked stays, what was filled stays filled,  *)
(* and what is over stays over.                                            *)
OrderMoves(o, p) ==
    /\ p.side = o.side /\ p.qty = o.qty /\ p.limit = o.limit /\ p.stop = o.stop
    /\ p.given = o.given /\ o.filled <= p.filled
    /\ o.status \notin WORKING => p.status \notin WORKING /\ p.filled = o.filled

(* What a fill adds to the position, and what it costs *)
Gains(s) == [f \in s.fills |-> Signed(s, f)]
Costs(s) == [f \in s.fills |-> Signed(s, f) * f.price]

(* The position and the cash once the fills are settled *)
SettledPosition(s) == s.position + SumFunctionOnSet(Gains(s), s.fills)
SettledCash(s) == s.cash - SumFunctionOnSet(Costs(s), s.fills)

(* What the orders have bought and sold *)
Bought(o) == IF o.side = "BUY" THEN o.filled ELSE -o.filled
Net(s) == SumFunctionOnSet([n \in DOMAIN s.orders |-> Bought(s.orders[n])], DOMAIN s.orders)

(* What an order has committed; a market order is executed at once. *)
Due(o) ==
    IF o.side = "BUY" /\ o.status \in WORKING
    THEN IF o.type = "market" THEN IF o.given = "market" /\ o.filled = 0 THEN o.estimate ELSE 0
         ELSE (o.qty - o.filled) * WorstPrice(o)
    ELSE 0
AllDue(s) == SumFunctionOnSet([n \in DOMAIN s.orders |-> Due(s.orders[n])], DOMAIN s.orders)

(* A buy that no estimate bounds, and one that was executed *)
UnboundedOrder(o) == o.side = "BUY" /\ (o.given = "stop" \/ (o.given = "market" /\ latency > 0))
Overspent(s) == \E n \in DOMAIN s.orders : UnboundedOrder(s.orders[n]) /\ s.orders[n].filled > 0

(* From g to h the position moves with what the orders bought and sold, and *)
(* the cash that is not committed does not shrink.                         *)
Flow(g, h) ==
    /\ DOMAIN h.orders = DOMAIN g.orders /\ DOMAIN h.inflight \subseteq DOMAIN g.inflight
    /\ \A n \in DOMAIN g.orders : OrderMoves(g.orders[n], h.orders[n])
    /\ SettledPosition(h) - Net(h) = SettledPosition(g) - Net(g)
    /\ SettledCash(h) - AllDue(h) >= SettledCash(g) - AllDue(g) \/ Overspent(h)

(* Numbers *)
LEMMA FlowTypes ==
    ASSUME NEW s, ExchangeType(s), \A n \in DOMAIN s.orders : s.orders[n].filled <= s.orders[n].qty
    PROVE  /\ IsFiniteSet(DOMAIN s.orders) /\ IsFiniteSet(s.fills)
           /\ \A f \in s.fills : Gains(s)[f] \in Int /\ Costs(s)[f] \in Int
           /\ \A n \in DOMAIN s.orders : Bought(s.orders[n]) \in Int /\ Due(s.orders[n]) \in Nat
           /\ SettledPosition(s) \in Int /\ SettledCash(s) \in Int /\ Net(s) \in Int /\ AllDue(s) \in Int
<1>1. /\ Len(s.orders) \in Nat /\ DOMAIN s.orders = 1..Len(s.orders)
      /\ \A n \in DOMAIN s.orders : s.orders[n] \in PaperOrder
      /\ IsFiniteSet(s.fills) /\ s.fills \subseteq FillEvent /\ s.cash \in Int /\ s.position \in Int
  BY ExchangeTypes DEF ExchangeType
<1>2. IsFiniteSet(DOMAIN s.orders)
  <2>1. PICK N \in Nat : N = Len(s.orders)
    BY <1>1
  <2>2. IsFiniteSet(1..N)
    BY FS_Interval
  <2> QED
    BY <1>1, <2>1, <2>2
<1>3. ASSUME NEW f \in s.fills PROVE Gains(s)[f] \in Int /\ Costs(s)[f] \in Int
  <2>1. f.qty \in Nat /\ f.price \in Nat
    BY <1>1 DEF FillEvent
  <2>2. Signed(s, f) \in Int
    BY <2>1 DEF Signed
  <2>3. Signed(s, f) * f.price \in Int
    BY <2>1, <2>2
  <2> QED
    BY <2>2, <2>3 DEF Gains, Costs
<1>4. ASSUME NEW n \in DOMAIN s.orders PROVE Bought(s.orders[n]) \in Int /\ Due(s.orders[n]) \in Nat
  <2>1. PICK o : o = s.orders[n]
    OBVIOUS
  <2>2. o \in PaperOrder /\ o.filled <= o.qty
    BY <1>1, <2>1
  <2>3. /\ o.filled \in Nat /\ o.qty \in Nat /\ o.estimate \in Nat /\ WorstPrice(o) \in Nat
        /\ o.qty - o.filled \in Nat
    BY <2>2 DEF PaperOrder, WorstPrice
  <2>4. (o.qty - o.filled) * WorstPrice(o) \in Nat
    BY <2>3
  <2>5. Bought(o) \in Int
    BY <2>3 DEF Bought
  <2>6. Due(o) \in Nat
    BY <2>3, <2>4 DEF Due
  <2> QED
    BY <2>1, <2>5, <2>6
<1>5. SumFunctionOnSet(Gains(s), s.fills) \in Int /\ SumFunctionOnSet(Costs(s), s.fills) \in Int
  BY <1>1, <1>3, SumType
<1>6. Net(s) \in Int
  <2> DEFINE f == [n \in DOMAIN s.orders |-> Bought(s.orders[n])]
  <2>1. \A n \in DOMAIN s.orders : f[n] \in Int
    BY <1>4
  <2> HIDE DEF f
  <2>2. SumFunctionOnSet(f, DOMAIN s.orders) \in Int
    BY <1>2, <2>1, SumType
  <2> QED
    BY <2>2 DEF f, Net
<1>7. AllDue(s) \in Int
  <2> DEFINE f == [n \in DOMAIN s.orders |-> Due(s.orders[n])]
  <2>1. \A n \in DOMAIN s.orders : f[n] \in Int
    BY <1>4
  <2> HIDE DEF f
  <2>2. SumFunctionOnSet(f, DOMAIN s.orders) \in Int
    BY <1>2, <2>1, SumType
  <2> QED
    BY <2>2 DEF f, AllDue
<1> QED
  BY <1>1, <1>2, <1>3, <1>4, <1>5, <1>6, <1>7 DEF SettledPosition, SettledCash

(* Nothing flows in no time. *)
LEMMA FlowSame ==
    ASSUME NEW s, ExchangeType(s), \A n \in DOMAIN s.orders : s.orders[n].filled <= s.orders[n].qty
    PROVE  Flow(s, s)
<1>1. /\ SettledPosition(s) \in Int /\ SettledCash(s) \in Int /\ Net(s) \in Int /\ AllDue(s) \in Int
  BY FlowTypes
<1>2. \A n \in DOMAIN s.orders : s.orders[n] \in PaperOrder
  BY ExchangeTypes
<1>3. ASSUME NEW n \in DOMAIN s.orders PROVE OrderMoves(s.orders[n], s.orders[n])
  <2>1. s.orders[n].filled \in Nat
    BY <1>2 DEF PaperOrder
  <2> QED
    BY <2>1 DEF OrderMoves
<1> QED
  BY <1>1, <1>3 DEF Flow

(* Flows go on. *)
LEMMA FlowOn ==
    ASSUME NEW f, NEW g, NEW h, Flow(f, g), Flow(g, h), BookInv(f), BookInv(g), BookInv(h)
    PROVE  Flow(f, h)
<1>1. ASSUME NEW s, BookInv(s)
      PROVE  /\ SettledPosition(s) \in Int /\ SettledCash(s) \in Int /\ Net(s) \in Int /\ AllDue(s) \in Int
             /\ \A n \in DOMAIN s.orders : s.orders[n].filled \in Nat
  <2>1. ExchangeType(s) /\ \A n \in DOMAIN s.orders : s.orders[n].filled <= s.orders[n].qty
    BY <1>1 DEF BookInv, OrderInv
  <2>2. \A n \in DOMAIN s.orders : s.orders[n] \in PaperOrder
    BY <2>1, ExchangeTypes
  <2> QED
    BY <2>1, <2>2, FlowTypes DEF PaperOrder
<1>2. ASSUME NEW n \in DOMAIN f.orders PROVE OrderMoves(f.orders[n], h.orders[n])
  <2>1. OrderMoves(f.orders[n], g.orders[n]) /\ OrderMoves(g.orders[n], h.orders[n])
    BY DEF Flow
  <2>2. f.orders[n].filled \in Nat /\ g.orders[n].filled \in Nat /\ h.orders[n].filled \in Nat
    BY <1>1 DEF Flow
  <2> QED
    BY <2>1, <2>2 DEF OrderMoves
<1>3. ASSUME Overspent(g) PROVE Overspent(h)
  <2>1. PICK n \in DOMAIN g.orders : UnboundedOrder(g.orders[n]) /\ g.orders[n].filled > 0
    BY <1>3 DEF Overspent
  <2>2. OrderMoves(g.orders[n], h.orders[n]) /\ n \in DOMAIN h.orders
    BY DEF Flow
  <2>3. g.orders[n].filled \in Nat /\ h.orders[n].filled \in Nat
    BY <1>1, <2>2
  <2>4. UnboundedOrder(h.orders[n]) /\ h.orders[n].filled > 0
    BY <2>1, <2>2, <2>3 DEF OrderMoves, UnboundedOrder
  <2> QED
    BY <2>2, <2>4 DEF Overspent
<1>4. /\ SettledPosition(f) \in Int /\ SettledCash(f) \in Int /\ Net(f) \in Int /\ AllDue(f) \in Int
      /\ SettledPosition(g) \in Int /\ SettledCash(g) \in Int /\ Net(g) \in Int /\ AllDue(g) \in Int
      /\ SettledPosition(h) \in Int /\ SettledCash(h) \in Int /\ Net(h) \in Int /\ AllDue(h) \in Int
  BY <1>1
<1>5. SettledPosition(h) - Net(h) = SettledPosition(f) - Net(f)
  BY DEF Flow
<1>6. SettledCash(h) - AllDue(h) >= SettledCash(f) - AllDue(f) \/ Overspent(h)
  BY <1>3, <1>4 DEF Flow
<1> QED
  BY <1>2, <1>5, <1>6 DEF Flow

(* The numbers of a book that is in order *)
LEMMA FlowNumbers ==
    ASSUME NEW s, BookInv(s)
    PROVE  /\ IsFiniteSet(DOMAIN s.orders) /\ IsFiniteSet(s.fills)
           /\ \A f \in s.fills : Gains(s)[f] \in Int /\ Costs(s)[f] \in Int
           /\ \A n \in DOMAIN s.orders : Bought(s.orders[n]) \in Int /\ Due(s.orders[n]) \in Nat
           /\ SettledPosition(s) \in Int /\ SettledCash(s) \in Int /\ Net(s) \in Int /\ AllDue(s) \in Int
           /\ SumFunctionOnSet(Gains(s), s.fills) \in Int /\ SumFunctionOnSet(Costs(s), s.fills) \in Int
           /\ s.cash \in Int /\ s.position \in Int
           /\ \A n \in DOMAIN s.orders : s.orders[n] \in PaperOrder /\ OrderInv(s.orders[n])
<1>1. ExchangeType(s) /\ \A n \in DOMAIN s.orders : s.orders[n].filled <= s.orders[n].qty
  BY DEF BookInv, OrderInv
<1>2. /\ IsFiniteSet(DOMAIN s.orders) /\ IsFiniteSet(s.fills)
      /\ \A f \in s.fills : Gains(s)[f] \in Int /\ Costs(s)[f] \in Int
      /\ \A n \in DOMAIN s.orders : Bought(s.orders[n]) \in Int /\ Due(s.orders[n]) \in Nat
      /\ SettledPosition(s) \in Int /\ SettledCash(s) \in Int /\ Net(s) \in Int /\ AllDue(s) \in Int
  BY <1>1, FlowTypes
<1>3. SumFunctionOnSet(Gains(s), s.fills) \in Int /\ SumFunctionOnSet(Costs(s), s.fills) \in Int
  BY <1>2, SumType
<1>4. \A n \in DOMAIN s.orders : s.orders[n] \in PaperOrder /\ OrderInv(s.orders[n])
  BY <1>1, ExchangeTypes DEF BookInv
<1> QED
  BY <1>1, <1>2, <1>3, <1>4 DEF ExchangeType

(* Fills F were added: their gains and costs are those of the orders.      *)
LEMMA FlowOfFills ==
    ASSUME NEW g, NEW h, BookInv(g), BookInv(h), h.cash = g.cash, h.position = g.position,
           DOMAIN h.inflight \subseteq DOMAIN g.inflight, DOMAIN h.orders = DOMAIN g.orders,
           \A n \in DOMAIN g.orders : OrderMoves(g.orders[n], h.orders[n]),
           NEW F, h.fills = g.fills \cup F, F \cap g.fills = {},
           SumFunctionOnSet(Gains(h), F) = Net(h) - Net(g),
           SumFunctionOnSet(Costs(h), F) <= AllDue(g) - AllDue(h) \/ Overspent(h)
    PROVE  Flow(g, h)
<1>1. /\ IsFiniteSet(h.fills) /\ IsFiniteSet(g.fills)
      /\ \A f \in h.fills : Gains(h)[f] \in Int /\ Costs(h)[f] \in Int
      /\ \A f \in g.fills : Gains(g)[f] \in Int /\ Costs(g)[f] \in Int
      /\ SettledPosition(h) \in Int /\ SettledCash(h) \in Int /\ Net(h) \in Int /\ AllDue(h) \in Int
      /\ SettledPosition(g) \in Int /\ SettledCash(g) \in Int /\ Net(g) \in Int /\ AllDue(g) \in Int
      /\ SumFunctionOnSet(Gains(g), g.fills) \in Int /\ SumFunctionOnSet(Costs(g), g.fills) \in Int
      /\ g.cash \in Int /\ g.position \in Int
  BY FlowNumbers
<1>2. IsFiniteSet(F)
  BY <1>1, FS_Subset
<1>3. SumFunctionOnSet(Gains(h), F) \in Int /\ SumFunctionOnSet(Costs(h), F) \in Int
  BY <1>1, <1>2, SumType
<1>4. ASSUME NEW f \in g.fills PROVE Gains(h)[f] = Gains(g)[f] /\ Costs(h)[f] = Costs(g)[f]
  <2>1. f.order \in DOMAIN g.orders
    BY DEF BookInv, ExchangeType
  <2>2. h.orders[f.order].side = g.orders[f.order].side
    BY <2>1 DEF OrderMoves
  <2>3. Signed(h, f) = Signed(g, f)
    BY <2>2 DEF Signed
  <2> QED
    BY <2>3 DEF Gains, Costs
<1>5. /\ SumFunctionOnSet(Gains(h), g.fills) = SumFunctionOnSet(Gains(g), g.fills)
      /\ SumFunctionOnSet(Costs(h), g.fills) = SumFunctionOnSet(Costs(g), g.fills)
  BY <1>1, <1>4, SumSame
<1>6. /\ SumFunctionOnSet(Gains(h), h.fills) = SumFunctionOnSet(Gains(h), g.fills) + SumFunctionOnSet(Gains(h), F)
      /\ SumFunctionOnSet(Costs(h), h.fills) = SumFunctionOnSet(Costs(h), g.fills) + SumFunctionOnSet(Costs(h), F)
  <2>1. g.fills \cap F = {}
    OBVIOUS
  <2>2. \A f \in g.fills \cup F : Gains(h)[f] \in Int /\ Costs(h)[f] \in Int
    BY <1>1
  <2>3. /\ SumFunctionOnSet(Gains(h), g.fills \cup F) = SumFunctionOnSet(Gains(h), g.fills) + SumFunctionOnSet(Gains(h), F)
        /\ SumFunctionOnSet(Costs(h), g.fills \cup F) = SumFunctionOnSet(Costs(h), g.fills) + SumFunctionOnSet(Costs(h), F)
    BY <1>1, <1>2, <2>1, <2>2, SumUnion
  <2> QED
    BY <2>3, Zenon
<1>7. SettledPosition(h) - Net(h) = SettledPosition(g) - Net(g)
  BY <1>1, <1>3, <1>5, <1>6 DEF SettledPosition
<1>8. SettledCash(h) - AllDue(h) >= SettledCash(g) - AllDue(g) \/ Overspent(h)
  BY <1>1, <1>3, <1>5, <1>6 DEF SettledCash
<1> QED
  BY <1>7, <1>8 DEF Flow

(* Without fills, what is due does not grow. *)
LEMMA FlowQuiet ==
    ASSUME NEW g, NEW h, BookInv(g), BookInv(h), h.cash = g.cash, h.position = g.position,
           h.fills = g.fills,
           DOMAIN h.inflight \subseteq DOMAIN g.inflight, DOMAIN h.orders = DOMAIN g.orders,
           \A n \in DOMAIN g.orders : /\ OrderMoves(g.orders[n], h.orders[n])
                                      /\ h.orders[n].filled = g.orders[n].filled
                                      /\ Due(h.orders[n]) <= Due(g.orders[n])
    PROVE  Flow(g, h)
<1> DEFINE S == DOMAIN g.orders
           bg == [n \in S |-> Bought(g.orders[n])]
           bh == [n \in S |-> Bought(h.orders[n])]
           dg == [n \in S |-> Due(g.orders[n])]
           dh == [n \in S |-> Due(h.orders[n])]
<1>1. /\ IsFiniteSet(S)
      /\ \A n \in S : bg[n] \in Int /\ dg[n] \in Int /\ dh[n] \in Int /\ dh[n] <= dg[n]
  BY FlowNumbers
<1>2. \A n \in S : bh[n] = bg[n]
  BY DEF Bought, OrderMoves
<1>3. Net(g) = SumFunctionOnSet(bg, S) /\ AllDue(g) = SumFunctionOnSet(dg, S)
  BY DEF Net, AllDue
<1>4. Net(h) = SumFunctionOnSet(bh, S) /\ AllDue(h) = SumFunctionOnSet(dh, S)
  BY Zenon DEF Net, AllDue
<1> HIDE DEF bg, bh, dg, dh
<1>5. SumFunctionOnSet(bh, S) = SumFunctionOnSet(bg, S)
  BY <1>1, <1>2, SumSame
<1>6. SumFunctionOnSet(dh, S) <= SumFunctionOnSet(dg, S)
  BY <1>1, SumAtMost
<1>7. Net(g) \in Int /\ AllDue(g) \in Int /\ AllDue(h) \in Int
  BY FlowNumbers
<1>8. SumFunctionOnSet(Gains(h), {}) = 0 /\ SumFunctionOnSet(Costs(h), {}) = 0
  <2>1. IsFiniteSet({})
    BY FS_EmptySet
  <2> QED
    BY <2>1, SumType
<1>9. /\ SumFunctionOnSet(Gains(h), {}) = Net(h) - Net(g)
      /\ SumFunctionOnSet(Costs(h), {}) <= AllDue(g) - AllDue(h)
  BY <1>3, <1>4, <1>5, <1>6, <1>7, <1>8
<1>10. h.fills = g.fills \cup {} /\ {} \cap g.fills = {}
  OBVIOUS
<1> QED
  BY <1>9, <1>10, FlowOfFills

-----------------------------------------------------------------------------
(* Taking *)

(* The price of each entry *)
PriceOf(g, shares) == [i \in DOMAIN shares |-> shares[i] * g.queue[i].price]

(* What an order pays is what it has committed, unless it is unbounded.    *)
Payable(g, n, shares) ==
    LET o == g.orders[n]
    IN o.side = "BUY" =>
          \/ UnboundedOrder(o)
          \/ o.type # "market" /\ \A i \in DOMAIN shares : g.queue[i].price <= WorstPrice(o)
          \/ /\ o.type = "market" /\ o.given = "market"
             /\ SumFunctionOnSet(PriceOf(g, shares), DOMAIN shares) <= o.estimate

(* The fills of an order that takes: together what it got, at their price. *)
LEMMA TakenFills ==
    ASSUME NEW g, NEW h, NEW n \in DOMAIN g.orders, n # None, NEW shares, IsFiniteSet(DOMAIN shares),
           DOMAIN shares \subseteq DOMAIN g.queue, NEW F, F = FillsOf(g, n, shares, DOMAIN shares),
           \A i \in DOMAIN shares : shares[i] \in Nat /\ g.queue[i].price \in Nat,
           F \subseteq h.fills, h.orders[n].side \in {"BUY", "SELL"}
    PROVE  LET k == SumFunctionOnSet(shares, DOMAIN shares)
               c == SumFunctionOnSet(PriceOf(g, shares), DOMAIN shares)
           IN /\ k \in Nat /\ c \in Nat
              /\ SumFunctionOnSet(Gains(h), F) = IF h.orders[n].side = "BUY" THEN k ELSE -k
              /\ SumFunctionOnSet(Costs(h), F) = IF h.orders[n].side = "BUY" THEN c ELSE -c
<1> DEFINE D == DOMAIN shares
           m == [i \in D |-> [order |-> n, price |-> g.queue[i].price, qty |-> shares[i], entry |-> i]]
           k == SumFunctionOnSet(shares, D)
           c == SumFunctionOnSet(PriceOf(g, shares), D)
           s == IF h.orders[n].side = "BUY" THEN 1 ELSE -1
           a == [i \in D |-> shares[i] * s]
           b == [i \in D |-> PriceOf(g, shares)[i] * s]
<1>1. F = {m[i] : i \in D}
  BY DEF FillsOf
<1>2. \A i, j \in D : m[i] = m[j] => i = j
  <2>1. \A i \in D : m[i].entry = i
    OBVIOUS
  <2> HIDE DEF m
  <2> QED
    BY <2>1
<1>3. \A i \in D : shares[i] \in Int /\ PriceOf(g, shares)[i] \in Nat /\ PriceOf(g, shares)[i] \in Int
  BY DEF PriceOf
<1>4. k \in Nat /\ c \in Nat
  BY <1>3, SumCovers
<1>5. ASSUME NEW i \in D
      PROVE  /\ a[i] \in Int /\ Gains(h)[m[i]] = a[i]
             /\ b[i] \in Int /\ Costs(h)[m[i]] = b[i]
  <2>1. /\ m[i] \in h.fills /\ m[i].order = n /\ m[i].qty = shares[i]
        /\ m[i].price = g.queue[i].price
    BY <1>1
  <2>2. Signed(h, m[i]) = shares[i] * s
    <3> HIDE DEF m
    <3> QED
      BY <2>1 DEF Signed
  <2>3. Gains(h)[m[i]] = shares[i] * s /\ Costs(h)[m[i]] = (shares[i] * s) * g.queue[i].price
    <3> HIDE DEF m
    <3> QED
      BY <2>1, <2>2 DEF Gains, Costs
  <2>4. PriceOf(g, shares)[i] = shares[i] * g.queue[i].price
    BY DEF PriceOf
  <2>5. shares[i] \in Nat /\ g.queue[i].price \in Nat
    OBVIOUS
  <2>6. \A u, v \in Nat : (u * s) * v = (u * v) * s
    OBVIOUS
  <2> HIDE DEF m
  <2> QED
    BY <1>3, <2>3, <2>4, <2>5, <2>6
<1> HIDE DEF m
<1>6. /\ SumFunctionOnSet(Gains(h), {m[i] : i \in D}) = SumFunctionOnSet(a, D)
      /\ SumFunctionOnSet(Costs(h), {m[i] : i \in D}) = SumFunctionOnSet(b, D)
  <2>1. IsFiniteSet(D)
    OBVIOUS
  <2> HIDE DEF a, b, D, k, c, s
  <2>2. PICK u, v, R : u = Gains(h) /\ v = Costs(h) /\ R = {m[i] : i \in D}
    OBVIOUS
  <2>3. Carries(D, m, a, u) /\ Carries(D, m, b, v)
    BY <1>5, <2>2 DEF Carries
  <2>4. \A i, j \in D : m[i] = m[j] => i = j
    BY <1>2
  <2>5. Matched(D, m, R)
    BY <2>2, <2>4 DEF Matched
  <2>6. SumFunctionOnSet(u, R) = SumFunctionOnSet(a, D)
    BY <2>1, <2>3, <2>5, SumMatched
  <2>7. SumFunctionOnSet(v, R) = SumFunctionOnSet(b, D)
    BY <2>1, <2>3, <2>5, SumMatched
  <2> QED
    BY <2>2, <2>6, <2>7
<1>7. s \in Int
  OBVIOUS
<1>8. SumFunctionOnSet(a, D) = k * s
  <2>1. \A i \in D : shares[i] \in Int /\ a[i] = shares[i] * s
    BY <1>3
  <2> HIDE DEF a, s
  <2> QED
    BY <1>7, <2>1, SumTimes
<1>9. SumFunctionOnSet(b, D) = c * s
  <2>1. \A i \in D : PriceOf(g, shares)[i] \in Int /\ b[i] = PriceOf(g, shares)[i] * s
    BY <1>3
  <2> HIDE DEF b, s
  <2> QED
    BY <1>7, <2>1, SumTimes
<1> HIDE DEF k, c, a, b
<1>10. k * s = (IF h.orders[n].side = "BUY" THEN k ELSE -k) /\ c * s = (IF h.orders[n].side = "BUY" THEN c ELSE -c)
  BY <1>4
<1> QED
  BY <1>1, <1>4, <1>6, <1>8, <1>9, <1>10 DEF k, c

(* What is due depends on these. *)
LEMMA DueSame ==
    ASSUME NEW o, NEW p, p.side = o.side, p.status = o.status, p.type = o.type, p.filled = o.filled,
           p.estimate = o.estimate, p.qty = o.qty, p.limit = o.limit, p.stop = o.stop, p.given = o.given
    PROVE  Due(p) = Due(o) /\ Bought(p) = Bought(o)
BY DEF Due, Bought, WorstPrice

(* Only the queue position of an order has changed. *)
LEMMA AheadMoves ==
    ASSUME NEW o \in PaperOrder, NEW p, p = [o EXCEPT !.ahead = p.ahead]
    PROVE  /\ OrderMoves(o, p) /\ p.filled = o.filled /\ Due(p) = Due(o) /\ Bought(p) = Bought(o)
           /\ Due(p) <= Due(o) \/ Due(o) \notin Int
<1>1. /\ p.side = o.side /\ p.status = o.status /\ p.type = o.type /\ p.filled = o.filled
      /\ p.estimate = o.estimate /\ p.qty = o.qty /\ p.limit = o.limit /\ p.stop = o.stop
      /\ p.given = o.given /\ o.filled \in Nat
  BY DEF PaperOrder
<1>2. Due(p) = Due(o) /\ Bought(p) = Bought(o)
  BY <1>1, DueSame
<1>3. OrderMoves(o, p)
  BY <1>1 DEF OrderMoves
<1>4. Due(o) \in Int => Due(p) <= Due(o)
  BY <1>2
<1> QED
  BY <1>1, <1>2, <1>3, <1>4

(* What the order had committed pays for what it takes.                    *)
LEMMA TakenPays ==
    ASSUME NEW g, NEW n \in DOMAIN g.orders, NEW shares, IsFiniteSet(DOMAIN shares),
           \A i \in DOMAIN shares : shares[i] \in Nat /\ g.queue[i].price \in Nat,
           g.orders[n] \in PaperOrder, OrderInv(g.orders[n]), g.orders[n].status = "ACCEPTED",
           Payable(g, n, shares), NEW p \in PaperOrder, OrderMoves(g.orders[n], p),
           p.type = g.orders[n].type,
           NEW k \in Nat, k = SumFunctionOnSet(shares, DOMAIN shares), k > 0,
           p.filled = g.orders[n].filled + k, p.filled <= p.qty,
           NEW c \in Nat, c = SumFunctionOnSet(PriceOf(g, shares), DOMAIN shares),
           g.orders[n].side = "BUY"
    PROVE  Due(p) + c <= Due(g.orders[n]) \/ UnboundedOrder(p)
<1> DEFINE o == g.orders[n]
           D == DOMAIN shares
<1>1. /\ p.side = "BUY" /\ p.qty = o.qty /\ p.limit = o.limit /\ p.stop = o.stop /\ p.given = o.given
      /\ WorstPrice(p) = WorstPrice(o)
  BY DEF OrderMoves, WorstPrice
<1>2. /\ o.filled = 0 /\ o.qty \in Nat /\ o.estimate \in Nat /\ WorstPrice(o) \in Nat /\ o.status \in WORKING
  <2>1. o.status = "ACCEPTED" /\ o \in PaperOrder /\ OrderInv(o)
    OBVIOUS
  <2> HIDE DEF o
  <2> QED
    BY <2>1 DEF OrderInv, PaperOrder, WorstPrice, WORKING
<1>3. CASE UnboundedOrder(o)
  BY <1>1, <1>3 DEF UnboundedOrder
<1>4. CASE o.type # "market" /\ \A i \in D : g.queue[i].price <= WorstPrice(o)
  <2> DEFINE w == WorstPrice(o)
             a == [i \in D |-> shares[i] * w]
             pr == PriceOf(g, shares)
  <2>1. w \in Int
    BY <1>2
  <2>2. SumFunctionOnSet(a, D) = k * w
    <3>1. \A i \in D : shares[i] \in Int /\ a[i] = shares[i] * w
      OBVIOUS
    <3> HIDE DEF a, w
    <3> QED
      BY <2>1, <3>1, SumTimes
  <2>3. ASSUME NEW i \in D PROVE pr[i] \in Int /\ a[i] \in Int /\ pr[i] <= a[i]
    <3>1. shares[i] \in Nat /\ g.queue[i].price \in Nat /\ w \in Nat /\ g.queue[i].price <= w
      BY <1>2, <1>4
    <3>2. \A u, v1, v2 \in Nat : v1 <= v2 => u * v1 <= u * v2
      OBVIOUS
    <3>3. shares[i] * g.queue[i].price <= shares[i] * w
      BY <3>1, <3>2
    <3> HIDE DEF w
    <3> QED
      BY <3>1, <3>3 DEF PriceOf
  <2>4. c <= k * w
    <3> HIDE DEF a, pr, D
    <3>1. IsFiniteSet(D)
      BY DEF D
    <3>2. SumFunctionOnSet(pr, D) <= SumFunctionOnSet(a, D)
      BY <2>3, <3>1, SumAtMost
    <3> QED
      BY <2>2, <3>2 DEF pr, D
  <2>5. Due(o) = o.qty * w
    BY <1>2, <1>4 DEF Due
  <2>6. Due(p) = (o.qty - k) * w \/ Due(p) = 0
    BY <1>1, <1>2, <1>4 DEF Due
  <2>7. o.qty - k \in Nat /\ w \in Nat
    BY <1>1, <1>2
  <2> HIDE DEF w, o
  <2>8. (o.qty - k) * w + k * w = o.qty * w /\ (o.qty - k) * w >= 0 /\ (o.qty - k) * w \in Int /\ k * w \in Int
    <3>1. \A u, v \in Nat : u * v \in Nat
      OBVIOUS
    <3>2. \A u, v, z \in Nat : u * z + v * z = (u + v) * z
      OBVIOUS
    <3>3. (o.qty - k) + k = o.qty
      BY <1>2
    <3> QED
      BY <2>7, <3>1, <3>2, <3>3
  <2> QED
    BY <2>4, <2>5, <2>6, <2>8 DEF o
<1>5. CASE /\ o.type = "market" /\ o.given = "market"
           /\ SumFunctionOnSet(PriceOf(g, shares), D) <= o.estimate
  <2>1. Due(o) = o.estimate
    BY <1>2, <1>5 DEF Due
  <2>2. Due(p) = 0
    BY <1>2, <1>5 DEF Due
  <2>3. c <= o.estimate
    BY <1>5
  <2> HIDE DEF o
  <2> QED
    BY <1>2, <2>1, <2>2, <2>3 DEF o
<1> QED
  BY <1>3, <1>4, <1>5 DEF Payable

(* Taking moves shares and cash as it should. *)
LEMMA TakenFlow ==
    ASSUME NEW g, NEW n \in DOMAIN g.orders, ExchangeInv(g, {n}), NEW shares, Hits(g, shares),
           IsFiniteSet(DOMAIN shares), \A i \in DOMAIN shares : g.queue[i].owner = "MARKET",
           SumFunctionOnSet(shares, DOMAIN shares) <= Remaining(g, n),
           LET o == g.orders[n]
               k == SumFunctionOnSet(shares, DOMAIN shares)
           IN /\ o.tif = "FOK" /\ o.given \in {"limit", "stop_limit"} => k = 0 \/ k = Remaining(g, n)
              /\ o.status = "ACCEPTED",
           Payable(g, n, shares), \A f \in g.fills : f.order # n
    PROVE  Flow(g, Taken(g, n, shares))
<1> DEFINE D == DOMAIN shares
           o == g.orders[n]
           h == Taken(g, n, shares)
           p == h.orders[n]
           k == SumFunctionOnSet(shares, D)
           c == SumFunctionOnSet(PriceOf(g, shares), D)
           F == FillsOf(g, n, shares, D)
           S == DOMAIN g.orders
<1>1. /\ ExchangeInv(h, {n}) /\ SameButFills(g, h) /\ DOMAIN h.orders = DOMAIN g.orders
      /\ h.fills = g.fills \cup F
      /\ \A m \in DOMAIN g.orders \ {n} : h.orders[m] = [g.orders[m] EXCEPT !.ahead = h.orders[m].ahead]
      /\ k \in Nat /\ p.filled = o.filled + k
      /\ p.status = IF k = 0 THEN "ACCEPTED"
                    ELSE IF p.filled = o.qty THEN "FILLED" ELSE "PARTIALLY_FILLED"
      /\ p = [o EXCEPT !.filled = p.filled, !.status = p.status, !.ahead = p.ahead]
  <2>1. PICK j : j = SumFunctionOnSet(shares, DOMAIN shares)
    OBVIOUS
  <2>2. /\ j <= Remaining(g, n) /\ o.status = "ACCEPTED"
        /\ o.tif = "FOK" /\ o.given \in {"limit", "stop_limit"} => j = 0 \/ j = Remaining(g, n)
    BY <2>1
  <2>3. HasTaken(g, n, shares, j, h)
    BY <2>1, <2>2, TakenKeeps
  <2>4. k = j
    BY <2>1
  <2> HIDE DEF k, h
  <2> QED
    BY <2>3, <2>4 DEF HasTaken
<1> HIDE DEF h
<1>2. /\ BookInv(g) /\ BookInv(h) /\ ExchangeType(g)
  BY <1>1 DEF ExchangeInv, BookInv
<1>3. /\ IsFiniteSet(S) /\ \A m \in S : g.orders[m] \in PaperOrder /\ OrderInv(g.orders[m])
      /\ \A m \in S : h.orders[m] \in PaperOrder /\ OrderInv(h.orders[m])
      /\ \A m \in S : Bought(g.orders[m]) \in Int /\ Due(g.orders[m]) \in Int
      /\ \A m \in S : Bought(h.orders[m]) \in Int /\ Due(h.orders[m]) \in Int
      /\ Net(g) \in Int /\ Net(h) \in Int /\ AllDue(g) \in Int /\ AllDue(h) \in Int
  BY <1>1, <1>2, FlowNumbers
<1>4. /\ o \in PaperOrder /\ p \in PaperOrder /\ OrderInv(o) /\ OrderInv(p) /\ o.status = "ACCEPTED"
      /\ n \in Nat /\ n # None
  BY <1>2, <1>3, ExchangeTypes DEF None
<1>5. /\ p.side = o.side /\ p.type = o.type /\ p.qty = o.qty /\ p.limit = o.limit /\ p.stop = o.stop
      /\ p.given = o.given /\ p.estimate = o.estimate /\ o.filled \in Nat /\ p.filled \in Nat
      /\ o.side \in {"BUY", "SELL"} /\ p.filled <= p.qty
  <2> HIDE DEF o, p
  <2>1. /\ p.side = o.side /\ p.type = o.type /\ p.qty = o.qty /\ p.limit = o.limit /\ p.stop = o.stop
        /\ p.given = o.given /\ p.estimate = o.estimate
    BY <1>1, <1>4 DEF PaperOrder
  <2> QED
    BY <1>4, <2>1 DEF PaperOrder, OrderInv
<1>6. OrderMoves(o, p)
  <2> HIDE DEF o, p
  <2> QED
    BY <1>1, <1>4, <1>5 DEF OrderMoves, WORKING
<1>7. ASSUME NEW m \in S \ {n}
      PROVE  /\ OrderMoves(g.orders[m], h.orders[m]) /\ Due(h.orders[m]) = Due(g.orders[m])
             /\ Bought(h.orders[m]) = Bought(g.orders[m])
  BY <1>1, <1>3, AheadMoves
<1>8. \A i \in D : shares[i] \in Nat /\ g.queue[i].price \in Nat
  <2>1. \A i \in DOMAIN g.queue : g.queue[i] \in QueueEntry
    BY <1>2, ExchangeTypes
  <2> QED
    BY <2>1 DEF Hits, QueueEntry
<1>9. /\ k \in Nat /\ c \in Nat
      /\ SumFunctionOnSet(Gains(h), F) = IF p.side = "BUY" THEN k ELSE -k
      /\ SumFunctionOnSet(Costs(h), F) = IF p.side = "BUY" THEN c ELSE -c
  <2>1. D \subseteq DOMAIN g.queue /\ F \subseteq h.fills /\ p.side \in {"BUY", "SELL"}
    BY <1>1, <1>5 DEF Hits
  <2> HIDE DEF F, k, c
  <2> QED
    BY <1>4, <1>8, <2>1, TakenFills DEF F, k, c
<1>10. Net(h) - Net(g) = Bought(p) - Bought(o)
  <2> DEFINE bg == [m \in S |-> Bought(g.orders[m])]
             bh == [m \in S |-> Bought(h.orders[m])]
  <2>1. /\ \A m \in S : bg[m] \in Int /\ bh[m] \in Int
        /\ \A m \in S \ {n} : bh[m] = bg[m]
        /\ bg[n] = Bought(o) /\ bh[n] = Bought(p)
    BY <1>3, <1>7
  <2>2. Net(g) = SumFunctionOnSet(bg, S)
    BY DEF Net
  <2>3. Net(h) = SumFunctionOnSet(bh, S)
    BY <1>1, Zenon DEF Net
  <2> HIDE DEF bg, bh
  <2>4. SumFunctionOnSet(bh, S) - SumFunctionOnSet(bg, S) = bh[n] - bg[n]
    BY <1>3, <2>1, SumChanged
  <2> QED
    BY <2>1, <2>2, <2>3, <2>4
<1>11. AllDue(h) - AllDue(g) = Due(p) - Due(o)
  <2> DEFINE bg == [m \in S |-> Due(g.orders[m])]
             bh == [m \in S |-> Due(h.orders[m])]
  <2>1. /\ \A m \in S : bg[m] \in Int /\ bh[m] \in Int
        /\ \A m \in S \ {n} : bh[m] = bg[m]
        /\ bg[n] = Due(o) /\ bh[n] = Due(p)
    BY <1>3, <1>7
  <2>2. AllDue(g) = SumFunctionOnSet(bg, S)
    BY DEF AllDue
  <2>3. AllDue(h) = SumFunctionOnSet(bh, S)
    BY <1>1, Zenon DEF AllDue
  <2> HIDE DEF bg, bh
  <2>4. SumFunctionOnSet(bh, S) - SumFunctionOnSet(bg, S) = bh[n] - bg[n]
    BY <1>3, <2>1, SumChanged
  <2> QED
    BY <2>1, <2>2, <2>3, <2>4
<1>12. SumFunctionOnSet(Gains(h), F) = Net(h) - Net(g)
  <2>1. Bought(p) - Bought(o) = IF p.side = "BUY" THEN k ELSE -k
    <3> HIDE DEF p, o, k
    <3> QED
      BY <1>1, <1>5 DEF Bought
  <2> QED
    BY <1>9, <1>10, <2>1
<1>13. SumFunctionOnSet(Costs(h), F) <= AllDue(g) - AllDue(h) \/ Overspent(h)
  <2>0. Due(p) \in Int /\ Due(o) \in Int
    BY <1>1, <1>3
  <2>1. CASE k = 0
    <3>1. c = 0
      <4>1. D = {}
        <5>1. \A i \in D : shares[i] \in Nat /\ shares[i] > 0 /\ shares[i] <= k
          <6>1. \A i \in D : shares[i] \in Nat
            BY <1>8
          <6>2. \A i \in D : shares[i] <= SumFunctionOnSet(shares, D)
            BY <6>1, SumCovers
          <6> QED
            BY <6>1, <6>2 DEF Hits
        <5>2. \A i \in D : FALSE
          <6> HIDE DEF k
          <6> QED
            BY <2>1, <5>1
        <5> QED
          BY <5>2
      <4>2. SumFunctionOnSet(PriceOf(g, shares), {}) = 0
        BY FS_EmptySet, SumType
      <4> QED
        BY <4>1, <4>2, Zenon
    <3>2. Due(p) = Due(o)
      <4>1. p.status = o.status /\ p.filled = o.filled
        BY <1>1, <1>4, <1>5, <2>1
      <4> HIDE DEF p, o
      <4> QED
        BY <1>5, <4>1, DueSame
    <3> HIDE DEF p, o, c, F
    <3> QED
      BY <1>3, <1>9, <1>11, <2>0, <3>1, <3>2
  <2>2. CASE k > 0 /\ o.side = "BUY"
    <3>1. Due(p) + c <= Due(o) \/ UnboundedOrder(p)
      <4>1. k = SumFunctionOnSet(shares, DOMAIN shares) /\ c = SumFunctionOnSet(PriceOf(g, shares), DOMAIN shares)
        OBVIOUS
      <4> HIDE DEF p, k, c, D
      <4>2. \A i \in DOMAIN shares : shares[i] \in Nat /\ g.queue[i].price \in Nat
        BY <1>8 DEF D
      <4> QED
        BY <1>1, <1>4, <1>5, <1>6, <1>9, <2>2, <4>1, <4>2, TakenPays
    <3>2. CASE UnboundedOrder(p)
      <4>1. p.filled > 0 /\ n \in DOMAIN h.orders
        <5> HIDE DEF p, o, k
        <5> QED
          BY <1>1, <1>5, <2>2
      <4> QED
        BY <3>2, <4>1 DEF Overspent
    <3>3. CASE Due(p) + c <= Due(o)
      <4>1. SumFunctionOnSet(Costs(h), F) = c
        BY <1>5, <1>9, <2>2
      <4> HIDE DEF p, o, c, F
      <4> QED
        BY <1>3, <1>9, <1>11, <2>0, <3>3, <4>1
    <3> QED
      BY <3>1, <3>2, <3>3
  <2>3. CASE o.side = "SELL"
    <3>1. Due(p) = 0 /\ Due(o) = 0
      BY <1>5, <2>3 DEF Due
    <3>2. SumFunctionOnSet(Costs(h), F) = -c
      BY <1>5, <1>9, <2>3
    <3> HIDE DEF p, o, c, F
    <3> QED
      BY <1>3, <1>9, <1>11, <3>1, <3>2
  <2> QED
    BY <1>1, <1>5, <2>1, <2>2, <2>3
<1>14. F \cap g.fills = {}
  <2>1. \A f \in F : f.order = n
    BY <1>4 DEF FillsOf
  <2> HIDE DEF F
  <2> QED
    BY <2>1
<1>15. \A m \in DOMAIN g.orders : OrderMoves(g.orders[m], h.orders[m])
  BY <1>6, <1>7
<1>16. h.cash = g.cash /\ h.position = g.position /\ DOMAIN h.inflight \subseteq DOMAIN g.inflight
  BY <1>1 DEF SameButFills
<1> HIDE DEF F
<1>17. Flow(g, h)
  BY <1>1, <1>2, <1>12, <1>13, <1>14, <1>15, <1>16, FlowOfFills
<1> QED
  BY <1>17 DEF h

-----------------------------------------------------------------------------
(* Trades *)

(* Changes of orders that are matched with entries. *)
LEMMA SumOfChanges ==
    ASSUME NEW S, IsFiniteSet(S), NEW f, NEW g, \A y \in S : f[y] \in Int /\ g[y] \in Int,
           NEW P, IsFiniteSet(P), NEW m, \A i \in P : m[i] \in S, \A i, j \in P : m[i] = m[j] => i = j,
           NEW d, \A i \in P : d[i] \in Int /\ g[m[i]] = f[m[i]] + d[i],
           \A y \in S : g[y] = f[y] \/ \E i \in P : y = m[i]
    PROVE  SumFunctionOnSet(g, S) = SumFunctionOnSet(f, S) + SumFunctionOnSet(d, P)
<1> DEFINE e == [y \in S |-> g[y] - f[y]]
           R == {m[i] : i \in P}
<1>1. \A y \in S : f[y] \in Int /\ e[y] \in Int /\ g[y] = f[y] + e[y]
  OBVIOUS
<1>2. \A i \in P : d[i] \in Int /\ e[m[i]] = d[i]
  OBVIOUS
<1>3. R \in SUBSET S /\ \A y \in S \ R : e[y] = 0
  OBVIOUS
<1>r. Matched(P, m, R)
  BY DEF Matched
<1>c. Carries(P, m, d, e)
  BY <1>2 DEF Carries
<1> HIDE DEF e, R
<1>4. SumFunctionOnSet(g, S) = SumFunctionOnSet(f, S) + SumFunctionOnSet(e, S)
  BY <1>1, SumPlus
<1>5. SumFunctionOnSet(e, R) = SumFunctionOnSet(d, P)
  BY <1>c, <1>r, SumMatched
<1>6. SumFunctionOnSet(e, S) = SumFunctionOnSet(e, R)
  BY <1>1, <1>3, SumDrops
<1> QED
  BY <1>4, <1>5, <1>6

(* A paper order that rests pays for its fill with what it had committed.  *)
LEMMA RestingPays ==
    ASSUME NEW o \in PaperOrder, OrderInv(o), o.status \in RESTING, o.type = "limit", o.limit # None,
           NEW k \in Nat, k <= o.qty - o.filled, NEW p \in PaperOrder, OrderInv(p),
           p.side = o.side, p.type = o.type, p.qty = o.qty, p.limit = o.limit, p.stop = o.stop,
           p.given = o.given, p.filled = o.filled + k, p.status \in {"FILLED", "PARTIALLY_FILLED"}
    PROVE  LET s == IF o.side = "BUY" THEN k ELSE -k
           IN /\ OrderMoves(o, p) /\ Bought(p) = Bought(o) + s
              /\ s * o.limit <= Due(o) - Due(p)
<1>1. o.qty \in Nat /\ o.filled \in Nat /\ o.limit \in Nat /\ o.side \in {"BUY", "SELL"}
  BY DEF PaperOrder
<1>2. OrderMoves(o, p)
  BY <1>1 DEF OrderMoves, WORKING, RESTING
<1>3. Bought(p) = Bought(o) + IF o.side = "BUY" THEN k ELSE -k
  BY <1>1 DEF Bought
<1>4. CASE o.side = "BUY"
  <2>1. Due(o) = (o.qty - o.filled) * o.limit
    BY <1>4 DEF Due, WorstPrice, RESTING, WORKING
  <2>2. Due(p) = (o.qty - o.filled - k) * o.limit
    <3>1. CASE p.status = "PARTIALLY_FILLED"
      <4>1. Due(p) = (p.qty - p.filled) * o.limit
        BY <1>4, <3>1 DEF Due, WorstPrice, WORKING
      <4>2. p.qty - p.filled = o.qty - o.filled - k
        BY <1>1
      <4> QED
        BY <4>1, <4>2
    <3>2. CASE p.status = "FILLED"
      <4>1. Due(p) = 0
        BY <3>2 DEF Due, WORKING
      <4>2. o.qty - o.filled - k = 0
        BY <1>1, <3>2 DEF OrderInv
      <4> QED
        BY <1>1, <4>1, <4>2
    <3> QED
      BY <3>1, <3>2
  <2>3. o.qty - o.filled - k \in Nat /\ o.qty - o.filled = (o.qty - o.filled - k) + k
    BY <1>1
  <2>4. \A u, v, z \in Nat : u * z + v * z = (u + v) * z /\ u * z \in Nat
    OBVIOUS
  <2>5. (o.qty - o.filled) * o.limit = (o.qty - o.filled - k) * o.limit + k * o.limit
    BY <1>1, <2>3, <2>4
  <2>6. k * o.limit \in Int /\ (o.qty - o.filled - k) * o.limit \in Int
    BY <1>1, <2>3, <2>4
  <2>7. k * o.limit <= Due(o) - Due(p)
    BY <2>1, <2>2, <2>5, <2>6
  <2> QED
    BY <1>2, <1>3, <1>4, <2>7
<1>5. CASE o.side = "SELL"
  <2>1. Due(o) = 0 /\ Due(p) = 0
    BY <1>5 DEF Due
  <2>2. \A u, v \in Nat : (-u) * v <= 0
    OBVIOUS
  <2>3. (-k) * o.limit <= 0
    BY <1>1, <2>2
  <2> QED
    BY <1>2, <1>3, <1>5, <2>1, <2>3
<1> QED
  BY <1>1, <1>4, <1>5

(* Fills belong to orders that are no longer about to take. *)
FillsAside(s, limbo) == \A f \in s.fills : f.order \notin s.stops \cup limbo

Good(s, limbo) == ExchangeInv(s, limbo) /\ FillsAside(s, limbo)

(* g becomes h. *)
Goes(g, h) == Good(h, {}) /\ Flow(g, h)

(* What a trade does to an order: nothing, or a fill at its limit. *)
LEMMA OrderTraded ==
    ASSUME NEW g, BookInv(g), NEW shares, Hits(g, shares), NEW n \in DOMAIN g.orders,
           NEW p, p = [OrderHit(g, shares, n) EXCEPT !.ahead = p.ahead], p \in PaperOrder
    PROVE  LET o == g.orders[n]
           IN /\ OrderMoves(o, p)
              /\ PaperHits(g, shares, n) = {} => Bought(p) = Bought(o) /\ Due(p) = Due(o)
              /\ \A i \in PaperHits(g, shares, n) :
                    LET s == IF o.side = "BUY" THEN shares[i] ELSE -shares[i]
                    IN Bought(p) = Bought(o) + s /\ s * g.queue[i].price <= Due(o) - Due(p)
<1> DEFINE o == g.orders[n]
<1>1. /\ o \in PaperOrder /\ OrderInv(o)
  BY ExchangeTypes DEF BookInv
<1>2. PICK r : r = OrderHit(g, shares, n)
  OBVIOUS
<1>3. RightlyHit(o, r, PaperHits(g, shares, n), shares)
  BY <1>2, OrderHitKeeps
<1>4. /\ r \in PaperOrder /\ OrderInv(r) /\ r = [o EXCEPT !.filled = r.filled, !.status = r.status]
      /\ p = [r EXCEPT !.ahead = p.ahead] /\ p \in PaperOrder
  BY <1>2, <1>3 DEF RightlyHit
<1> HIDE DEF o
<1>5. /\ r.side = o.side /\ r.qty = o.qty /\ r.limit = o.limit /\ r.stop = o.stop /\ r.given = o.given
      /\ r.type = o.type /\ r.estimate = o.estimate /\ r.tif = o.tif
  BY <1>1, <1>4 DEF PaperOrder
<1>6. /\ p.side = r.side /\ p.qty = r.qty /\ p.limit = r.limit /\ p.stop = r.stop /\ p.given = r.given
      /\ p.type = r.type /\ p.estimate = r.estimate /\ p.filled = r.filled /\ p.status = r.status
      /\ p.tif = r.tif
  BY <1>4 DEF PaperOrder
<1>7. OrderInv(p)
  BY <1>4, <1>6 DEF OrderInv
<1>8. CASE PaperHits(g, shares, n) = {}
  <2>1. r = o
    BY <1>3, <1>8 DEF RightlyHit
  <2>2. OrderMoves(o, p) /\ Due(p) = Due(o) /\ Bought(p) = Bought(o)
    BY <1>1, <1>4, <2>1, AheadMoves
  <2> QED
    BY <1>8, <2>2 DEF o
<1>9. ASSUME NEW i \in PaperHits(g, shares, n)
      PROVE  LET s == IF o.side = "BUY" THEN shares[i] ELSE -shares[i]
             IN OrderMoves(o, p) /\ Bought(p) = Bought(o) + s /\ s * g.queue[i].price <= Due(o) - Due(p)
  <2>1. i \in DOMAIN shares /\ i \in DOMAIN g.queue /\ g.queue[i].owner = "PAPER" /\ g.queue[i].id = n
    BY DEF PaperHits, IsPaper, Hits
  <2>2. EntryInv(g, i)
    BY <2>1 DEF BookInv
  <2>3. /\ o.status \in RESTING /\ o.type = "limit" /\ o.limit # None /\ o.limit = g.queue[i].price
    BY <2>1, <2>2 DEF EntryInv, MayRest, o
  <2>4. shares[i] \in Nat /\ shares[i] <= o.qty - o.filled
    BY <2>1 DEF Hits, Left, Remaining, o
  <2>5. p.filled = o.filled + shares[i] /\ p.status \in {"FILLED", "PARTIALLY_FILLED"}
    BY <1>3, <1>6 DEF RightlyHit
  <2>6. PICK k : k = shares[i]
    OBVIOUS
  <2>7. k \in Nat /\ k <= o.qty - o.filled /\ p.filled = o.filled + k
    BY <2>4, <2>5, <2>6
  <2>8. /\ p.side = o.side /\ p.type = o.type /\ p.qty = o.qty /\ p.limit = o.limit /\ p.stop = o.stop
        /\ p.given = o.given
    BY <1>5, <1>6
  <2>9. LET s == IF o.side = "BUY" THEN k ELSE -k
        IN OrderMoves(o, p) /\ Bought(p) = Bought(o) + s /\ s * o.limit <= Due(o) - Due(p)
    BY <1>1, <1>4, <1>7, <2>3, <2>5, <2>7, <2>8, RestingPays
  <2> QED
    BY <2>3, <2>6, <2>9
<1> QED
  BY <1>8, <1>9 DEF o

(* The print of a trade fills the paper orders it reaches. *)
LEMMA TradedKeeps ==
    ASSUME NEW g, Good(g, {}), g.fills = {}, NEW shares, Hits(g, shares), IsFiniteSet(DOMAIN shares)
    PROVE  Goes(g, Traded(g, shares))
<1> DEFINE D == DOMAIN shares
           P == {i \in D : g.queue[i].owner = "PAPER"}
           F == FillsOf(g, None, shares, P)
           e == Execute(g, shares)
           h == Traded(g, shares)
           S == DOMAIN g.orders
           id == [i \in P |-> g.queue[i].id]
<1>0. ExchangeInv(g, {}) /\ BookInv(g) /\ ExchangeType(g)
  BY DEF Good, ExchangeInv, BookInv
<1>1. /\ ExchangeInv(e, {}) /\ SameAccount(g, e) /\ DOMAIN e.orders = DOMAIN g.orders
      /\ \A n \in S : e.orders[n] = [OrderHit(g, shares, n) EXCEPT !.ahead = e.orders[n].ahead]
  BY <1>0, ExecuteKeeps, ExecuteInv
<1>2. h = [e EXCEPT !.fills = @ \cup F]
  BY DEF Traded
<1> HIDE DEF e, h
<1>3. /\ P \subseteq D /\ D \subseteq DOMAIN g.queue /\ IsFiniteSet(P)
      /\ \A i \in D : shares[i] \in Nat /\ g.queue[i] \in QueueEntry
  <2>1. IsFiniteSet(P)
    BY FS_Subset
  <2> QED
    BY <1>0, <2>1, ExchangeTypes DEF Hits
<1>4. ASSUME NEW i \in P
      PROVE  /\ id[i] \in S /\ id[i] # None /\ RestsAt(g, id[i]) = {i} /\ i \in PaperHits(g, shares, id[i])
             /\ id[i] \notin g.stops
  <2>1. i \in DOMAIN g.queue /\ g.queue[i].owner = "PAPER" /\ i \in DOMAIN shares
    BY <1>3
  <2>2. EntryInv(g, i)
    BY <1>0, <2>1 DEF BookInv
  <2>3. g.queue[i].id \in S /\ RestsAt(g, g.queue[i].id) = {i} /\ g.orders[g.queue[i].id].status \in RESTING
    BY <2>1, <2>2 DEF EntryInv
  <2>4. PlaceInv(g, g.queue[i].id)
    BY <1>0, <2>3 DEF ExchangeInv
  <2>5. g.queue[i].id # None
    BY <1>0, <2>3, ExchangeTypes DEF None
  <2> QED
    BY <2>1, <2>3, <2>4, <2>5 DEF PlaceInv, RESTING, PaperHits, IsPaper
<1>5. \A i, j \in P : id[i] = id[j] => i = j
  <2> HIDE DEF id
  <2>1. \A i \in P : RestsAt(g, id[i]) = {i}
    BY <1>4
  <2> QED
    BY <2>1
<1>6. IsFiniteSet(F) /\ F \subseteq FillEvent /\ \A f \in F : f.order \in DOMAIN e.orders
  <2>1. None \in Nat
    BY DEF None
  <2>2. IsFiniteSet(F) /\ F \subseteq FillEvent
    BY <1>0, <1>3, <2>1, FillsType
  <2>3. \A f \in F : \E i \in P : f.order = id[i]
    BY DEF FillsOf
  <2> HIDE DEF F, id
  <2> QED
    BY <1>1, <1>4, <2>2, <2>3
<1>7. /\ ExchangeInv(h, {}) /\ h.queue = e.queue /\ h.orders = e.orders
      /\ SameButFills(e, h) /\ h.fills = e.fills \cup F
  <2> HIDE DEF F
  <2> QED
    BY <1>1, <1>2, <1>6, FillsAdded
<1>8. /\ BookInv(h) /\ h.fills = F /\ DOMAIN h.orders = S /\ SameButFills(g, h)
      /\ \A n \in S : h.orders[n] = [OrderHit(g, shares, n) EXCEPT !.ahead = h.orders[n].ahead]
  BY <1>1, <1>7 DEF ExchangeInv, SameButFills, SameAccount
<1>9. /\ IsFiniteSet(S) /\ \A n \in S : h.orders[n] \in PaperOrder
      /\ \A m \in S : Bought(g.orders[m]) \in Int /\ Due(g.orders[m]) \in Int
      /\ \A m \in S : Bought(h.orders[m]) \in Int /\ Due(h.orders[m]) \in Int
      /\ Net(g) \in Int /\ Net(h) \in Int /\ AllDue(g) \in Int /\ AllDue(h) \in Int
  BY <1>0, <1>8, FlowNumbers
<1>10. ASSUME NEW n \in S
       PROVE  LET o == g.orders[n]
                  p == h.orders[n]
              IN /\ OrderMoves(o, p)
                 /\ PaperHits(g, shares, n) = {} => Bought(p) = Bought(o) /\ Due(p) = Due(o)
                 /\ \A i \in PaperHits(g, shares, n) :
                       LET s == IF o.side = "BUY" THEN shares[i] ELSE -shares[i]
                       IN Bought(p) = Bought(o) + s /\ s * g.queue[i].price <= Due(o) - Due(p)
  BY <1>0, <1>8, <1>9, OrderTraded
<1> DEFINE ev == [i \in P |-> [order |-> g.queue[i].id, price |-> g.queue[i].price, qty |-> shares[i], entry |-> i]]
           sg(i) == IF g.orders[id[i]].side = "BUY" THEN shares[i] ELSE -shares[i]
           a == [i \in P |-> sg(i)]
           b == [i \in P |-> sg(i) * g.queue[i].price]
           d == [i \in P |-> Due(h.orders[id[i]]) - Due(g.orders[id[i]])]
<1>11. F = {ev[i] : i \in P} /\ \A i, j \in P : ev[i] = ev[j] => i = j
  <2>1. F = {ev[i] : i \in P}
    BY DEF FillsOf, None
  <2>2. \A i \in P : ev[i].entry = i
    OBVIOUS
  <2>3. \A i, j \in P : ev[i] = ev[j] => i = j
    <3> HIDE DEF ev
    <3> QED
      BY <2>2
  <2> QED
    BY <2>1, <2>3
<1>12. ASSUME NEW i \in P
       PROVE  /\ a[i] \in Int /\ Gains(h)[ev[i]] = a[i]
              /\ b[i] \in Int /\ Costs(h)[ev[i]] = b[i]
              /\ d[i] \in Int /\ b[i] <= -d[i]
              /\ Bought(h.orders[id[i]]) = Bought(g.orders[id[i]]) + a[i]
              /\ Due(h.orders[id[i]]) = Due(g.orders[id[i]]) + d[i]
  <2> DEFINE n == id[i]
  <2>1. /\ ev[i] \in h.fills /\ ev[i].order = n /\ ev[i].qty = shares[i] /\ ev[i].price = g.queue[i].price
    BY <1>8, <1>11
  <2>2. n \in S /\ i \in PaperHits(g, shares, n)
    BY <1>4
  <2>3. shares[i] \in Nat /\ g.queue[i].price \in Nat
    BY <1>3 DEF QueueEntry
  <2>4. h.orders[n].side = g.orders[n].side
    BY <1>10, <2>2 DEF OrderMoves
  <2>5. sg(i) \in Int /\ sg(i) * g.queue[i].price \in Int
    BY <2>3
  <2>6. Signed(h, ev[i]) = sg(i)
    <3> HIDE DEF ev
    <3> QED
      BY <2>1, <2>4 DEF Signed
  <2>7. Gains(h)[ev[i]] = sg(i) /\ Costs(h)[ev[i]] = sg(i) * g.queue[i].price
    <3> HIDE DEF ev, sg, n
    <3> QED
      BY <2>1, <2>6 DEF Gains, Costs
  <2>8. /\ Bought(h.orders[n]) = Bought(g.orders[n]) + sg(i)
        /\ sg(i) * g.queue[i].price <= Due(g.orders[n]) - Due(h.orders[n])
    BY <1>10, <2>2
  <2>9. Due(g.orders[n]) \in Int /\ Due(h.orders[n]) \in Int
    BY <1>9, <2>2
  <2>10. a[i] = sg(i) /\ b[i] = sg(i) * g.queue[i].price /\ d[i] = Due(h.orders[n]) - Due(g.orders[n])
    OBVIOUS
  <2> HIDE DEF a, b, d, sg, ev, id, P
  <2>11. b[i] <= -d[i] /\ Due(h.orders[n]) = Due(g.orders[n]) + d[i] /\ d[i] \in Int
    <3>1. PICK u : u = Due(g.orders[n])
      OBVIOUS
    <3>2. PICK v : v = Due(h.orders[n])
      OBVIOUS
    <3> HIDE DEF n
    <3> QED
      BY <2>5, <2>8, <2>9, <2>10, <3>1, <3>2
  <2> QED
    BY <2>5, <2>7, <2>8, <2>10, <2>11
<1>13. \A n \in S : \/ Bought(h.orders[n]) = Bought(g.orders[n]) /\ Due(h.orders[n]) = Due(g.orders[n])
                    \/ \E i \in P : n = id[i]
  <2>1. \A n \in S : \A i \in PaperHits(g, shares, n) : i \in P /\ id[i] = n
    BY DEF PaperHits, IsPaper
  <2>2. \A n \in S : PaperHits(g, shares, n) = {} =>
            Bought(h.orders[n]) = Bought(g.orders[n]) /\ Due(h.orders[n]) = Due(g.orders[n])
    BY <1>10
  <2> QED
    BY <2>1, <2>2
<1> HIDE DEF a, b, d, ev, id, sg, P
<1>14. Net(h) = Net(g) + SumFunctionOnSet(a, P)
  <2> DEFINE bg == [n \in S |-> Bought(g.orders[n])]
             bh == [n \in S |-> Bought(h.orders[n])]
  <2>1. /\ \A y \in S : bg[y] \in Int /\ bh[y] \in Int
        /\ \A i \in P : id[i] \in S
        /\ \A i \in P : a[i] \in Int /\ bh[id[i]] = bg[id[i]] + a[i]
        /\ \A y \in S : bh[y] = bg[y] \/ \E i \in P : y = id[i]
    BY <1>4, <1>9, <1>12, <1>13
  <2>2. Net(g) = SumFunctionOnSet(bg, S)
    BY DEF Net
  <2>3. Net(h) = SumFunctionOnSet(bh, S)
    BY <1>8, Zenon DEF Net
  <2> HIDE DEF bg, bh
  <2>4. SumFunctionOnSet(bh, S) = SumFunctionOnSet(bg, S) + SumFunctionOnSet(a, P)
    <3>1. IsFiniteSet(S) /\ IsFiniteSet(P)
      BY <1>3, <1>9
    <3> HIDE DEF S
    <3> QED
      BY <1>5, <2>1, <3>1, SumOfChanges
  <2> QED
    BY <2>2, <2>3, <2>4
<1>15. AllDue(h) = AllDue(g) + SumFunctionOnSet(d, P)
  <2> DEFINE bg == [n \in S |-> Due(g.orders[n])]
             bh == [n \in S |-> Due(h.orders[n])]
  <2>1. /\ \A y \in S : bg[y] \in Int /\ bh[y] \in Int
        /\ \A i \in P : id[i] \in S
        /\ \A i \in P : d[i] \in Int /\ bh[id[i]] = bg[id[i]] + d[i]
        /\ \A y \in S : bh[y] = bg[y] \/ \E i \in P : y = id[i]
    BY <1>4, <1>9, <1>12, <1>13
  <2>2. AllDue(g) = SumFunctionOnSet(bg, S)
    BY DEF AllDue
  <2>3. AllDue(h) = SumFunctionOnSet(bh, S)
    BY <1>8, Zenon DEF AllDue
  <2> HIDE DEF bg, bh
  <2>4. SumFunctionOnSet(bh, S) = SumFunctionOnSet(bg, S) + SumFunctionOnSet(d, P)
    <3>1. IsFiniteSet(S) /\ IsFiniteSet(P)
      BY <1>3, <1>9
    <3> HIDE DEF S
    <3> QED
      BY <1>5, <2>1, <3>1, SumOfChanges
  <2> QED
    BY <2>2, <2>3, <2>4
<1>16. /\ SumFunctionOnSet(Gains(h), {ev[i] : i \in P}) = SumFunctionOnSet(a, P)
       /\ SumFunctionOnSet(Costs(h), {ev[i] : i \in P}) = SumFunctionOnSet(b, P)
  <2>1. PICK u, v, R : u = Gains(h) /\ v = Costs(h) /\ R = {ev[i] : i \in P}
    OBVIOUS
  <2>2. Carries(P, ev, a, u) /\ Carries(P, ev, b, v)
    BY <1>12, <2>1 DEF Carries
  <2>3. \A i, j \in P : ev[i] = ev[j] => i = j
    BY <1>11
  <2>4. Matched(P, ev, R) /\ IsFiniteSet(P)
    BY <1>3, <2>1, <2>3 DEF Matched
  <2>5. SumFunctionOnSet(u, R) = SumFunctionOnSet(a, P)
    BY <2>2, <2>4, SumMatched
  <2>6. SumFunctionOnSet(v, R) = SumFunctionOnSet(b, P)
    BY <2>2, <2>4, SumMatched
  <2> QED
    BY <2>1, <2>5, <2>6
<1>17. SumFunctionOnSet(b, P) + SumFunctionOnSet(d, P) <= 0
  <2> DEFINE t == [i \in P |-> b[i] + d[i]]
             z == [i \in P |-> 0 * 0]
  <2>1. \A i \in P : b[i] \in Int /\ d[i] \in Int /\ t[i] = b[i] + d[i] /\ t[i] \in Int
    BY <1>12
  <2>2. \A i \in P : t[i] <= 0 /\ z[i] = 0
    BY <1>12, <2>1
  <2> HIDE DEF t, z
  <2>3. SumFunctionOnSet(t, P) = SumFunctionOnSet(b, P) + SumFunctionOnSet(d, P)
    BY <1>3, <2>1, SumPlus
  <2>4. \A i \in P : t[i] \in Int /\ z[i] \in Int /\ t[i] <= z[i]
    BY <2>1, <2>2
  <2>5. SumFunctionOnSet(t, P) <= SumFunctionOnSet(z, P)
    BY <1>3, <2>4, SumAtMost
  <2>6. SumFunctionOnSet(z, P) = 0
    <3>1. {} \in SUBSET P /\ \A i \in P \ {} : z[i] = 0
      BY <2>2
    <3>2. SumFunctionOnSet(z, P) = SumFunctionOnSet(z, {}) /\ SumFunctionOnSet(z, {}) = 0
      BY <1>3, <2>4, <3>1, SumDrops, SumType
    <3> QED
      BY <3>2
  <2> QED
    BY <2>3, <2>5, <2>6
<1>18. SumFunctionOnSet(a, P) \in Int /\ SumFunctionOnSet(b, P) \in Int /\ SumFunctionOnSet(d, P) \in Int
  BY <1>3, <1>12, SumType
<1>19. /\ SumFunctionOnSet(Gains(h), F) = Net(h) - Net(g)
       /\ SumFunctionOnSet(Costs(h), F) <= AllDue(g) - AllDue(h)
  <2>1. /\ SumFunctionOnSet(Gains(h), F) = SumFunctionOnSet(a, P)
        /\ SumFunctionOnSet(Costs(h), F) = SumFunctionOnSet(b, P)
    BY <1>11, <1>16
  <2> HIDE DEF F
  <2> QED
    BY <1>9, <1>14, <1>15, <1>17, <1>18, <2>1
<1>20. FillsAside(h, {})
  <2>1. \A f \in F : \E i \in P : f.order = id[i]
    BY DEF FillsOf, None, id
  <2> HIDE DEF F
  <2> QED
    BY <1>4, <1>8, <2>1 DEF FillsAside, SameButFills
<1>21. h.fills = g.fills \cup F /\ F \cap g.fills = {}
  BY <1>8
<1>22. \A n \in S : OrderMoves(g.orders[n], h.orders[n])
  BY <1>10
<1>23. h.cash = g.cash /\ h.position = g.position /\ DOMAIN h.inflight \subseteq DOMAIN g.inflight
  BY <1>8 DEF SameButFills
<1> HIDE DEF F
<1>24. Flow(g, h)
  BY <1>0, <1>8, <1>19, <1>21, <1>22, <1>23, FlowOfFills
<1> QED
  BY <1>7, <1>20, <1>24 DEF Goes, Good, h

-----------------------------------------------------------------------------
(* Orders on their way through the engine *)

(* Order n of g, which is nowhere, was replaced by p. *)
Replaced(g, n, p, h) ==
    /\ ExchangeInv(h, {n}) /\ Flow(g, h) /\ SameAccount(g, h) /\ h.queue = g.queue
    /\ DOMAIN h.orders = DOMAIN g.orders /\ h.orders[n] = p
    /\ \A m \in DOMAIN g.orders \ {n} : h.orders[m] = g.orders[m]

(* A change that commits no more than before is a move. *)
LEMMA LimboMoves ==
    ASSUME NEW g, NEW n \in DOMAIN g.orders, ExchangeInv(g, {n}), NEW p \in PaperOrder, OrderInv(p),
           OrderMoves(g.orders[n], p), p.filled = g.orders[n].filled, Due(p) <= Due(g.orders[n])
    PROVE  Replaced(g, n, p, [g EXCEPT !.orders[n] = p])
<1> DEFINE h == [g EXCEPT !.orders[n] = p]
<1>2. /\ ExchangeInv(h, {n}) /\ SameAccount(g, h) /\ h.queue = g.queue
      /\ DOMAIN h.orders = DOMAIN g.orders /\ h.orders[n] = p
      /\ \A m \in DOMAIN g.orders \ {n} : h.orders[m] = g.orders[m]
  <2>1. LimboChanged(g, n, p, h)
    BY LimboChange
  <2> HIDE DEF h
  <2> QED
    BY <2>1 DEF LimboChanged
<1> HIDE DEF h
<1>3. BookInv(g) /\ BookInv(h)
  BY <1>2 DEF ExchangeInv
<1>4. ASSUME NEW m \in DOMAIN g.orders
      PROVE  OrderMoves(g.orders[m], h.orders[m]) /\ h.orders[m].filled = g.orders[m].filled
             /\ Due(h.orders[m]) <= Due(g.orders[m])
  <2>1. CASE m = n
    BY <1>2, <2>1
  <2>2. CASE m # n
    <3>1. g.orders[m] \in PaperOrder /\ Due(g.orders[m]) \in Nat
      BY <1>3, FlowNumbers
    <3>2. g.orders[m].filled \in Nat
      BY <3>1 DEF PaperOrder
    <3> QED
      BY <1>2, <2>2, <3>1, <3>2 DEF OrderMoves
  <2> QED
    BY <2>1, <2>2
<1>5. Flow(g, h)
  BY <1>2, <1>3, <1>4, FlowQuiet DEF SameAccount
<1> QED
  BY <1>2, <1>5 DEF Replaced, h

(* The engine accepts an order that was submitted. *)
LEMMA AcceptKeeps ==
    ASSUME NEW g, NEW n \in DOMAIN g.orders, ExchangeInv(g, {n}), g.orders[n].status = "SUBMITTED",
           g.orders[n].qty > 0
    PROVE  Replaced(g, n, [g.orders[n] EXCEPT !.status = "ACCEPTED"], SetStatus(g, n, "ACCEPTED"))
<1>1. PICK o : o = g.orders[n]
  OBVIOUS
<1> DEFINE p == [o EXCEPT !.status = "ACCEPTED"]
<1>2. o \in PaperOrder /\ OrderInv(o) /\ Due(o) \in Nat /\ o.status = "SUBMITTED" /\ o.qty > 0
  BY <1>1, FlowNumbers DEF ExchangeInv
<1>3. /\ p \in PaperOrder /\ p.filled = o.filled /\ p.side = o.side /\ p.type = o.type /\ p.qty = o.qty
      /\ p.limit = o.limit /\ p.stop = o.stop /\ p.given = o.given /\ p.tif = o.tif
      /\ p.estimate = o.estimate /\ p.status = "ACCEPTED" /\ o.filled \in Nat /\ o.qty \in Nat
  <2>1. "ACCEPTED" \in Statuses
    BY DEF Statuses, WORKING
  <2> QED
    BY <1>2, <2>1 DEF PaperOrder
<1>4. SetStatus(g, n, "ACCEPTED") = [g EXCEPT !.orders[n] = p]
  BY <1>1 DEF SetStatus
<1> HIDE DEF p
<1>5. OrderInv(p)
  BY <1>2, <1>3 DEF OrderInv
<1>6. OrderMoves(o, p)
  BY <1>2, <1>3 DEF OrderMoves, WORKING
<1>7. Due(p) = Due(o)
  BY <1>2, <1>3 DEF Due, WorstPrice, WORKING
<1>8. Due(p) <= Due(o)
  BY <1>2, <1>7
<1>9. Replaced(g, n, p, SetStatus(g, n, "ACCEPTED"))
  BY <1>1, <1>3, <1>4, <1>5, <1>6, <1>8, LimboMoves, ZenonT(60)
<1> QED
  BY <1>1, <1>9 DEF p

(* The order of an exchange is over. *)
LEMMA OverGoes ==
    ASSUME NEW g, NEW n \in DOMAIN g.orders, ExchangeInv(g, {n}), FillsAside(g, {}),
           NEW outcome \in {"CANCELLED", "REJECTED", "EXPIRED"},
           g.orders[n].status # "FILLED", outcome = "REJECTED" => g.orders[n].filled = 0
    PROVE  Goes(g, SetStatus(g, n, outcome))
<1>1. PICK o : o = g.orders[n]
  OBVIOUS
<1> DEFINE p == [o EXCEPT !.status = outcome]
           h == SetStatus(g, n, outcome)
<1>2. o \in PaperOrder /\ OrderInv(o) /\ Due(o) \in Nat /\ o.status # "FILLED"
      /\ (outcome = "REJECTED" => o.filled = 0)
  BY <1>1, FlowNumbers DEF ExchangeInv
<1>3. /\ p \in PaperOrder /\ p.filled = o.filled /\ p.side = o.side /\ p.type = o.type /\ p.qty = o.qty
      /\ p.limit = o.limit /\ p.stop = o.stop /\ p.given = o.given /\ p.tif = o.tif
      /\ p.estimate = o.estimate /\ p.status = outcome /\ o.filled \in Nat
  <2>1. outcome \in Statuses
    BY DEF Statuses
  <2> QED
    BY <1>2, <2>1 DEF PaperOrder
<1>4. h = [g EXCEPT !.orders[n] = p]
  BY <1>1 DEF SetStatus
<1> HIDE DEF p, h
<1>5. OrderInv(p)
  BY <1>2, <1>3 DEF OrderInv
<1>6. OrderMoves(o, p) /\ p.status \notin WORKING
  BY <1>2, <1>3 DEF OrderMoves, WORKING
<1>7. Due(p) = 0 /\ Due(p) <= Due(o)
  BY <1>2, <1>6 DEF Due
<1>8. Replaced(g, n, p, h)
  BY <1>1, <1>3, <1>4, <1>5, <1>6, <1>7, LimboMoves
<1>9. ExchangeInv(h, {})
  BY <1>6, <1>8, LimboOver DEF Replaced
<1>10. FillsAside(h, {})
  BY <1>8 DEF Replaced, FillsAside, SameAccount
<1> QED
  BY <1>8, <1>9, <1>10 DEF Goes, Good, Replaced, h

(* What follows on what went before *)
LEMMA GoesOn ==
    ASSUME NEW f, NEW g, NEW h, Flow(f, g), Goes(g, h), BookInv(f), BookInv(g)
    PROVE  Goes(f, h)
<1>1. BookInv(h) /\ Flow(g, h)
  BY DEF Goes, Good, ExchangeInv
<1>2. Flow(f, h)
  BY <1>1, FlowOn
<1> QED
  BY <1>2 DEF Goes

(* What is good has all parts of the invariant. *)
LEMMA GoodBook ==
    ASSUME NEW s, NEW limbo, Good(s, limbo)
    PROVE  BookInv(s) /\ ExchangeType(s) /\ ExchangeInv(s, limbo) /\ FillsAside(s, limbo)
BY DEF Good, ExchangeInv, BookInv

(* A step that does nothing goes. *)
LEMMA GoesNowhere ==
    ASSUME NEW s, Good(s, {})
    PROVE  Goes(s, s)
<1>1. ExchangeType(s) /\ \A n \in DOMAIN s.orders : s.orders[n].filled <= s.orders[n].qty
  BY DEF Good, ExchangeInv, BookInv, OrderInv
<1> QED
  BY <1>1, FlowSame DEF Goes

-----------------------------------------------------------------------------
(* Execution of an order *)

(* What order n takes from the market *)
TakeShares(g, n, limit) ==
    Shares(g, g.orders[n].side, OfMarket(g, Path(g, g.orders[n].side, limit)), Remaining(g, n))

(* A buy at a limit pays no more than that, a market order what was        *)
(* estimated; others are unbounded.                                        *)
MayPay(g, n, limit) ==
    LET o == g.orders[n]
        shares == TakeShares(g, n, limit)
    IN o.side = "BUY" =>
          \/ UnboundedOrder(o)
          \/ o.type # "market" /\ limit = o.limit /\ limit # None
          \/ /\ o.type = "market" /\ o.given = "market"
             /\ SumFunctionOnSet(PriceOf(g, shares), DOMAIN shares) <= o.estimate

(* Order n of g took k shares. *)
Took(g, n, k, h) ==
    LET o == g.orders[n]
        p == h.orders[n]
    IN /\ ExchangeInv(h, {n}) /\ FillsAside(h, {}) /\ Flow(g, h) /\ DOMAIN h.orders = DOMAIN g.orders
       /\ k \in Nat /\ k <= o.qty /\ o.filled = 0 /\ p.filled = k
       /\ p.status = IF k = 0 THEN "ACCEPTED" ELSE IF k = o.qty THEN "FILLED" ELSE "PARTIALLY_FILLED"
       /\ p = [o EXCEPT !.filled = p.filled, !.status = p.status, !.ahead = p.ahead]

(* Executing against the market keeps the book and the places of the       *)
(* orders, and moves what it says.                                         *)
LEMMA TakeKeeps ==
    ASSUME NEW g, NEW n \in DOMAIN g.orders, Good(g, {n}), NEW limit,
           g.orders[n].status = "ACCEPTED", MayPay(g, n, limit),
           LET o == g.orders[n]
           IN o.tif = "FOK" /\ o.given \in {"limit", "stop_limit"} => Available(g, o.side, limit) >= o.qty
    PROVE  \E k : /\ Took(g, n, k, Take(g, n, limit))
                  /\ LET a == Available(g, g.orders[n].side, limit)
                     IN a \in Nat /\ k = IF g.orders[n].qty <= a THEN g.orders[n].qty ELSE a
<1> DEFINE o == g.orders[n]
           shares == TakeShares(g, n, limit)
           a == Available(g, o.side, limit)
           h == Take(g, n, limit)
<1>0. ExchangeInv(g, {n}) /\ BookInv(g) /\ ExchangeType(g) /\ FillsAside(g, {n})
  BY GoodBook
<1>1. PICK k : k = SumFunctionOnSet(shares, DOMAIN shares)
  OBVIOUS
<1>2. /\ h = Taken(g, n, shares)
      /\ Hits(g, shares) /\ IsFiniteSet(DOMAIN shares)
      /\ DOMAIN shares \subseteq OfMarket(g, Path(g, o.side, limit))
      /\ \A i \in DOMAIN shares : g.queue[i].owner = "MARKET"
      /\ k \in Nat /\ k <= Remaining(g, n) /\ a \in Nat
      /\ k = IF Remaining(g, n) <= a THEN Remaining(g, n) ELSE a
      /\ o.tif = "FOK" /\ o.given \in {"limit", "stop_limit"} => k = 0 \/ k = Remaining(g, n)
  BY <1>0, <1>1, TakeIsTaken DEF TakeShares
<1>3. o \in PaperOrder /\ OrderInv(o) /\ o.status = "ACCEPTED"
  BY <1>0, ExchangeTypes DEF BookInv
<1>4. o.filled = 0 /\ o.qty \in Nat /\ Remaining(g, n) = o.qty
  <2>1. o.filled = 0 /\ o.qty \in Nat
    BY <1>3 DEF OrderInv, PaperOrder
  <2> QED
    BY <2>1 DEF Remaining
<1>5. Payable(g, n, shares)
  <2>1. ASSUME o.side = "BUY", o.type # "market", limit = o.limit, limit # None
        PROVE  \A i \in DOMAIN shares : g.queue[i].price <= WorstPrice(o)
    BY <1>2, <2>1 DEF OfMarket, Path, Within, WorstPrice
  <2> HIDE DEF o, shares
  <2>2. o.side = "BUY" =>
          \/ UnboundedOrder(o)
          \/ o.type # "market" /\ limit = o.limit /\ limit # None
          \/ /\ o.type = "market" /\ o.given = "market"
             /\ SumFunctionOnSet(PriceOf(g, shares), DOMAIN shares) <= o.estimate
    BY DEF MayPay, o, shares
  <2>3. o.side = "BUY" =>
          \/ UnboundedOrder(o)
          \/ o.type # "market" /\ \A i \in DOMAIN shares : g.queue[i].price <= WorstPrice(o)
          \/ /\ o.type = "market" /\ o.given = "market"
             /\ SumFunctionOnSet(PriceOf(g, shares), DOMAIN shares) <= o.estimate
    BY <2>1, <2>2
  <2> QED
    BY <2>3 DEF Payable, o
<1>6. \A f \in g.fills : f.order # n
  BY <1>0 DEF FillsAside
<1> HIDE DEF shares, h, a
<1>7. HasTaken(g, n, shares, k, h)
  BY <1>0, <1>1, <1>2, <1>3, TakenKeeps
<1>8. Flow(g, h)
  <2>1. PICK j : j = SumFunctionOnSet(shares, DOMAIN shares)
    OBVIOUS
  <2>2. /\ j <= Remaining(g, n) /\ o.status = "ACCEPTED"
        /\ o.tif = "FOK" /\ o.given \in {"limit", "stop_limit"} => j = 0 \/ j = Remaining(g, n)
    BY <1>1, <1>2, <1>3, <2>1
  <2>3. Flow(g, Taken(g, n, shares))
    BY <1>0, <1>2, <1>5, <1>6, <2>1, <2>2, TakenFlow
  <2> QED
    BY <1>2, <2>3
<1>9. ExchangeInv(h, {n}) /\ FillsAside(h, {})
  <2>1. /\ ExchangeInv(h, {n}) /\ SameButFills(g, h)
        /\ h.fills = g.fills \cup FillsOf(g, n, shares, DOMAIN shares)
    BY <1>7 DEF HasTaken
  <2>2. n # None
    BY <1>0, ExchangeTypes DEF None
  <2>3. ~(n \in g.stops)
    BY <1>0 DEF ExchangeInv, Nowhere
  <2>4. \A f \in h.fills : f.order = n \/ f \in g.fills
    BY <2>1, <2>2 DEF FillsOf
  <2> QED
    BY <1>0, <2>1, <2>3, <2>4 DEF FillsAside, SameButFills
<1>10. /\ h.orders[n].filled = o.filled + k /\ DOMAIN h.orders = DOMAIN g.orders
       /\ h.orders[n].status = IF k = 0 THEN "ACCEPTED"
                               ELSE IF h.orders[n].filled = o.qty THEN "FILLED" ELSE "PARTIALLY_FILLED"
       /\ h.orders[n] = [o EXCEPT !.filled = h.orders[n].filled, !.status = h.orders[n].status,
                                  !.ahead = h.orders[n].ahead]
  BY <1>7 DEF HasTaken
<1>11. k <= o.qty /\ k \in Nat /\ k = (IF o.qty <= a THEN o.qty ELSE a) /\ a \in Nat
  BY <1>2, <1>4
<1>12. h.orders[n].filled = k
  BY <1>4, <1>10, <1>11
<1>13. Took(g, n, k, h)
  <2> HIDE DEF o
  <2> QED
    BY <1>4, <1>8, <1>9, <1>10, <1>11, <1>12 DEF Took, o
<1> QED
  BY <1>11, <1>13 DEF h, a

(* An order that is filled is over. *)
LEMMA FilledGoes ==
    ASSUME NEW g, NEW n \in DOMAIN g.orders, ExchangeInv(g, {n}), FillsAside(g, {}),
           g.orders[n].status = "FILLED"
    PROVE  Goes(g, g)
<1>1. ExchangeInv(g, {})
  <2>1. g.orders[n].status \notin WORKING
    BY DEF WORKING
  <2> QED
    BY <2>1, LimboOver
<1> QED
  BY <1>1, GoesNowhere DEF Good

(* A market order is executed as far as it can, and is over. *)
LEMMA ExecuteMarketGoes ==
    ASSUME NEW g, NEW n \in DOMAIN g.orders, Good(g, {n}), g.orders[n].status = "ACCEPTED",
           g.orders[n].type = "market", g.orders[n].qty > 0, MayPay(g, n, None)
    PROVE  Goes(g, ExecuteMarket(g, n))
<1> DEFINE o == g.orders[n]
           h == Take(g, n, None)
<1>0. BookInv(g) /\ ExchangeType(g) /\ o \in PaperOrder /\ OrderInv(o) /\ o.type = "market" /\ o.qty > 0
  BY GoodBook, ExchangeTypes DEF BookInv
<1>1. ~(o.tif = "FOK" /\ o.given \in {"limit", "stop_limit"})
  BY <1>0 DEF OrderInv
<1>2. PICK k : Took(g, n, k, h)
  BY <1>1, TakeKeeps
<1>3. ExecuteMarket(g, n) = EndMarket(h, n)
  BY DEF ExecuteMarket
<1> HIDE DEF h
<1>4. /\ ExchangeInv(h, {n}) /\ FillsAside(h, {}) /\ Flow(g, h) /\ n \in DOMAIN h.orders
      /\ k \in Nat /\ k <= o.qty /\ h.orders[n].filled = k
      /\ h.orders[n].status = IF k = 0 THEN "ACCEPTED" ELSE IF k = o.qty THEN "FILLED" ELSE "PARTIALLY_FILLED"
      /\ h.orders[n] = [o EXCEPT !.filled = h.orders[n].filled, !.status = h.orders[n].status,
                                 !.ahead = h.orders[n].ahead]
  BY <1>2 DEF Took
<1>5. h.orders[n].qty = o.qty /\ o.qty \in Nat
  <2>1. PICK p : p = h.orders[n]
    OBVIOUS
  <2> HIDE DEF o
  <2>2. p = [o EXCEPT !.filled = p.filled, !.status = p.status, !.ahead = p.ahead] /\ o \in PaperOrder
    BY <1>0, <1>4, <2>1
  <2>3. p.qty = o.qty /\ o.qty \in Nat
    BY <2>2 DEF PaperOrder
  <2> QED
    BY <2>1, <2>3
<1> HIDE DEF o
<1>6. Goes(h, EndMarket(h, n))
  <2>1. CASE k = 0
    <3>1. EndMarket(h, n) = SetStatus(h, n, "REJECTED")
      BY <1>4, <2>1 DEF EndMarket
    <3> QED
      BY <1>4, <2>1, <3>1, OverGoes, SMTT(30)
  <2>2. CASE k > 0 /\ k < o.qty
    <3>1. EndMarket(h, n) = SetStatus(h, n, "CANCELLED")
      BY <1>4, <1>5, <2>2 DEF EndMarket, Remaining
    <3>2. h.orders[n].status # "FILLED"
      BY <1>4, <2>2
    <3> QED
      BY <1>4, <3>1, <3>2, OverGoes
  <2>3. CASE k > 0 /\ k = o.qty
    <3>1. EndMarket(h, n) = h
      BY <1>4, <1>5, <2>3 DEF EndMarket, Remaining
    <3>2. h.orders[n].status = "FILLED"
      BY <1>4, <2>3
    <3> QED
      BY <1>4, <3>1, <3>2, FilledGoes
  <2> QED
    BY <1>4, <1>5, <2>1, <2>2, <2>3
<1>7. BookInv(h)
  BY <1>4 DEF ExchangeInv
<1> QED
  BY <1>0, <1>3, <1>4, <1>6, <1>7, GoesOn

(* A limit order that is left over rests. *)
LEMMA AddPaperGoes ==
    ASSUME NEW g, NEW n \in DOMAIN g.orders, ExchangeInv(g, {n}), FillsAside(g, {}),
           LET o == g.orders[n]
           IN /\ o.type = "limit" /\ o.tif = "GTC" /\ o.limit # None
              /\ o.status \in {"ACCEPTED", "PARTIALLY_FILLED"} /\ o.filled < o.qty
    PROVE  Goes(g, AddPaper(g, n))
<1> DEFINE h == AddPaper(g, n)
           o == g.orders[n]
           p == h.orders[n]
<1>1. /\ ExchangeInv(h, {}) /\ SameAccount(g, h) /\ DOMAIN h.orders = DOMAIN g.orders
      /\ \A m \in DOMAIN g.orders \ {n} : h.orders[m] = g.orders[m]
      /\ p = [o EXCEPT !.ahead = p.ahead, !.status = p.status] /\ p.status \in RESTING
  BY AddPaperKeeps
<1> HIDE DEF h
<1>2. BookInv(g) /\ BookInv(h)
  BY <1>1 DEF ExchangeInv
<1>3. \A m \in DOMAIN g.orders : g.orders[m] \in PaperOrder /\ Due(g.orders[m]) \in Nat
  BY <1>2, FlowNumbers
<1>4. OrderMoves(o, p) /\ p.filled = o.filled /\ Due(p) <= Due(o)
  <2>1. o \in PaperOrder /\ Due(o) \in Nat /\ o.status \in {"ACCEPTED", "PARTIALLY_FILLED"}
    BY <1>3
  <2> HIDE DEF o, p
  <2>2. /\ p.side = o.side /\ p.type = o.type /\ p.filled = o.filled
        /\ p.estimate = o.estimate /\ p.qty = o.qty /\ p.limit = o.limit /\ p.stop = o.stop
        /\ p.given = o.given /\ o.filled \in Nat
    BY <1>1, <2>1 DEF PaperOrder
  <2>3. OrderMoves(o, p)
    BY <1>1, <2>1, <2>2 DEF OrderMoves, WORKING
  <2>4. Due(p) = Due(o)
    BY <1>1, <2>1, <2>2 DEF Due, WorstPrice, WORKING, RESTING
  <2> QED
    BY <2>1, <2>2, <2>3, <2>4
<1>5. ASSUME NEW m \in DOMAIN g.orders
      PROVE  OrderMoves(g.orders[m], h.orders[m]) /\ h.orders[m].filled = g.orders[m].filled
             /\ Due(h.orders[m]) <= Due(g.orders[m])
  <2>1. CASE m = n
    BY <1>4, <2>1
  <2>2. CASE m # n
    <3>1. g.orders[m] \in PaperOrder /\ Due(g.orders[m]) \in Nat
      BY <1>3
    <3>2. g.orders[m].filled \in Nat
      BY <3>1 DEF PaperOrder
    <3> QED
      BY <1>1, <2>2, <3>1, <3>2 DEF OrderMoves
  <2> QED
    BY <2>1, <2>2
<1>6. Flow(g, h)
  BY <1>1, <1>2, <1>5, FlowQuiet DEF SameAccount
<1>7. Good(h, {})
  BY <1>1 DEF Good, FillsAside, SameAccount
<1> QED
  BY <1>6, <1>7 DEF Goes, h

(* What is left of a limit order is cancelled or rests. *)
LEMMA EndLimitGoes ==
    ASSUME NEW g, NEW n \in DOMAIN g.orders, ExchangeInv(g, {n}), FillsAside(g, {}),
           LET o == g.orders[n]
           IN /\ o.type = "limit" /\ o.limit # None /\ o.qty > 0
              /\ o.status = IF o.filled = 0 THEN "ACCEPTED"
                            ELSE IF o.filled = o.qty THEN "FILLED" ELSE "PARTIALLY_FILLED"
    PROVE  Goes(g, EndLimit(g, n))
<1> DEFINE o == g.orders[n]
<1>0. /\ o \in PaperOrder /\ OrderInv(o) /\ o.type = "limit" /\ o.limit # None /\ o.qty > 0
      /\ o.status = IF o.filled = 0 THEN "ACCEPTED"
                    ELSE IF o.filled = o.qty THEN "FILLED" ELSE "PARTIALLY_FILLED"
  BY ExchangeTypes DEF BookInv, ExchangeInv
<1>1. o.filled \in Nat /\ o.qty \in Nat /\ o.filled <= o.qty /\ o.tif \in {"GTC", "IOC", "FOK"}
  BY <1>0 DEF PaperOrder, OrderInv
<1>2. CASE o.filled = o.qty
  <2>1. EndLimit(g, n) = g
    BY <1>1, <1>2 DEF EndLimit, Remaining
  <2>2. o.status = "FILLED"
    BY <1>0, <1>1, <1>2
  <2> QED
    BY <2>1, <2>2, FilledGoes
<1>3. CASE o.filled < o.qty /\ o.tif \in {"IOC", "FOK"}
  <2>1. EndLimit(g, n) = SetStatus(g, n, "CANCELLED")
    BY <1>1, <1>3 DEF EndLimit, Remaining
  <2>2. o.status # "FILLED"
    BY <1>0, <1>1, <1>3
  <2> QED
    BY <2>1, <2>2, OverGoes
<1>4. CASE o.filled < o.qty /\ o.tif = "GTC"
  <2>1. EndLimit(g, n) = AddPaper(g, n)
    BY <1>1, <1>4 DEF EndLimit, Remaining
  <2>2. o.status \in {"ACCEPTED", "PARTIALLY_FILLED"}
    BY <1>0, <1>1, <1>4
  <2> QED
    BY <1>0, <1>4, <2>1, <2>2, AddPaperGoes
<1> QED
  BY <1>1, <1>2, <1>3, <1>4

(* A limit order is refused, executed, cancelled or rests. *)
LEMMA ExecuteLimitGoes ==
    ASSUME NEW g, NEW n \in DOMAIN g.orders, Good(g, {n}), g.orders[n].status = "ACCEPTED",
           g.orders[n].type = "limit", g.orders[n].limit # None, g.orders[n].qty > 0
    PROVE  Goes(g, ExecuteLimit(g, n))
<1> DEFINE o == g.orders[n]
           h == Take(g, n, o.limit)
<1>0. /\ BookInv(g) /\ ExchangeType(g) /\ ExchangeInv(g, {n}) /\ FillsAside(g, {}) /\ FillsAside(g, {n})
      /\ o \in PaperOrder /\ OrderInv(o)
      /\ o.status = "ACCEPTED" /\ o.type = "limit" /\ o.limit # None /\ o.qty > 0
  BY GoodBook, ExchangeTypes DEF BookInv, FillsAside
<1>1. o.filled = 0 /\ o.qty \in Nat
  BY <1>0 DEF OrderInv, PaperOrder
<1>2. CASE FokRefused(g, n)
  <2>1. ExecuteLimit(g, n) = SetStatus(g, n, "REJECTED")
    BY <1>2 DEF ExecuteLimit
  <2> QED
    BY <1>0, <1>1, <2>1, OverGoes
<1>3. CASE ~FokRefused(g, n) /\ CrossesTheBook(g, n)
  <2>1. ExecuteLimit(g, n) = EndLimit(h, n)
    BY <1>3 DEF ExecuteLimit
  <2>2. MayPay(g, n, o.limit)
    BY <1>0 DEF MayPay
  <2>3. \E k : /\ Took(g, n, k, h)
               /\ LET a == Available(g, o.side, o.limit)
                  IN a \in Nat /\ k = IF o.qty <= a THEN o.qty ELSE a
    <3>1. o.tif = "FOK" => ~(Available(g, o.side, o.limit) < o.qty)
      BY <1>3 DEF FokRefused
    <3>2. Available(g, o.side, o.limit) \in Nat
      <4>1. OfMarket(g, Path(g, o.side, o.limit)) \in SUBSET DOMAIN g.queue
        BY DEF OfMarket, Path
      <4>2. \A i \in OfMarket(g, Path(g, o.side, o.limit)) : Left(g, i) \in Nat
        BY <1>0, <4>1, LeftType
      <4>3. IsFiniteSet(DOMAIN g.queue)
        BY <1>0 DEF ExchangeType
      <4> QED
        BY <4>1, <4>2, <4>3, TotalType DEF Available
    <3>3. o.tif = "FOK" => Available(g, o.side, o.limit) >= o.qty
      BY <1>1, <3>1, <3>2
    <3> QED
      BY <2>2, <3>3, TakeKeeps
  <2>4. PICK k : Took(g, n, k, h)
    BY <2>3
  <2> HIDE DEF h
  <2>5. /\ ExchangeInv(h, {n}) /\ FillsAside(h, {}) /\ Flow(g, h) /\ n \in DOMAIN h.orders
        /\ k \in Nat /\ h.orders[n].filled = k
        /\ h.orders[n].status = IF k = 0 THEN "ACCEPTED" ELSE IF k = o.qty THEN "FILLED" ELSE "PARTIALLY_FILLED"
        /\ h.orders[n] = [o EXCEPT !.filled = h.orders[n].filled, !.status = h.orders[n].status,
                                   !.ahead = h.orders[n].ahead]
    BY <2>4 DEF Took
  <2>6. h.orders[n].qty = o.qty /\ h.orders[n].type = o.type /\ h.orders[n].limit = o.limit
    <3>1. PICK p : p = h.orders[n]
      OBVIOUS
    <3> HIDE DEF o
    <3>2. p = [o EXCEPT !.filled = p.filled, !.status = p.status, !.ahead = p.ahead] /\ o \in PaperOrder
      BY <1>0, <2>5, <3>1
    <3>3. p.qty = o.qty /\ p.type = o.type /\ p.limit = o.limit
      BY <3>2 DEF PaperOrder
    <3> QED
      BY <3>1, <3>3
  <2>7. Goes(h, EndLimit(h, n))
    <3> HIDE DEF o
    <3>1. /\ h.orders[n].type = "limit" /\ h.orders[n].limit # None /\ h.orders[n].qty > 0
          /\ h.orders[n].status = IF h.orders[n].filled = 0 THEN "ACCEPTED"
                 ELSE IF h.orders[n].filled = h.orders[n].qty THEN "FILLED" ELSE "PARTIALLY_FILLED"
      BY <1>0, <2>5, <2>6
    <3> QED
      BY <2>5, <3>1, EndLimitGoes
  <2>8. BookInv(h)
    BY <2>5 DEF ExchangeInv
  <2> QED
    BY <1>0, <2>1, <2>5, <2>7, <2>8, GoesOn
<1>4. CASE ~FokRefused(g, n) /\ ~CrossesTheBook(g, n)
  <2>1. ExecuteLimit(g, n) = EndLimit(g, n)
    BY <1>4 DEF ExecuteLimit
  <2> QED
    BY <1>0, <1>1, <2>1, EndLimitGoes
<1> QED
  BY <1>2, <1>3, <1>4

-----------------------------------------------------------------------------
(* Stops *)

(* The list of stops was changed for order n only. *)
StopsChanged(s, n, t) ==
    /\ ExchangeType(t) /\ t.queue = s.queue /\ t.orders = s.orders /\ t.fills = s.fills
    /\ t.inflight = s.inflight /\ t.cash = s.cash /\ t.position = s.position
    /\ BookInv(t) /\ Flow(s, t)
    /\ \A m \in DOMAIN s.orders \ {n} : (PlaceInv(s, m) => PlaceInv(t, m)) /\ (m \in t.stops <=> m \in s.stops)
    /\ \A m : RestsAt(t, m) = RestsAt(s, m)

(* The list of stops may change for one order. *)
LEMMA StopsChange ==
    ASSUME NEW s, BookInv(s), NEW n \in DOMAIN s.orders, NEW T \in SUBSET DOMAIN s.orders,
           \A m \in DOMAIN s.orders \ {n} : m \in T <=> m \in s.stops
    PROVE  StopsChanged(s, n, [s EXCEPT !.stops = T]) /\ [s EXCEPT !.stops = T].stops = T
<1> DEFINE t == [s EXCEPT !.stops = T]
<1>1. ExchangeType(s) /\ "stops" \in DOMAIN s
  BY DEF BookInv, ExchangeType
<1>2. /\ t.queue = s.queue /\ t.orders = s.orders /\ t.fills = s.fills /\ t.now = s.now
      /\ t.inflight = s.inflight /\ t.cash = s.cash /\ t.position = s.position /\ t.stops = T
      /\ DOMAIN t = DOMAIN s
  BY <1>1
<1> HIDE DEF t
<1>3. ExchangeType(t)
  BY <1>1, <1>2 DEF ExchangeType
<1>4. \A m : RestsAt(t, m) = RestsAt(s, m)
  BY <1>2 DEF RestsAt
<1>5. \A i \in DOMAIN s.queue : Left(t, i) = Left(s, i)
  BY <1>2 DEF Left, Remaining
<1>6. ASSUME NEW i \in DOMAIN t.queue PROVE EntryInv(t, i)
  <2>1. EntryInv(s, i)
    BY <1>2 DEF BookInv
  <2>2. InFront(t, i) = InFront(s, i) /\ InFront(s, i) \subseteq DOMAIN s.queue
    BY <1>2 DEF InFront
  <2>3. Total(t, InFront(s, i)) = Total(s, InFront(s, i))
    BY <1>5, <2>2, TotalSame
  <2> QED
    BY <1>2, <1>4, <2>1, <2>2, <2>3 DEF EntryInv
<1>7. BookInv(t)
  BY <1>2, <1>3, <1>6 DEF BookInv
<1>8. ASSUME NEW m \in DOMAIN s.orders
      PROVE  OrderMoves(s.orders[m], t.orders[m]) /\ t.orders[m].filled = s.orders[m].filled
             /\ Due(t.orders[m]) <= Due(s.orders[m])
  <2>1. s.orders[m] \in PaperOrder /\ Due(s.orders[m]) \in Nat
    BY FlowNumbers
  <2>2. s.orders[m].filled \in Nat
    BY <2>1 DEF PaperOrder
  <2> QED
    BY <1>2, <2>1, <2>2 DEF OrderMoves
<1>9. Flow(s, t)
  BY <1>2, <1>7, <1>8, FlowQuiet
<1>10. \A m \in DOMAIN s.orders \ {n} : (PlaceInv(s, m) => PlaceInv(t, m)) /\ (m \in t.stops <=> m \in s.stops)
  BY <1>2, <1>4 DEF PlaceInv, InFlight
<1> QED
  BY <1>2, <1>3, <1>4, <1>7, <1>9, <1>10 DEF StopsChanged, t

(* A stop order waits. *)
LEMMA StopWaits ==
    ASSUME NEW a, NEW n \in DOMAIN a.orders, Good(a, {n}), a.orders[n].status = "ACCEPTED",
           a.orders[n].type \in {"stop", "stop_limit"}, ~Malformed(a.orders[n])
    PROVE  Goes(a, [a EXCEPT !.stops = @ \cup {n}])
<1> DEFINE T == a.stops \cup {n}
           t == [a EXCEPT !.stops = T]
<1>1. BookInv(a) /\ ExchangeType(a) /\ ExchangeInv(a, {n}) /\ FillsAside(a, {n})
  BY GoodBook
<1>2. StopsChanged(a, n, t) /\ t.stops = T
  <2>1. T \in SUBSET DOMAIN a.orders
    BY <1>1 DEF ExchangeType
  <2>2. \A m \in DOMAIN a.orders \ {n} : m \in T <=> m \in a.stops
    OBVIOUS
  <2> HIDE DEF T
  <2> QED
    BY <1>1, <2>1, <2>2, StopsChange
<1> HIDE DEF t
<1>3. ASSUME NEW m \in DOMAIN t.orders PROVE PlaceInv(t, m)
  <2>1. CASE m = n
    <3>1. Nowhere(a, n)
      BY <1>1 DEF ExchangeInv
    <3> QED
      BY <1>2, <2>1, <3>1 DEF StopsChanged, PlaceInv, Nowhere, InFlight, RESTING
  <2>2. CASE m # n
    <3>1. PlaceInv(a, m)
      BY <1>1, <1>2, <2>2 DEF ExchangeInv, StopsChanged
    <3> QED
      BY <1>2, <2>2, <3>1 DEF StopsChanged
  <2> QED
    BY <2>1, <2>2
<1>4. ExchangeInv(t, {})
  BY <1>2, <1>3 DEF StopsChanged, ExchangeInv
<1>5. FillsAside(t, {})
  BY <1>1, <1>2 DEF StopsChanged, FillsAside
<1> QED
  BY <1>2, <1>4, <1>5 DEF Goes, Good, StopsChanged, t

(* A stop is taken off the list. *)
LEMMA StopTaken ==
    ASSUME NEW a, Good(a, {}), NEW n \in a.stops
    PROVE  LET t == [a EXCEPT !.stops = @ \ {n}]
           IN /\ Good(t, {n}) /\ Flow(a, t) /\ n \in DOMAIN t.orders /\ t.orders = a.orders
              /\ t.orders[n].status = "ACCEPTED" /\ t.orders[n].type \in {"stop", "stop_limit"}
              /\ ~Malformed(t.orders[n])
<1> DEFINE T == a.stops \ {n}
           t == [a EXCEPT !.stops = T]
<1>1. BookInv(a) /\ ExchangeType(a) /\ ExchangeInv(a, {}) /\ FillsAside(a, {})
  BY GoodBook
<1>2. n \in DOMAIN a.orders /\ PlaceInv(a, n)
  BY <1>1 DEF ExchangeType, ExchangeInv
<1>3. StopsChanged(a, n, t) /\ t.stops = T
  <2>1. T \in SUBSET DOMAIN a.orders
    BY <1>1 DEF ExchangeType
  <2>2. \A m \in DOMAIN a.orders \ {n} : m \in T <=> m \in a.stops
    OBVIOUS
  <2> HIDE DEF T
  <2> QED
    BY <1>1, <1>2, <2>1, <2>2, StopsChange
<1> HIDE DEF t
<1>4. /\ a.orders[n].status = "ACCEPTED" /\ a.orders[n].type \in {"stop", "stop_limit"}
      /\ ~Malformed(a.orders[n]) /\ ~InFlight(a, n) /\ RestsAt(a, n) = {}
  BY <1>2 DEF PlaceInv, RESTING
<1>5. ASSUME NEW m \in DOMAIN t.orders PROVE IF m \in {n} THEN Nowhere(t, m) ELSE PlaceInv(t, m)
  <2>1. CASE m = n
    BY <1>3, <1>4, <2>1 DEF StopsChanged, Nowhere, InFlight
  <2>2. CASE m # n
    <3>1. PlaceInv(a, m) /\ m \in DOMAIN a.orders
      BY <1>1, <1>3, <2>2 DEF ExchangeInv, StopsChanged
    <3> QED
      BY <1>3, <2>2, <3>1 DEF StopsChanged
  <2> QED
    BY <2>1, <2>2
<1>6. ExchangeInv(t, {n})
  BY <1>3, <1>5 DEF StopsChanged, ExchangeInv
<1>7. FillsAside(t, {n})
  BY <1>1, <1>3 DEF StopsChanged, FillsAside
<1> QED
  BY <1>2, <1>3, <1>4, <1>6, <1>7 DEF Good, StopsChanged, t

(* The engine takes an order that was submitted. *)
LEMMA EngineSubmitGoes ==
    ASSUME NEW g, NEW n \in DOMAIN g.orders, Good(g, {n}), g.orders[n].status = "SUBMITTED",
           g.orders[n].type = "market" => MayPay(SetStatus(g, n, "ACCEPTED"), n, None)
    PROVE  Goes(g, EngineSubmit(g, n))
<1> DEFINE o == g.orders[n]
           a == SetStatus(g, n, "ACCEPTED")
           p == [o EXCEPT !.status = "ACCEPTED"]
<1>0. /\ BookInv(g) /\ ExchangeType(g) /\ ExchangeInv(g, {n}) /\ FillsAside(g, {n}) /\ FillsAside(g, {})
      /\ o \in PaperOrder /\ OrderInv(o) /\ o.status = "SUBMITTED"
  BY GoodBook, ExchangeTypes DEF BookInv, FillsAside
<1>1. o.qty \in Nat /\ o.filled = 0 /\ o.type \in PaperTypes
  BY <1>0 DEF PaperOrder, OrderInv
<1>2. CASE Malformed(o)
  <2>1. EngineSubmit(g, n) = SetStatus(g, n, "REJECTED")
    BY <1>2 DEF EngineSubmit
  <2> QED
    BY <1>0, <1>1, <2>1, OverGoes
<1>3. CASE ~Malformed(o)
  <2>1. o.qty > 0
    BY <1>1, <1>3 DEF Malformed
  <2>2. Replaced(g, n, p, a)
    BY <1>0, <2>1, AcceptKeeps
  <2>3. /\ ExchangeInv(a, {n}) /\ Flow(g, a) /\ SameAccount(g, a) /\ a.orders[n] = p /\ n \in DOMAIN a.orders
    BY <2>2 DEF Replaced
  <2>4. /\ p.status = "ACCEPTED" /\ p.type = o.type /\ p.qty = o.qty /\ p.limit = o.limit /\ p.stop = o.stop
    <3>1. o \in PaperOrder
      BY <1>0
    <3> HIDE DEF o
    <3> QED
      BY <3>1 DEF PaperOrder
  <2>5. ~Malformed(p)
    <3> HIDE DEF p, o
    <3> QED
      BY <1>3, <2>4 DEF Malformed
  <2>6. Good(a, {n}) /\ BookInv(a)
    BY <1>0, <2>3 DEF Good, FillsAside, SameAccount, ExchangeInv
  <2>7. EngineSubmit(g, n) = IF o.type = "market" THEN ExecuteMarket(a, n)
                             ELSE IF o.type = "limit" THEN ExecuteLimit(a, n)
                             ELSE [a EXCEPT !.stops = @ \cup {n}]
    BY <1>3 DEF EngineSubmit
  <2>8. o.type = "market" => MayPay(a, n, None)
    OBVIOUS
  <2> HIDE DEF a, p, o
  <2>9. Goes(a, EngineSubmit(g, n))
    <3>1. CASE o.type = "market"
      BY <2>1, <2>3, <2>4, <2>6, <2>7, <2>8, <3>1, ExecuteMarketGoes
    <3>2. CASE o.type = "limit"
      <4>1. p.limit # None
        BY <1>3, <2>4, <3>2 DEF Malformed
      <4> QED
        BY <2>1, <2>3, <2>4, <2>6, <2>7, <3>2, <4>1, ExecuteLimitGoes
    <3>3. CASE o.type \in {"stop", "stop_limit"}
      <4>1. EngineSubmit(g, n) = [a EXCEPT !.stops = @ \cup {n}]
        BY <2>7, <3>3
      <4>2. a.orders[n].status = "ACCEPTED" /\ a.orders[n].type \in {"stop", "stop_limit"} /\ ~Malformed(a.orders[n])
        BY <2>3, <2>4, <2>5, <3>3
      <4> QED
        BY <2>3, <2>6, <4>1, <4>2, StopWaits
    <3> QED
      BY <1>1, <3>1, <3>2, <3>3 DEF PaperTypes
  <2> QED
    BY <1>0, <2>3, <2>6, <2>9, GoesOn
<1> QED
  BY <1>2, <1>3

(* A stop that is triggered becomes a market or a limit order. *)
LEMMA TriggerGoes ==
    ASSUME NEW g, NEW n \in DOMAIN g.orders, Good(g, {n}), g.orders[n].status = "ACCEPTED",
           g.orders[n].type \in {"stop", "stop_limit"}, ~Malformed(g.orders[n])
    PROVE  Goes(g, Trigger(g, n))
<1>1. PICK o : o = g.orders[n]
  OBVIOUS
<1>2. PICK type : type = IF o.type = "stop" THEN "market" ELSE "limit"
  OBVIOUS
<1> DEFINE p == [o EXCEPT !.type = type]
           a == SetType(g, n, type)
<1>3. /\ BookInv(g) /\ ExchangeType(g) /\ ExchangeInv(g, {n}) /\ FillsAside(g, {n})
      /\ o \in PaperOrder /\ OrderInv(o) /\ Due(o) \in Nat /\ o.status = "ACCEPTED"
      /\ o.type \in {"stop", "stop_limit"} /\ ~Malformed(o)
  BY <1>1, GoodBook, FlowNumbers
<1>4. /\ p \in PaperOrder /\ p.status = "ACCEPTED" /\ p.type = type /\ p.qty = o.qty /\ p.limit = o.limit
      /\ p.stop = o.stop /\ p.side = o.side /\ p.given = o.given /\ p.filled = o.filled
      /\ p.tif = o.tif /\ p.estimate = o.estimate /\ o.qty \in Nat /\ o.filled = 0
  BY <1>2, <1>3 DEF PaperOrder, PaperTypes, OrderInv
<1>5. a = [g EXCEPT !.orders[n] = p]
  BY <1>1 DEF SetType
<1>6. o.qty > 0 /\ (type = "limit" => o.limit # None)
  BY <1>2, <1>3, <1>4 DEF Malformed
<1>6a. o.given = o.type
  BY <1>3 DEF OrderInv
<1> HIDE DEF p, a
<1>7. OrderInv(p)
  BY <1>2, <1>3, <1>4, <1>6a DEF OrderInv
<1>8. OrderMoves(o, p)
  BY <1>3, <1>4 DEF OrderMoves, WORKING
<1>9. Due(p) <= Due(o)
  <2>1. CASE o.type = "stop"
    <3>1. Due(p) = 0
      BY <1>2, <1>4, <1>6a, <2>1 DEF Due
    <3> QED
      BY <1>3, <3>1
  <2>2. CASE o.type = "stop_limit"
    <3>1. Due(p) = Due(o)
      BY <1>2, <1>3, <1>4, <2>2 DEF Due, WorstPrice, WORKING
    <3> QED
      BY <1>3, <3>1
  <2> QED
    BY <1>3, <2>1, <2>2
<1>10. Replaced(g, n, p, a)
  BY <1>1, <1>3, <1>4, <1>5, <1>7, <1>8, <1>9, LimboMoves
<1>11. ExchangeInv(a, {n}) /\ Flow(g, a) /\ SameAccount(g, a) /\ a.orders[n] = p /\ n \in DOMAIN a.orders
  BY <1>10 DEF Replaced
<1>12. Good(a, {n}) /\ BookInv(a)
  BY <1>3, <1>11 DEF Good, FillsAside, SameAccount, ExchangeInv
<1>13. Goes(a, Trigger(g, n))
  <2>1. CASE o.type = "stop"
    <3>1. Trigger(g, n) = ExecuteMarket(a, n)
      BY <1>1, <1>2, <2>1 DEF Trigger, a
    <3>2. MayPay(a, n, None)
      BY <1>4, <1>6a, <1>11, <2>1 DEF MayPay, UnboundedOrder
    <3> QED
      BY <1>2, <1>4, <1>6, <1>11, <1>12, <2>1, <3>1, <3>2, ExecuteMarketGoes
  <2>2. CASE o.type = "stop_limit"
    <3>1. Trigger(g, n) = ExecuteLimit(a, n)
      BY <1>1, <1>2, <2>2 DEF Trigger, a
    <3> QED
      BY <1>2, <1>4, <1>6, <1>11, <1>12, <2>2, <3>1, ExecuteLimitGoes
  <2> QED
    BY <1>3, <2>1, <2>2
<1> QED
  BY <1>3, <1>11, <1>12, <1>13, GoesOn

(* What remains after orders of the book were changed is pruned. *)
LEMMA PruneGoes ==
    ASSUME NEW g, Good(g, {}), NEW b, NEW levels, Touched(b, levels), SameAccount(g, b),
           DOMAIN b.orders = DOMAIN g.orders,
           \A m : RestsAt(b, m) = {} <=> RestsAt(g, m) = {},
           \A m \in DOMAIN g.orders :
              \/ b.orders[m] = g.orders[m]
              \/ /\ g.orders[m].status \in RESTING /\ b.orders[m].status \notin WORKING
                 /\ b.orders[m] = [g.orders[m] EXCEPT !.status = b.orders[m].status]
    PROVE  Goes(g, Prune(b, levels))
<1> DEFINE c == Prune(b, levels)
<1>0. BookInv(g) /\ ExchangeType(g) /\ ExchangeInv(g, {}) /\ FillsAside(g, {})
  BY GoodBook
<1>1. /\ BookInv(c) /\ SameOrders(b, c) /\ SameAccount(b, c)
      /\ \A n \in DOMAIN b.orders :
            RestsAt(c, n) = IF b.orders[n].status \in RESTING THEN RestsAt(b, n) ELSE {}
  BY PruneKeeps
<1> HIDE DEF c
<1>2. DOMAIN c.orders = DOMAIN g.orders /\ SameAccount(g, c)
  BY <1>1 DEF SameOrders, SameAccount
<1>3. ASSUME NEW m \in DOMAIN g.orders
      PROVE  /\ OrderMoves(g.orders[m], c.orders[m]) /\ c.orders[m].filled = g.orders[m].filled
             /\ Due(c.orders[m]) <= Due(g.orders[m]) /\ PlaceInv(c, m)
  <2>1. PICK o : o = g.orders[m]
    OBVIOUS
  <2>2. PICK q : q = b.orders[m]
    OBVIOUS
  <2>3. PICK p : p = c.orders[m]
    OBVIOUS
  <2>4. /\ o \in PaperOrder /\ Due(o) \in Nat /\ PlaceInv(g, m) /\ p \in PaperOrder
        /\ p = [q EXCEPT !.ahead = p.ahead]
        /\ \/ q = o
           \/ o.status \in RESTING /\ q.status \notin WORKING /\ q = [o EXCEPT !.status = q.status]
    BY <1>0, <1>1, <1>2, <2>1, <2>2, <2>3, FlowNumbers DEF SameOrders, ExchangeInv
  <2>5. /\ q.side = o.side /\ q.qty = o.qty /\ q.limit = o.limit /\ q.stop = o.stop /\ q.given = o.given
        /\ q.type = o.type /\ q.estimate = o.estimate /\ q.filled = o.filled /\ q.tif = o.tif
        /\ o.filled \in Nat
    BY <2>4 DEF PaperOrder
  <2>6. q \in PaperOrder
    <3>1. ExchangeType(b)
      BY DEF Touched
    <3> QED
      BY <2>2, <3>1, ExchangeTypes
  <2>7. /\ p.side = q.side /\ p.qty = q.qty /\ p.limit = q.limit /\ p.stop = q.stop /\ p.given = q.given
        /\ p.type = q.type /\ p.estimate = q.estimate /\ p.filled = q.filled /\ p.status = q.status
    BY <2>4, <2>6 DEF PaperOrder
  <2>8. OrderMoves(o, p)
    BY <2>4, <2>5, <2>7 DEF OrderMoves, RESTING, WORKING
  <2>9. Due(p) <= Due(o)
    <3>1. CASE q = o
      <4>1. Due(p) = Due(o)
        BY <2>7, <3>1 DEF Due, WorstPrice
      <4> QED
        BY <2>4, <4>1
    <3>2. CASE q.status \notin WORKING
      <4>1. Due(p) = 0
        BY <2>7, <3>2 DEF Due
      <4> QED
        BY <2>4, <4>1
    <3> QED
      BY <2>4, <3>1, <3>2
  <2>10. RestsAt(c, m) # {} <=> q.status \in RESTING
    <3>1. CASE q.status \in RESTING
      <4>1. q = o
        BY <2>4, <3>1 DEF RESTING, WORKING
      <4>2. RestsAt(g, m) # {}
        BY <2>1, <2>4, <3>1, <4>1 DEF PlaceInv
      <4> QED
        BY <1>1, <2>2, <3>1, <4>2
    <3>2. CASE q.status \notin RESTING
      BY <1>1, <2>2, <3>2
    <3> QED
      BY <3>1, <3>2
  <2>11. Malformed(p) <=> Malformed(o)
    BY <2>5, <2>7 DEF Malformed
  <2>12. /\ (q.status = "SUBMITTED" <=> InFlight(g, m)) /\ (q.status = "ACCEPTED" <=> m \in g.stops)
         /\ (m \in g.stops => o.type \in {"stop", "stop_limit"} /\ ~Malformed(o))
    BY <2>1, <2>4 DEF PlaceInv, RESTING, WORKING
  <2>13. PlaceInv(c, m)
    BY <1>2, <2>3, <2>5, <2>7, <2>10, <2>11, <2>12 DEF PlaceInv, InFlight, SameAccount
  <2> QED
    BY <2>1, <2>3, <2>5, <2>7, <2>8, <2>9, <2>13
<1>4. Flow(g, c)
  BY <1>0, <1>1, <1>2, <1>3, FlowQuiet DEF SameAccount
<1>5. ExchangeInv(c, {})
  BY <1>1, <1>2, <1>3 DEF ExchangeInv
<1>6. FillsAside(c, {})
  BY <1>0, <1>2 DEF FillsAside, SameAccount
<1> QED
  BY <1>4, <1>5, <1>6 DEF Goes, Good, c

(* A resting order leaves the book. *)
LEMMA CancelRestingGoes ==
    ASSUME NEW g, Good(g, {}), NEW n \in DOMAIN g.orders, RestsAt(g, n) # {},
           NEW outcome \in {"CANCELLED", "EXPIRED"}
    PROVE  Goes(g, CancelResting(g, n, outcome))
<1> DEFINE b == SetStatus(g, n, outcome)
           levels == {LevelOf(g.queue[i]) : i \in RestsAt(g, n)}
<1>0. BookInv(g) /\ ExchangeType(g) /\ ExchangeInv(g, {}) /\ \A j \in DOMAIN g.queue : EntryInv(g, j)
  BY GoodBook DEF BookInv
<1>1. PICK o : o = g.orders[n]
  OBVIOUS
<1> DEFINE p == [o EXCEPT !.status = outcome]
<1>2. o \in PaperOrder /\ OrderInv(o) /\ o.status \in RESTING
  <2>1. PlaceInv(g, n)
    BY <1>0 DEF ExchangeInv
  <2> QED
    BY <1>0, <1>1, <2>1, ExchangeTypes DEF PlaceInv, BookInv
<1>3. /\ p \in PaperOrder /\ p.status = outcome /\ p.filled = o.filled /\ p.qty = o.qty /\ p.side = o.side
      /\ p.limit = o.limit /\ p.type = o.type /\ p.tif = o.tif /\ p.given = o.given
  <2>1. outcome \in Statuses
    BY DEF Statuses
  <2> QED
    BY <1>2, <2>1 DEF PaperOrder
<1>4. OrderInv(p)
  <2> HIDE DEF p
  <2> QED
    BY <1>2, <1>3 DEF OrderInv, RESTING
<1>5. b = [g EXCEPT !.orders[n] = p]
  BY <1>1 DEF SetStatus
<1> HIDE DEF p, b
<1>6. /\ ExchangeType(b) /\ SameAccount(g, b) /\ b.queue = g.queue
      /\ DOMAIN b.orders = DOMAIN g.orders /\ b.orders[n] = p
      /\ \A m \in DOMAIN g.orders \ {n} : b.orders[m] = g.orders[m]
      /\ \A m : RestsAt(b, m) = RestsAt(g, m)
  BY <1>0, <1>3, <1>5, OrderReplaced
<1>7. \A m \in DOMAIN b.orders : OrderInv(b.orders[m])
  BY <1>0, <1>4, <1>6 DEF BookInv
<1>8. ASSUME NEW j \in DOMAIN g.queue PROVE Left(b, j) = Left(g, j)
  <2>1. g.queue[j].owner = "PAPER" => g.queue[j].id \in DOMAIN g.orders
    BY <1>0 DEF EntryInv
  <2>2. \A m \in DOMAIN g.orders : Remaining(b, m) = Remaining(g, m)
    BY <1>1, <1>3, <1>6 DEF Remaining
  <2> QED
    BY <1>6, <2>1, <2>2 DEF Left
<1>9. ASSUME NEW j \in DOMAIN b.queue PROVE EntryTouched(b, levels, j)
  <2>1. EntryInv(g, j) /\ b.queue[j] = g.queue[j] /\ j \in DOMAIN g.queue
    BY <1>0, <1>6
  <2>2. CASE g.queue[j].owner = "PAPER"
    <3> DEFINE m == g.queue[j].id
    <3>1. /\ m \in DOMAIN g.orders /\ MayRest(g.orders[m], g.queue[j]) /\ RestsAt(g, m) = {j}
          /\ g.orders[m].status \in RESTING /\ g.orders[m].filled < g.orders[m].qty
          /\ g.orders[m].ahead = Total(g, InFront(g, j))
      BY <2>1, <2>2 DEF EntryInv
    <3>2. CASE m = n
      <4>1. LevelOf(g.queue[j]) \in levels
        BY <3>1, <3>2
      <4>2. MayRest(p, g.queue[j])
        BY <1>1, <1>3, <3>1, <3>2 DEF MayRest
      <4>3. p.status \notin ACTIVE
        BY <1>3 DEF ACTIVE
      <4> HIDE DEF levels
      <4> QED
        BY <1>6, <2>1, <2>2, <3>1, <3>2, <4>1, <4>2, <4>3 DEF EntryTouched
    <3>3. CASE m # n
      <4>1. b.orders[m] = g.orders[m]
        BY <1>6, <3>1, <3>3
      <4>2. InFront(b, j) = InFront(g, j) /\ InFront(g, j) \subseteq DOMAIN g.queue
        BY <1>6 DEF InFront
      <4>3. Total(b, InFront(g, j)) = Total(g, InFront(g, j))
        BY <1>8, <4>2, TotalSame
      <4> HIDE DEF levels
      <4> QED
        BY <1>6, <2>1, <2>2, <3>1, <4>1, <4>2, <4>3 DEF EntryTouched
    <3> QED
      BY <3>2, <3>3
  <2>3. CASE g.queue[j].owner # "PAPER"
    <3> HIDE DEF levels
    <3> QED
      BY <2>1, <2>3 DEF EntryTouched, EntryInv
  <2> QED
    BY <2>2, <2>3
<1> HIDE DEF levels
<1>10. Touched(b, levels)
  BY <1>6, <1>7, <1>9 DEF Touched
<1>11. \A m \in DOMAIN g.orders :
          \/ b.orders[m] = g.orders[m]
          \/ /\ g.orders[m].status \in RESTING /\ b.orders[m].status \notin WORKING
             /\ b.orders[m] = [g.orders[m] EXCEPT !.status = b.orders[m].status]
  <2>1. p = [o EXCEPT !.status = p.status] /\ p.status \notin WORKING
    BY <1>3 DEF WORKING, p
  <2> QED
    BY <1>1, <1>2, <1>6, <2>1
<1>12. Goes(g, Prune(b, levels))
  BY <1>6, <1>10, <1>11, PruneGoes
<1> QED
  BY <1>12 DEF CancelResting, b, levels

(* A stop that waits is cancelled, a resting order leaves the book. *)
LEMMA EngineCancelGoes ==
    ASSUME NEW g, Good(g, {}), NEW n \in DOMAIN g.orders, NEW outcome \in {"CANCELLED", "EXPIRED"}
    PROVE  Goes(g, EngineCancel(g, n, outcome))
<1>1. CASE n \in g.stops
  <2> DEFINE t == [g EXCEPT !.stops = @ \ {n}]
  <2>1. /\ Good(t, {n}) /\ Flow(g, t) /\ n \in DOMAIN t.orders /\ t.orders = g.orders
        /\ t.orders[n].status = "ACCEPTED"
    BY <1>1, StopTaken
  <2>2. EngineCancel(g, n, outcome) = SetStatus(t, n, outcome)
    <3>1. EngineCancel(g, n, outcome) = [SetStatus(g, n, outcome) EXCEPT !.stops = @ \ {n}]
      BY <1>1 DEF EngineCancel
    <3>2. PICK p : p = [g.orders[n] EXCEPT !.status = outcome]
      OBVIOUS
    <3>3. ExchangeType(g) /\ "stops" \in DOMAIN g /\ "orders" \in DOMAIN g /\ "stops" # "orders"
      BY GoodBook DEF ExchangeType
    <3>4. SetStatus(g, n, outcome) = [g EXCEPT !.orders[n] = p]
      BY <3>2 DEF SetStatus
    <3>5. SetStatus(t, n, outcome) = [t EXCEPT !.orders[n] = p]
      BY <2>1, <3>2 DEF SetStatus
    <3>6. [[g EXCEPT !.orders[n] = p] EXCEPT !.stops = @ \ {n}] = [t EXCEPT !.orders[n] = p]
      BY <3>3
    <3> QED
      BY <3>1, <3>4, <3>5, <3>6
  <2> HIDE DEF t
  <2>3. FillsAside(t, {}) /\ ExchangeInv(t, {n}) /\ BookInv(t) /\ BookInv(g)
    BY <2>1, GoodBook DEF FillsAside
  <2>4. Goes(t, SetStatus(t, n, outcome))
    BY <2>1, <2>3, OverGoes
  <2> QED
    BY <2>1, <2>2, <2>3, <2>4, GoesOn
<1>2. CASE n \notin g.stops /\ RestsAt(g, n) # {}
  <2>1. EngineCancel(g, n, outcome) = CancelResting(g, n, outcome)
    BY <1>2 DEF EngineCancel
  <2> QED
    BY <1>2, <2>1, CancelRestingGoes
<1>3. CASE n \notin g.stops /\ RestsAt(g, n) = {}
  <2>1. EngineCancel(g, n, outcome) = g
    BY <1>3 DEF EngineCancel
  <2> QED
    BY <2>1, GoesNowhere
<1> QED
  BY <1>1, <1>2, <1>3

-----------------------------------------------------------------------------
(* Market liquidity comes and goes *)

(* Only market orders of level L differ. *)
LevelChanged(g, L, b) ==
    /\ ExchangeType(b) /\ SameAccount(g, b) /\ b.orders = g.orders
    /\ \A j \in DOMAIN b.queue : LevelOf(b.queue[j]) # L \/ b.queue[j].owner = "PAPER" =>
           j \in DOMAIN g.queue /\ b.queue[j] = g.queue[j]
    /\ \A j \in DOMAIN g.queue : LevelOf(g.queue[j]) # L \/ g.queue[j].owner = "PAPER" =>
           j \in DOMAIN b.queue /\ b.queue[j] = g.queue[j]

(* A level of market liquidity that changed is pruned. *)
LEMMA LevelChangedGoes ==
    ASSUME NEW g, Good(g, {}), NEW L, NEW b, LevelChanged(g, L, b)
    PROVE  Goes(g, Prune(b, {L}))
<1>0. BookInv(g) /\ ExchangeType(g) /\ \A j \in DOMAIN g.queue : EntryInv(g, j)
  BY GoodBook DEF BookInv
<1>1. /\ ExchangeType(b) /\ SameAccount(g, b) /\ b.orders = g.orders
      /\ \A j \in DOMAIN b.queue : LevelOf(b.queue[j]) # L \/ b.queue[j].owner = "PAPER" =>
           j \in DOMAIN g.queue /\ b.queue[j] = g.queue[j]
      /\ \A j \in DOMAIN g.queue : LevelOf(g.queue[j]) # L \/ g.queue[j].owner = "PAPER" =>
           j \in DOMAIN b.queue /\ b.queue[j] = g.queue[j]
  BY DEF LevelChanged
<1>2. \A m : RestsAt(b, m) = RestsAt(g, m)
  BY <1>1 DEF RestsAt, IsPaper
<1>3. ASSUME NEW j \in DOMAIN b.queue PROVE EntryTouched(b, {L}, j)
  <2>1. CASE b.queue[j].owner = "PAPER"
    <3>1. j \in DOMAIN g.queue /\ b.queue[j] = g.queue[j] /\ EntryInv(g, j)
      BY <1>0, <1>1, <2>1
    <3>2. PICK m : m = g.queue[j].id
      OBVIOUS
    <3>3. /\ m \in DOMAIN g.orders /\ MayRest(g.orders[m], g.queue[j]) /\ RestsAt(g, m) = {j}
          /\ g.orders[m].status \in RESTING /\ g.orders[m].filled < g.orders[m].qty
          /\ g.orders[m].ahead = Total(g, InFront(g, j))
      BY <2>1, <3>1, <3>2 DEF EntryInv
    <3>4. CASE LevelOf(g.queue[j]) = L
      BY <1>1, <1>2, <2>1, <3>1, <3>2, <3>3, <3>4 DEF EntryTouched
    <3>5. CASE LevelOf(g.queue[j]) # L
      <4>1. InFront(b, j) = InFront(g, j)
        BY <1>1, <3>1, <3>5 DEF InFront
      <4>2. \A i \in InFront(g, j) : Left(b, i) = Left(g, i)
        BY <1>1, <3>5 DEF InFront, Left, Remaining
      <4>3. Total(b, InFront(g, j)) = Total(g, InFront(g, j))
        BY <4>2, TotalSame
      <4> QED
        BY <1>1, <1>2, <2>1, <3>1, <3>2, <3>3, <4>1, <4>3 DEF EntryTouched
    <3> QED
      BY <3>4, <3>5
  <2>2. CASE b.queue[j].owner = "MARKET"
    <3>1. CASE LevelOf(b.queue[j]) = L
      BY <2>2, <3>1 DEF EntryTouched
    <3>2. CASE LevelOf(b.queue[j]) # L
      <4>1. j \in DOMAIN g.queue /\ b.queue[j] = g.queue[j] /\ EntryInv(g, j)
        BY <1>0, <1>1, <3>2
      <4> QED
        BY <2>2, <4>1 DEF EntryTouched, EntryInv
    <3> QED
      BY <3>1, <3>2
  <2>3. b.queue[j] \in QueueEntry
    BY <1>1, ExchangeTypes
  <2> QED
    BY <2>1, <2>2, <2>3 DEF QueueEntry
<1>4. Touched(b, {L})
  BY <1>0, <1>1, <1>3 DEF Touched, BookInv
<1>5. DOMAIN b.orders = DOMAIN g.orders /\ \A m \in DOMAIN g.orders : b.orders[m] = g.orders[m]
  BY <1>1
<1>6. \A m : RestsAt(b, m) = {} <=> RestsAt(g, m) = {}
  BY <1>2
<1> QED
  BY <1>1, <1>4, <1>5, <1>6, PruneGoes

(* The queue was replaced, the rest is as it was. *)
LEMMA QueueReplaced ==
    ASSUME NEW g, ExchangeType(g), NEW q, IsFiniteSet(DOMAIN q), DOMAIN q \subseteq Nat,
           q \in [DOMAIN q -> QueueEntry]
    PROVE  LET b == [g EXCEPT !.queue = q]
           IN ExchangeType(b) /\ SameAccount(g, b) /\ b.orders = g.orders /\ b.queue = q
<1> DEFINE b == [g EXCEPT !.queue = q]
<1>1. b.queue = q /\ SameAccount(g, b) /\ b.orders = g.orders /\ DOMAIN b = DOMAIN g
  <2>1. "queue" \in DOMAIN g
    BY DEF ExchangeType
  <2> QED
    BY <2>1 DEF SameAccount
<1> HIDE DEF b
<1>2. ExchangeType(b)
  BY <1>1 DEF ExchangeType, SameAccount
<1> QED
  BY <1>1, <1>2 DEF b

(* The size of a market order is set. *)
LEMMA SetLeftChanges ==
    ASSUME NEW g, Good(g, {}), NEW i \in DOMAIN g.queue, g.queue[i].owner = "MARKET", NEW size \in Nat
    PROVE  LevelChanged(g, LevelOf(g.queue[i]), SetLeft(g, i, size))
<1> DEFINE r == [g.queue[i] EXCEPT !.left = size]
           q == [g.queue EXCEPT ![i] = r]
           b == SetLeft(g, i, size)
<1>0. /\ ExchangeType(g) /\ IsFiniteSet(DOMAIN g.queue) /\ DOMAIN g.queue \subseteq Nat
      /\ \A j \in DOMAIN g.queue : g.queue[j] \in QueueEntry
      /\ g.queue \in [DOMAIN g.queue -> QueueEntry]
  BY GoodBook, ExchangeTypes DEF ExchangeType
<1>1. r \in QueueEntry /\ r.owner = "MARKET" /\ LevelOf(r) = LevelOf(g.queue[i])
  <2>1. PICK e : e = g.queue[i]
    OBVIOUS
  <2>2. e \in QueueEntry /\ e.owner = "MARKET" /\ r = [e EXCEPT !.left = size]
    BY <1>0, <2>1
  <2> HIDE DEF r
  <2>3. r \in QueueEntry /\ r.owner = "MARKET" /\ LevelOf(r) = LevelOf(e)
    BY <2>2 DEF QueueEntry, LevelOf
  <2> QED
    BY <2>1, <2>3
<1> HIDE DEF r
<1>2. /\ DOMAIN q = DOMAIN g.queue /\ q[i] = r /\ \A j \in DOMAIN g.queue \ {i} : q[j] = g.queue[j]
      /\ q \in [DOMAIN q -> QueueEntry]
  BY <1>0, <1>1
<1>3. b = [g EXCEPT !.queue = q]
  BY DEF SetLeft, r
<1> HIDE DEF q, b
<1>4. ExchangeType(b) /\ SameAccount(g, b) /\ b.orders = g.orders /\ b.queue = q
  <2>1. IsFiniteSet(DOMAIN q) /\ DOMAIN q \subseteq Nat /\ q \in [DOMAIN q -> QueueEntry]
    BY <1>0, <1>2
  <2> QED
    BY <1>0, <1>3, <2>1, QueueReplaced
<1>5. \A j \in DOMAIN q : LevelOf(q[j]) # LevelOf(g.queue[i]) \/ q[j].owner = "PAPER" =>
           j \in DOMAIN g.queue /\ q[j] = g.queue[j]
  BY <1>1, <1>2
<1>6. \A j \in DOMAIN g.queue : LevelOf(g.queue[j]) # LevelOf(g.queue[i]) \/ g.queue[j].owner = "PAPER" =>
           j \in DOMAIN q /\ q[j] = g.queue[j]
  BY <1>2
<1> QED
  BY <1>4, <1>5, <1>6 DEF LevelChanged, b

(* A market order joins its level anew. *)
LEMMA RejoinChanges ==
    ASSUME NEW g, Good(g, {}), NEW i \in DOMAIN g.queue, g.queue[i].owner = "MARKET", NEW size \in Nat
    PROVE  LevelChanged(g, LevelOf(g.queue[i]),
                        [g EXCEPT !.queue = Joined(Without(@, i), [@[i] EXCEPT !.left = size])])
<1> DEFINE r == [g.queue[i] EXCEPT !.left = size]
           w == Without(g.queue, i)
           q == Joined(w, r)
           b == [g EXCEPT !.queue = q]
<1>0. /\ ExchangeType(g) /\ IsFiniteSet(DOMAIN g.queue) /\ DOMAIN g.queue \subseteq Nat
      /\ \A j \in DOMAIN g.queue : g.queue[j] \in QueueEntry
  BY GoodBook, ExchangeTypes DEF ExchangeType
<1>1. r \in QueueEntry /\ r.owner = "MARKET" /\ LevelOf(r) = LevelOf(g.queue[i])
  <2>1. PICK e : e = g.queue[i]
    OBVIOUS
  <2>2. e \in QueueEntry /\ e.owner = "MARKET" /\ r = [e EXCEPT !.left = size]
    BY <1>0, <2>1
  <2> HIDE DEF r
  <2>3. r \in QueueEntry /\ r.owner = "MARKET" /\ LevelOf(r) = LevelOf(e)
    BY <2>2 DEF QueueEntry, LevelOf
  <2> QED
    BY <2>1, <2>3
<1> HIDE DEF r
<1>2. DOMAIN w = DOMAIN g.queue \ {i} /\ \A j \in DOMAIN w : w[j] = g.queue[j]
  BY DEF Without, Restrict
<1> HIDE DEF w
<1>3. IsFiniteSet(DOMAIN w) /\ DOMAIN w \subseteq Nat
  BY <1>0, <1>2, FS_Subset
<1>4. PICK k \in Nat : /\ \A j \in DOMAIN w : j < k /\ q[j] = w[j]
                       /\ k \notin DOMAIN w /\ q[k] = r
                       /\ DOMAIN q = DOMAIN w \cup {k}
  BY <1>3, JoinedLast
<1>5. q = [j \in DOMAIN q |-> q[j]]
  BY DEF Joined, Extended
<1> HIDE DEF q
<1>6. IsFiniteSet(DOMAIN q) /\ DOMAIN q \subseteq Nat
  BY <1>3, <1>4, FS_AddElement
<1>7. q \in [DOMAIN q -> QueueEntry]
  <2>1. \A j \in DOMAIN q : q[j] \in QueueEntry
    BY <1>0, <1>1, <1>2, <1>4
  <2> QED
    BY <1>5, <2>1
<1>8. ExchangeType(b) /\ SameAccount(g, b) /\ b.orders = g.orders /\ b.queue = q
  BY <1>0, <1>6, <1>7, QueueReplaced
<1> HIDE DEF b
<1>9. \A j \in DOMAIN q : LevelOf(q[j]) # LevelOf(g.queue[i]) \/ q[j].owner = "PAPER" =>
           j \in DOMAIN g.queue /\ q[j] = g.queue[j]
  BY <1>1, <1>2, <1>4
<1>10. \A j \in DOMAIN g.queue : LevelOf(g.queue[j]) # LevelOf(g.queue[i]) \/ g.queue[j].owner = "PAPER" =>
           j \in DOMAIN q /\ q[j] = g.queue[j]
  BY <1>2, <1>4
<1>11. LevelChanged(g, LevelOf(g.queue[i]), b)
  BY <1>8, <1>9, <1>10 DEF LevelChanged
<1> QED
  BY <1>11 DEF b, q, w, r

(* A part of a whole is at most the whole. *)
LEMMA PartOfWhole ==
    ASSUME NEW a \in Nat, NEW m \in Nat, NEW T \in Nat, T > 0, m <= T
    PROVE  a - ((a * m) \div T) \in Nat
<1>1. PICK q : q = (a * m) \div T
  OBVIOUS
<1>2. PICK p \in Nat : p = a * m
  OBVIOUS
<1>3. q \in Int /\ q * T <= p /\ p < (q + 1) * T
  BY <1>1, <1>2
<1>4. p <= a * T
  BY <1>2
<1>5. q <= a
  <2> SUFFICES ASSUME q > a PROVE FALSE
    BY <1>3
  <2>1. q >= a + 1
    BY <1>3
  <2>2. q * T >= (a + 1) * T
    BY <1>3, <2>1
  <2> QED
    BY <1>2, <1>3, <1>4, <2>2
<1> QED
  BY <1>1, <1>3, <1>5

(* Entries of a level are reduced. *)
LEMMA ReduceChanges ==
    ASSUME NEW g, Good(g, {}), NEW side, NEW price, NEW amount \in Nat,
           LET I == OfMarket(g, Level(g, side, price))
           IN amount <= Total(g, I) /\ Total(g, I) > 0
    PROVE  LevelChanged(g, <<side, price>>, ReduceMarket(g, OfMarket(g, Level(g, side, price)), amount))
<1> DEFINE I == OfMarket(g, Level(g, side, price))
           r(j) == [g.queue[j] EXCEPT !.left = @ - (@ * amount) \div Total(g, I)]
           q == [j \in DOMAIN g.queue |-> IF j \in I THEN r(j) ELSE g.queue[j]]
           b == ReduceMarket(g, I, amount)
<1>0. /\ BookInv(g) /\ ExchangeType(g) /\ IsFiniteSet(DOMAIN g.queue) /\ DOMAIN g.queue \subseteq Nat
      /\ \A j \in DOMAIN g.queue : g.queue[j] \in QueueEntry
  BY GoodBook, ExchangeTypes DEF ExchangeType
<1>1. I \subseteq DOMAIN g.queue /\ \A j \in I : g.queue[j].owner = "MARKET" /\ LevelOf(g.queue[j]) = <<side, price>>
  BY DEF OfMarket, Level
<1>2. Total(g, I) \in Nat
  BY <1>0, <1>1, LeftType, TotalType
<1>3. ASSUME NEW j \in I
      PROVE  r(j) \in QueueEntry /\ r(j).owner = "MARKET" /\ LevelOf(r(j)) = <<side, price>>
  <2>1. PICK e : e = g.queue[j]
    OBVIOUS
  <2>2. PICK T : T = Total(g, I)
    OBVIOUS
  <2>3. e \in QueueEntry /\ e.owner = "MARKET" /\ LevelOf(e) = <<side, price>>
    BY <1>0, <1>1, <2>1
  <2>4. e.left - ((e.left * amount) \div T) \in Nat
    <3>1. e.left \in Nat
      BY <2>3 DEF QueueEntry
    <3> QED
      BY <1>2, <2>2, <3>1, PartOfWhole
  <2>5. PICK k \in Nat : k = e.left - ((e.left * amount) \div T)
    BY <2>4
  <2>6. PICK p : p = r(j)
    OBVIOUS
  <2>7. p = [e EXCEPT !.left = k]
    BY <2>1, <2>2, <2>5, <2>6
  <2>8. p \in QueueEntry /\ p.owner = "MARKET" /\ LevelOf(p) = LevelOf(e)
    BY <2>3, <2>7 DEF QueueEntry, LevelOf
  <2> QED
    BY <2>3, <2>6, <2>8
<1>4. b = [g EXCEPT !.queue = q]
  BY DEF ReduceMarket
<1> HIDE DEF r, I, b
<1>5. /\ DOMAIN q = DOMAIN g.queue /\ \A j \in I : q[j] = r(j)
      /\ \A j \in DOMAIN g.queue \ I : q[j] = g.queue[j] /\ q \in [DOMAIN q -> QueueEntry]
      /\ q \in [DOMAIN q -> QueueEntry]
  BY <1>0, <1>1, <1>3
<1> HIDE DEF q
<1>6. ExchangeType(b) /\ SameAccount(g, b) /\ b.orders = g.orders /\ b.queue = q
  <2>1. IsFiniteSet(DOMAIN q) /\ DOMAIN q \subseteq Nat /\ q \in [DOMAIN q -> QueueEntry]
    BY <1>0, <1>5
  <2> QED
    BY <1>0, <1>4, <2>1, QueueReplaced
<1>7. \A j \in DOMAIN q : LevelOf(q[j]) # <<side, price>> \/ q[j].owner = "PAPER" =>
           j \in DOMAIN g.queue /\ q[j] = g.queue[j]
  BY <1>3, <1>5
<1>8. \A j \in DOMAIN g.queue : LevelOf(g.queue[j]) # <<side, price>> \/ g.queue[j].owner = "PAPER" =>
           j \in DOMAIN q /\ q[j] = g.queue[j]
  BY <1>1, <1>5
<1>9. LevelChanged(g, <<side, price>>, b)
  BY <1>6, <1>7, <1>8 DEF LevelChanged
<1> QED
  BY <1>9 DEF b, I

(* A market order joins a level that is pruned later. *)
LEMMA AddMarketChanges ==
    ASSUME NEW g, Good(g, {}), NEW id \in Nat, NEW side \in {"BUY", "SELL"}, NEW price \in Nat,
           NEW size \in Nat
    PROVE  LevelChanged(g, <<side, price>>, AddMarket(g, id, side, price, size))
<1> DEFINE e == [owner |-> "MARKET", id |-> id, side |-> side, price |-> price, left |-> size]
           h == AddMarket(g, id, side, price, size)
           q == Joined(g.queue, e)
<1>1. h = [g EXCEPT !.queue = Joined(@, e)]
  BY DEF AddMarket
<1>2. e \in QueueEntry /\ e.owner = "MARKET" /\ LevelOf(e) = <<side, price>>
  BY DEF QueueEntry, LevelOf
<1> HIDE DEF e, h
<1>3. ExchangeType(g) /\ IsFiniteSet(DOMAIN g.queue) /\ DOMAIN g.queue \subseteq Nat
  BY GoodBook DEF ExchangeType
<1>4. ExchangeType(h) /\ SameAccount(g, h) /\ h.orders = g.orders /\ h.queue = q
  BY <1>1, <1>2, <1>3, JoinedType
<1>5. PICK k \in Nat : /\ \A j \in DOMAIN g.queue : j < k /\ q[j] = g.queue[j]
                       /\ k \notin DOMAIN g.queue /\ q[k] = e
                       /\ DOMAIN q = DOMAIN g.queue \cup {k}
  BY <1>3, JoinedLast
<1> HIDE DEF q
<1>6. \A j \in DOMAIN q : LevelOf(q[j]) # <<side, price>> \/ q[j].owner = "PAPER" =>
           j \in DOMAIN g.queue /\ q[j] = g.queue[j]
  BY <1>2, <1>5
<1>7. \A j \in DOMAIN g.queue : LevelOf(g.queue[j]) # <<side, price>> \/ g.queue[j].owner = "PAPER" =>
           j \in DOMAIN q /\ q[j] = g.queue[j]
  BY <1>5
<1>8. LevelChanged(g, <<side, price>>, h)
  BY <1>4, <1>6, <1>7 DEF LevelChanged
<1> QED
  BY <1>8 DEF h

(* Market liquidity joins and stays. *)
LEMMA AddMarketGoes ==
    ASSUME NEW g, Good(g, {}), NEW id \in Nat, NEW side \in {"BUY", "SELL"}, NEW price \in Nat,
           NEW size \in Nat, size > 0
    PROVE  Goes(g, AddMarket(g, id, side, price, size))
<1>1. ExchangeInv(g, {}) /\ BookInv(g) /\ FillsAside(g, {})
  BY GoodBook
<1>0. PICK b : b = AddMarket(g, id, side, price, size)
  OBVIOUS
<1>2. ExchangeInv(b, {}) /\ SameAccount(g, b) /\ b.orders = g.orders
  <2>1. PICK limbo : limbo = {}
    OBVIOUS
  <2>2. ExchangeInv(g, limbo)
    BY <1>1, <2>1
  <2>3. MarketAdded(g, limbo, AddMarket(g, id, side, price, size))
    BY <2>2, AddMarketKeeps
  <2> QED
    BY <1>0, <2>1, <2>3 DEF MarketAdded
<1>3. BookInv(b)
  BY <1>2 DEF ExchangeInv
<1>4. ASSUME NEW n \in DOMAIN g.orders
      PROVE  /\ OrderMoves(g.orders[n], b.orders[n]) /\ b.orders[n].filled = g.orders[n].filled
             /\ Due(b.orders[n]) <= Due(g.orders[n])
  <2>1. g.orders[n] \in PaperOrder /\ Due(g.orders[n]) \in Nat
    BY <1>1, FlowNumbers
  <2>2. g.orders[n].filled \in Nat
    BY <2>1 DEF PaperOrder
  <2> QED
    BY <1>2, <2>1, <2>2 DEF OrderMoves
<1>5. Flow(g, b)
  BY <1>1, <1>2, <1>3, <1>4, FlowQuiet DEF SameAccount
<1>6. FillsAside(b, {})
  BY <1>1, <1>2 DEF FillsAside, SameAccount
<1> QED
  BY <1>0, <1>2, <1>5, <1>6 DEF Goes, Good

(* The events of a feed *)
FeedEvent ==
    [type : {"ADD", "CANCEL", "MODIFY", "TRADE"}, side : {"BUY", "SELL"}, price : Nat \ {0},
     size : Nat, id : Nat]

(* A named order of the feed changes its size. *)
LEMMA KnownChanges ==
    ASSUME NEW g, Good(g, {}), NEW e \in FeedEvent, NEW i \in Known(g, e)
    PROVE  LevelChanged(g, <<e.side, e.price>>, ChangeKnown(g, i, e))
<1>1. i \in DOMAIN g.queue /\ g.queue[i].owner = "MARKET" /\ LevelOf(g.queue[i]) = <<e.side, e.price>>
  BY DEF Known, OfMarket, Level
<1>2. e.size \in Nat
  BY DEF FeedEvent
<1>3. Left(g, i) \in Nat
  BY <1>1, GoodBook, LeftType
<1>4. CASE e.type = "CANCEL"
  <2>1. Max({0, Left(g, i) - e.size}) \in Nat
    BY <1>2, <1>3, TwoMax
  <2> QED
    BY <1>1, <1>4, <2>1, SetLeftChanges DEF ChangeKnown
<1>5. CASE e.type # "CANCEL" /\ e.size <= Left(g, i)
  BY <1>1, <1>2, <1>5, SetLeftChanges DEF ChangeKnown
<1>6. CASE e.type # "CANCEL" /\ ~(e.size <= Left(g, i))
  <2>1. ChangeKnown(g, i, e) = [g EXCEPT !.queue = Joined(Without(@, i), [@[i] EXCEPT !.left = e.size])]
    BY <1>6 DEF ChangeKnown
  <2> QED
    BY <1>1, <1>2, <2>1, RejoinChanges
<1> QED
  BY <1>4, <1>5, <1>6

(* The aggregate of a level changes. *)
LEMMA AggregateChanges ==
    ASSUME NEW g, Good(g, {}), NEW e \in FeedEvent
    PROVE  LevelChanged(g, <<e.side, e.price>>,
                        ChangeLevel(g, OfMarket(g, Level(g, e.side, e.price)), e))
<1> DEFINE I == OfMarket(g, Level(g, e.side, e.price))
           T == Total(g, I)
           t == Target(g, I, e)
<1>0. BookInv(g) /\ ExchangeType(g) /\ IsFiniteSet(DOMAIN g.queue)
  BY GoodBook DEF ExchangeType
<1>1. e.size \in Nat /\ e.id \in Nat /\ e.side \in {"BUY", "SELL"} /\ e.price \in Nat
  BY DEF FeedEvent
<1>2. I \subseteq DOMAIN g.queue
  BY DEF OfMarket, Level
<1>3. T \in Nat
  BY <1>0, <1>2, LeftType, TotalType
<1>4. t \in Nat
  <2> HIDE DEF I
  <2>1. PICK k \in Nat : k = T
    BY <1>3
  <2> HIDE DEF T
  <2>2. Max({0, k - e.size}) \in Nat
    BY <1>1, TwoMax
  <2> QED
    BY <1>1, <2>1, <2>2 DEF Target, T
<1>5. ChangeLevel(g, I, e) = IF t < T THEN ReduceMarket(g, I, T - t)
                             ELSE IF t > T THEN AddMarket(g, e.id, e.side, e.price, t - T) ELSE g
  BY DEF ChangeLevel
<1>6. CASE t < T
  <2>1. T - t \in Nat /\ T - t <= T /\ T > 0
    <3> HIDE DEF t, T
    <3> QED
      BY <1>3, <1>4, <1>6
  <2>2. LevelChanged(g, <<e.side, e.price>>, ReduceMarket(g, I, T - t))
    <3>1. PICK amount \in Nat : amount = T - t
      BY <2>1
    <3> QED
      BY <2>1, <3>1, ReduceChanges
  <2> QED
    BY <1>5, <1>6, <2>2
<1>7. CASE t > T
  <2> HIDE DEF t, T
  <2>1. t - T \in Nat /\ ~(t < T)
    BY <1>3, <1>4, <1>7
  <2> QED
    BY <1>1, <1>5, <1>7, <2>1, AddMarketChanges
<1>8. CASE ~(t < T) /\ ~(t > T)
  <2>1. LevelChanged(g, <<e.side, e.price>>, g)
    BY <1>0 DEF LevelChanged, SameAccount
  <2> QED
    BY <1>5, <1>8, <2>1
<1> QED
  BY <1>6, <1>7, <1>8

(* Events of the feed but trades *)
LEMMA LiquidityGoes ==
    ASSUME NEW g, Good(g, {}), NEW e \in FeedEvent
    PROVE  Goes(g, ApplyLiquidityEvent(g, e))
<1> DEFINE level == Level(g, e.side, e.price)
           known == Known(g, e)
<1>1. e.size \in Nat /\ e.id \in Nat /\ e.side \in {"BUY", "SELL"} /\ e.price \in Nat
  BY DEF FeedEvent
<1>2. CASE e.type = "ADD" \/ (e.type = "MODIFY" /\ level = {})
  <2>1. CASE e.size > 0
    <3>1. ApplyLiquidityEvent(g, e) = AddMarket(g, e.id, e.side, e.price, e.size)
      BY <1>2, <2>1 DEF ApplyLiquidityEvent
    <3> QED
      BY <1>1, <2>1, <3>1, AddMarketGoes
  <2>2. CASE ~(e.size > 0)
    <3>1. ApplyLiquidityEvent(g, e) = g
      BY <1>2, <2>2 DEF ApplyLiquidityEvent
    <3> QED
      BY <3>1, GoesNowhere
  <2> QED
    BY <2>1, <2>2
<1>3. CASE ~(e.type = "ADD" \/ (e.type = "MODIFY" /\ level = {})) /\ level = {}
  <2>1. ApplyLiquidityEvent(g, e) = g
    BY <1>3 DEF ApplyLiquidityEvent
  <2> QED
    BY <2>1, GoesNowhere
<1>4. CASE ~(e.type = "ADD" \/ (e.type = "MODIFY" /\ level = {})) /\ level # {}
  <2> DEFINE b == IF known # {} THEN ChangeKnown(g, CHOOSE i \in known : TRUE, e)
                  ELSE ChangeLevel(g, OfMarket(g, level), e)
  <2>1. ApplyLiquidityEvent(g, e) = Prune(b, {<<e.side, e.price>>})
    BY <1>4 DEF ApplyLiquidityEvent
  <2>2. LevelChanged(g, <<e.side, e.price>>, b)
    <3>1. CASE known # {}
      <4>1. PICK i \in known : i = CHOOSE k \in known : TRUE
        BY <3>1
      <4>2. b = ChangeKnown(g, i, e)
        BY <3>1, <4>1
      <4> QED
        BY <4>2, KnownChanges
    <3>2. CASE known = {}
      <4>1. b = ChangeLevel(g, OfMarket(g, Level(g, e.side, e.price)), e)
        BY <3>2
      <4> QED
        BY <4>1, AggregateChanges
    <3> QED
      BY <3>1, <3>2
  <2> HIDE DEF b
  <2> QED
    BY <2>1, <2>2, LevelChangedGoes
<1> QED
  BY <1>2, <1>3, <1>4

(* A trade of the feed *)
LEMMA TradeGoes ==
    ASSUME NEW g, Good(g, {}), g.fills = {}, NEW e \in FeedEvent
    PROVE  Goes(g, ApplyTrade(g, e))
<1> DEFINE path == Path(g, e.side, e.price)
           shares == Shares(g, e.side, path, e.size)
<1>1. BookInv(g) /\ path \in SUBSET DOMAIN g.queue /\ e.size \in Nat
  BY GoodBook DEF Path, FeedEvent
<1> HIDE DEF path
<1>2. Hits(g, shares) /\ IsFiniteSet(DOMAIN shares)
  BY <1>1, SharesHit
<1> HIDE DEF shares
<1>3. Goes(g, Traded(g, shares))
  BY <1>2, TradedKeeps
<1> QED
  BY <1>3 DEF ApplyTrade, shares, path

-----------------------------------------------------------------------------
(* Loops over the orders. A proof has no operator to put in for a pass, so *)
(* the passes of the four loops are told apart by a name.                  *)

(* advance_to, _check_stop_triggers, expire_orders and the cancels of      *)
(* replay_session                                                          *)
StopPass(h, n, price) ==
    IF n \in h.stops /\ Triggered(h.orders[n], price)
    THEN Trigger([h EXCEPT !.stops = @ \ {n}], n) ELSE h
ExpiryPass(h, n, now) ==
    IF Expired(h.orders[n], now) THEN EngineCancel(h, n, "EXPIRED") ELSE h
ArrivalPass(h, n, t) ==
    IF InFlight(h, n) /\ h.inflight[n] <= t
    THEN Activate([h EXCEPT !.inflight = Without(@, n)], n) ELSE h
CancelPass(h, n, late) == IF n \in late THEN Cancelled(h, n) ELSE h

(* A pass of one of the loops, told apart by their names *)
Pass(loop, h, n, arg) ==
    CASE loop = "stops"    -> StopPass(h, n, arg)
      [] loop = "expiry"   -> ExpiryPass(h, n, arg)
      [] loop = "arrivals" -> ArrivalPass(h, n, arg)
      [] loop = "cancels"  -> CancelPass(h, n, arg)

(* f[n] is the state after the pass of order n. *)
Runs(f, g, N, loop, arg) == f = [n \in 0..N |-> IF n = 0 THEN g ELSE Pass(loop, f[n - 1], n, arg)]

(* A loop has a value after every order. *)
LEMMA LoopRuns ==
    ASSUME NEW g, NEW N \in Nat, NEW loop, NEW arg
    PROVE  \E f : Runs(f, g, N, loop, arg)
<1> DEFINE rest(f, n) == IF n = 0 THEN g ELSE Pass(loop, f[n - 1], n, arg)
           G == {k \in 0..N : \E f : f = [n \in 0..k |-> rest(f, n)]}
<1>1. 0 \in G
  <2> DEFINE f == [n \in 0..0 |-> g]
  <2>1. f = [n \in 0..0 |-> rest(f, n)]
    OBVIOUS
  <2> HIDE DEF f
  <2> QED
    BY <2>1
<1>2. ASSUME NEW k \in 0..(N - 1), k \in G PROVE k + 1 \in G
  <2>1. PICK f : f = [n \in 0..k |-> rest(f, n)]
    BY <1>2
  <2> DEFINE e == [n \in 0..(k + 1) |-> IF n <= k THEN f[n] ELSE Pass(loop, f[k], k + 1, arg)]
  <2>2. e = [n \in 0..(k + 1) |-> rest(e, n)]
    <3>1. ASSUME NEW n \in 0..(k + 1) PROVE e[n] = rest(e, n)
      <4>1. CASE n <= k
        <5>1. e[n] = f[n] /\ n \in 0..k
          BY <4>1
        <5>2. f[n] = rest(f, n)
          BY <2>1, <5>1
        <5>3. n # 0 => e[n - 1] = f[n - 1]
          BY <4>1
        <5> HIDE DEF e
        <5> QED
          BY <5>1, <5>2, <5>3
      <4>2. CASE n = k + 1
        BY <4>2
      <4> QED
        BY <4>1, <4>2
    <3>2. e = [n \in 0..(k + 1) |-> e[n]]
      OBVIOUS
    <3> HIDE DEF e
    <3> QED
      BY <3>1, <3>2
  <2> HIDE DEF e
  <2> QED
    BY <2>2
<1> HIDE DEF G
<1>3. \A k \in 0..N : k \in G
  BY <1>1, <1>2, NumbersByOne
<1>4. N \in G
  BY <1>3
<1> QED
  BY <1>4 DEF G, Runs

(* What a loop chose is what it runs through. *)
Walks(after, g, N, loop, arg) ==
    after[0] = g /\ \A k \in 0..(N - 1) : after[k + 1] = Pass(loop, after[k], k + 1, arg)

(* What runs walks. *)
LEMMA LoopSteps ==
    ASSUME NEW g, NEW N \in Nat, NEW loop, NEW arg, NEW after,
           Runs(after, g, N, loop, arg)
    PROVE  Walks(after, g, N, loop, arg)
<1>1. \A n \in 0..N : after[n] = IF n = 0 THEN g ELSE Pass(loop, after[n - 1], n, arg)
  BY Zenon DEF Runs
<1>2. 0 \in 0..N /\ \A k \in 0..(N - 1) : k + 1 \in 0..N /\ k + 1 # 0 /\ (k + 1) - 1 = k
  OBVIOUS
<1> QED
  BY <1>1, <1>2 DEF Walks

(* A loop whose passes are all right is all right. Q says what else holds  *)
(* before a pass.                                                          *)
LEMMA LoopGoes ==
    ASSUME NEW g, Good(g, {}), NEW N \in Nat, NEW after, after[0] = g, NEW Q, 0 \in Q,
           \A k \in 0..(N - 1) : k \in Q /\ Goes(g, after[k]) => Goes(after[k], after[k + 1]) /\ k + 1 \in Q
    PROVE  Goes(g, after[N]) /\ N \in Q
<1> DEFINE G == {k \in 0..N : Goes(g, after[k]) /\ k \in Q}
<1>1. 0 \in G
  BY GoesNowhere
<1>2. ASSUME NEW k \in 0..(N - 1), k \in G PROVE k + 1 \in G
  <2>1. Goes(g, after[k]) /\ Good(after[k], {}) /\ Flow(g, after[k]) /\ k \in Q
    BY <1>2 DEF Goes
  <2>2. Goes(after[k], after[k + 1]) /\ k + 1 \in Q
    BY <2>1
  <2>3. BookInv(g) /\ BookInv(after[k])
    BY <2>1, GoodBook
  <2>4. Goes(g, after[k + 1])
    BY <2>1, <2>2, <2>3, GoesOn
  <2> QED
    BY <2>2, <2>4
<1> HIDE DEF G
<1>3. N \in G
  BY <1>1, <1>2, NumbersByOne
<1> QED
  BY <1>3 DEF G

(* One stop after the other is triggered. *)
LEMMA StopPassGoes ==
    ASSUME NEW h, Good(h, {}), NEW n, NEW price
    PROVE  Goes(h, StopPass(h, n, price))
<1>1. CASE n \in h.stops /\ Triggered(h.orders[n], price)
  <2>1. PICK t : t = [h EXCEPT !.stops = @ \ {n}]
    OBVIOUS
  <2>2. /\ Good(t, {n}) /\ Flow(h, t) /\ n \in DOMAIN t.orders
        /\ t.orders[n].status = "ACCEPTED" /\ t.orders[n].type \in {"stop", "stop_limit"}
        /\ ~Malformed(t.orders[n])
    BY <1>1, <2>1, StopTaken
  <2>3. Goes(t, Trigger(t, n))
    BY <2>2, TriggerGoes
  <2>4. BookInv(h) /\ BookInv(t)
    BY <2>2, GoodBook
  <2>5. Goes(h, Trigger(t, n))
    BY <2>2, <2>3, <2>4, GoesOn
  <2> QED
    BY <1>1, <2>1, <2>5 DEF StopPass
<1>2. CASE ~(n \in h.stops /\ Triggered(h.orders[n], price))
  <2>1. StopPass(h, n, price) = h
    BY <1>2 DEF StopPass
  <2> QED
    BY <2>1, GoesNowhere
<1> QED
  BY <1>1, <1>2

(* The stops are triggered, one after the other. *)
LEMMA StopsGo ==
    ASSUME NEW g, Good(g, {}), NEW price
    PROVE  Goes(g, CheckStopTriggers(g, price))
<1> DEFINE N == Len(g.orders)
           after == CHOOSE f : Runs(f, g, N, "stops", price)
<1>0. N \in Nat /\ \A h, n : Pass("stops", h, n, price) = StopPass(h, n, price)
  BY GoodBook, ExchangeTypes DEF Pass
<1>1. CheckStopTriggers(g, price) = after[N]
  BY DEF CheckStopTriggers, ForEachOrder, StopPass, Pass, Runs
<1>3. Runs(after, g, N, "stops", price)
  <2>1. \E f : Runs(f, g, N, "stops", price)
    BY <1>0, LoopRuns
  <2> QED
    BY <2>1
<1> HIDE DEF after, N
<1>4. after[0] = g /\ \A k \in 0..(N - 1) : after[k + 1] = Pass("stops", after[k], k + 1, price)
  <2>1. Walks(after, g, N, "stops", price)
    BY <1>0, <1>3, LoopSteps
  <2> QED
    BY <2>1 DEF Walks
<1>5. \A k \in 0..(N - 1) : k \in 0..N /\ Goes(g, after[k]) => Goes(after[k], after[k + 1]) /\ k + 1 \in 0..N
  BY <1>0, <1>4, StopPassGoes DEF Goes
<1>6. 0 \in 0..N
  BY <1>0
<1>7. Goes(g, after[N])
  BY <1>0, <1>4, <1>5, <1>6, LoopGoes
<1> QED
  BY <1>1, <1>7

(* One order after the other expires. *)
LEMMA ExpiryGoes ==
    ASSUME NEW g, Good(g, {}), NEW now
    PROVE  Goes(g, ExpireOrders(g, now))
<1> DEFINE N == Len(g.orders)
           after == CHOOSE f : Runs(f, g, N, "expiry", now)
<1>0. N \in Nat /\ DOMAIN g.orders = 1..N /\ \A h, n : Pass("expiry", h, n, now) = ExpiryPass(h, n, now)
  BY GoodBook, ExchangeTypes DEF Pass
<1>1. ExpireOrders(g, now) = after[N]
  BY DEF ExpireOrders, ForEachOrder, ExpiryPass, Pass, Runs
<1>2. Runs(after, g, N, "expiry", now)
  <2>1. \E f : Runs(f, g, N, "expiry", now)
    BY <1>0, LoopRuns
  <2> QED
    BY <2>1
<1> HIDE DEF after, N
<1>3. after[0] = g /\ \A k \in 0..(N - 1) : after[k + 1] = Pass("expiry", after[k], k + 1, now)
  <2>1. Walks(after, g, N, "expiry", now)
    BY <1>0, <1>2, LoopSteps
  <2> QED
    BY <2>1 DEF Walks
<1>4. ASSUME NEW k \in 0..(N - 1), Goes(g, after[k]) PROVE Goes(after[k], after[k + 1])
  <2>1. PICK h : h = after[k]
    OBVIOUS
  <2>2. Good(h, {}) /\ k + 1 \in DOMAIN h.orders
    BY <1>0, <1>4, <2>1 DEF Goes, Flow
  <2>3. Goes(h, ExpiryPass(h, k + 1, now))
    <3>1. CASE Expired(h.orders[k + 1], now)
      <4>1. Goes(h, EngineCancel(h, k + 1, "EXPIRED"))
        BY <2>2, EngineCancelGoes
      <4> QED
        BY <3>1, <4>1 DEF ExpiryPass
    <3>2. CASE ~Expired(h.orders[k + 1], now)
      <4>1. ExpiryPass(h, k + 1, now) = h
        BY <3>2 DEF ExpiryPass
      <4> QED
        BY <2>2, <4>1, GoesNowhere
    <3> QED
      BY <3>1, <3>2
  <2> QED
    BY <1>0, <1>3, <2>1, <2>3
<1>5. \A k \in 0..(N - 1) : k \in 0..N /\ Goes(g, after[k]) => Goes(after[k], after[k + 1]) /\ k + 1 \in 0..N
  BY <1>0, <1>4
<1>6. 0 \in 0..N
  BY <1>0
<1>7. Goes(g, after[N])
  BY <1>0, <1>3, <1>5, <1>6, LoopGoes
<1> QED
  BY <1>1, <1>7

-----------------------------------------------------------------------------
(* The exchange around the engine *)

(* Orders stay what they are when all else of the account changes. *)
LEMMA FlowOfAccount ==
    ASSUME NEW g, NEW h, BookInv(g), BookInv(h), h.orders = g.orders,
           DOMAIN h.inflight \subseteq DOMAIN g.inflight,
           SettledPosition(h) = SettledPosition(g), SettledCash(h) = SettledCash(g)
    PROVE  Flow(g, h)
<1>1. /\ SettledPosition(g) \in Int /\ SettledCash(g) \in Int /\ Net(g) \in Int /\ AllDue(g) \in Int
      /\ \A n \in DOMAIN g.orders : g.orders[n] \in PaperOrder
  BY FlowNumbers
<1>2. Net(h) = Net(g) /\ AllDue(h) = AllDue(g)
  BY DEF Net, AllDue
<1>3. ASSUME NEW n \in DOMAIN g.orders PROVE OrderMoves(g.orders[n], h.orders[n])
  <2>1. g.orders[n].filled \in Nat
    BY <1>1 DEF PaperOrder
  <2> QED
    BY <2>1 DEF OrderMoves
<1> QED
  BY <1>1, <1>2, <1>3 DEF Flow

(* h is g with its fills settled. *)
SettledOf(g, h) ==
    /\ h.queue = g.queue /\ h.orders = g.orders /\ h.stops = g.stops /\ h.inflight = g.inflight
    /\ h.now = g.now /\ h.fills = {}
    /\ h.position = SettledPosition(g) /\ h.cash = SettledCash(g)

(* Settling moves cash and position by the fills, once. *)
LEMMA SettleGoes ==
    ASSUME NEW g, Good(g, {})
    PROVE  Goes(g, Settle(g)) /\ SettledOf(g, Settle(g))
<1> DEFINE h == Settle(g)
<1>1. BookInv(g) /\ ExchangeType(g) /\ ExchangeInv(g, {})
  BY GoodBook
<1>2. SettledPosition(g) \in Int /\ SettledCash(g) \in Int
  BY <1>1, FlowNumbers
<1>3. /\ SumOver(g.fills, LAMBDA f : Signed(g, f) * f.price) = SumFunctionOnSet(Costs(g), g.fills)
      /\ SumOver(g.fills, LAMBDA f : Signed(g, f)) = SumFunctionOnSet(Gains(g), g.fills)
  BY DEF SumOver, Costs, Gains
<1>4. h = [g EXCEPT !.cash = SettledCash(g), !.position = SettledPosition(g), !.fills = {}]
  BY <1>3 DEF Settle, SettledCash, SettledPosition
<1> HIDE DEF h
<1>5. SettledOf(g, h) /\ DOMAIN h = DOMAIN g
  <2>1. DOMAIN g = {"queue", "orders", "stops", "fills", "inflight", "cash", "position", "now"}
    BY <1>1 DEF ExchangeType
  <2> QED
    BY <1>4, <2>1 DEF SettledOf
<1>6. ExchangeType(h)
  <2>1. IsFiniteSet({})
    BY FS_EmptySet
  <2> QED
    BY <1>1, <1>2, <1>5, <2>1 DEF ExchangeType, SettledOf
<1>7. ExchangeInv(h, {})
  BY <1>1, <1>5, <1>6, AccountChange DEF SettledOf
<1>8. SettledPosition(h) = SettledPosition(g) /\ SettledCash(h) = SettledCash(g)
  <2>1. IsFiniteSet({}) /\ \A f : SumFunctionOnSet(f, {}) = 0
    BY FS_EmptySet, SumType
  <2>2. h.fills = {} /\ h.position = SettledPosition(g) /\ h.cash = SettledCash(g)
    BY <1>5 DEF SettledOf
  <2> QED
    BY <1>2, <2>1, <2>2 DEF SettledPosition, SettledCash
<1>9. Flow(g, h)
  <2>1. BookInv(h)
    BY <1>7 DEF ExchangeInv
  <2> QED
    BY <1>1, <1>5, <1>8, <2>1, FlowOfAccount DEF SettledOf
<1>10. FillsAside(h, {})
  BY <1>5 DEF FillsAside, SettledOf
<1> QED
  BY <1>5, <1>7, <1>9, <1>10 DEF Goes, Good, h

(* The clock moves. *)
LEMMA ClockGoes ==
    ASSUME NEW g, Good(g, {}), NEW now \in Nat
    PROVE  Goes(g, [g EXCEPT !.now = now]) /\ [g EXCEPT !.now = now].fills = g.fills
                /\ [g EXCEPT !.now = now].now = now
<1> DEFINE h == [g EXCEPT !.now = now]
<1>1. BookInv(g) /\ ExchangeType(g) /\ ExchangeInv(g, {}) /\ FillsAside(g, {})
  BY GoodBook
<1>2. /\ h.queue = g.queue /\ h.orders = g.orders /\ h.stops = g.stops /\ h.inflight = g.inflight
      /\ h.fills = g.fills /\ h.position = g.position /\ h.cash = g.cash /\ h.now = now
      /\ DOMAIN h = DOMAIN g
  <2>1. DOMAIN g = {"queue", "orders", "stops", "fills", "inflight", "cash", "position", "now"}
    BY <1>1 DEF ExchangeType
  <2> QED
    BY <2>1
<1> HIDE DEF h
<1>3. ExchangeType(h)
  BY <1>1, <1>2 DEF ExchangeType
<1>4. ExchangeInv(h, {})
  BY <1>1, <1>2, <1>3, AccountChange
<1>5. SettledPosition(h) = SettledPosition(g) /\ SettledCash(h) = SettledCash(g)
  BY <1>2 DEF SettledPosition, SettledCash, Gains, Costs, Signed
<1>6. Flow(g, h)
  <2>1. BookInv(h)
    BY <1>4 DEF ExchangeInv
  <2> QED
    BY <1>1, <1>2, <1>5, <2>1, FlowOfAccount
<1>7. FillsAside(h, {})
  BY <1>1, <1>2 DEF FillsAside
<1> QED
  BY <1>2, <1>4, <1>6, <1>7 DEF Goes, Good, h

(* t is a with order n no longer in flight. *)
OffFlight(a, n, t) ==
    /\ Good(t, {n}) /\ Flow(a, t) /\ n \in DOMAIN t.orders /\ t.orders = a.orders
    /\ t.fills = a.fills /\ t.orders[n].status = "SUBMITTED"

(* An order in flight arrives, or is called back. *)
LEMMA FlightTaken ==
    ASSUME NEW a, Good(a, {}), a.fills = {}, NEW n, InFlight(a, n)
    PROVE  OffFlight(a, n, [a EXCEPT !.inflight = Without(@, n)])
<1> DEFINE w == Without(a.inflight, n)
           t == [a EXCEPT !.inflight = w]
<1>1. BookInv(a) /\ ExchangeType(a) /\ ExchangeInv(a, {}) /\ DOMAIN a.inflight \subseteq DOMAIN a.orders
  BY GoodBook DEF ExchangeType
<1>2. n \in DOMAIN a.orders /\ PlaceInv(a, n)
  BY <1>1 DEF InFlight, ExchangeInv
<1>3. a.orders[n].status = "SUBMITTED" /\ n \notin a.stops /\ RestsAt(a, n) = {}
  BY <1>2 DEF PlaceInv, RESTING
<1>4. DOMAIN w = DOMAIN a.inflight \ {n}
  BY DEF Without, Restrict
<1> HIDE DEF w
<1>5. /\ t.queue = a.queue /\ t.orders = a.orders /\ t.stops = a.stops /\ t.inflight = w
      /\ t.fills = a.fills /\ t.position = a.position /\ t.cash = a.cash /\ t.now = a.now
      /\ DOMAIN t = DOMAIN a
  <2>1. DOMAIN a = {"queue", "orders", "stops", "fills", "inflight", "cash", "position", "now"}
    BY <1>1 DEF ExchangeType
  <2> QED
    BY <2>1
<1> HIDE DEF t
<1>6. ExchangeType(t)
  BY <1>1, <1>4, <1>5 DEF ExchangeType
<1>7. BookInv(t)
  <2>1. OrderInv(t.orders[n])
    BY <1>1, <1>2, <1>5 DEF BookInv
  <2> QED
    BY <1>1, <1>2, <1>3, <1>5, <1>6, <2>1, BookFrame
<1>8. \A m : RestsAt(t, m) = RestsAt(a, m)
  BY <1>5 DEF RestsAt
<1>9. ASSUME NEW m \in DOMAIN t.orders PROVE IF m \in {n} THEN Nowhere(t, m) ELSE PlaceInv(t, m)
  <2>1. CASE m = n
    BY <1>3, <1>4, <1>5, <1>8, <2>1 DEF Nowhere, InFlight
  <2>2. CASE m # n
    <3>1. PlaceInv(a, m)
      BY <1>1, <1>5 DEF ExchangeInv
    <3>2. InFlight(t, m) <=> InFlight(a, m)
      BY <1>4, <1>5, <2>2 DEF InFlight
    <3> QED
      BY <1>5, <1>8, <2>2, <3>1, <3>2 DEF PlaceInv
  <2> QED
    BY <2>1, <2>2
<1>10. ExchangeInv(t, {n})
  BY <1>7, <1>9 DEF ExchangeInv
<1>11. SettledPosition(t) = SettledPosition(a) /\ SettledCash(t) = SettledCash(a)
  BY <1>5 DEF SettledPosition, SettledCash, Gains, Costs, Signed
<1>12. Flow(a, t)
  BY <1>1, <1>4, <1>5, <1>7, <1>11, FlowOfAccount
<1>13. FillsAside(t, {n})
  BY <1>5 DEF FillsAside
<1>14. OffFlight(a, n, t)
  BY <1>2, <1>3, <1>5, <1>10, <1>12, <1>13 DEF OffFlight, Good
<1> QED
  BY <1>14 DEF t, w

(* The estimate of an order is dropped. *)
LEMMA EstimateCleared ==
    ASSUME NEW g, Good(g, {}), NEW n \in DOMAIN g.orders, NEW h,
           h = [g EXCEPT !.orders[n] = [@ EXCEPT !.estimate = 0]]
    PROVE  Goes(g, h) /\ h.fills = g.fills
<1>1. PICK o : o = g.orders[n]
  OBVIOUS
<1>2. PICK p : p = [o EXCEPT !.estimate = 0]
  OBVIOUS
<1>3. h = [g EXCEPT !.orders[n] = p]
  BY <1>1, <1>2
<1>4. BookInv(g) /\ ExchangeType(g) /\ ExchangeInv(g, {}) /\ FillsAside(g, {})
  BY GoodBook
<1>5. o \in PaperOrder /\ OrderInv(o) /\ Due(o) \in Nat
  BY <1>1, <1>4, FlowNumbers
<1>6. /\ p \in PaperOrder /\ p.estimate = 0 /\ p.side = o.side /\ p.type = o.type /\ p.qty = o.qty
      /\ p.limit = o.limit /\ p.stop = o.stop /\ p.tif = o.tif /\ p.given = o.given
      /\ p.status = o.status /\ p.filled = o.filled /\ p.ahead = o.ahead /\ o.filled \in Nat
  BY <1>2, <1>5 DEF PaperOrder
<1>7. OrderInv(p) /\ OrderMoves(o, p) /\ (Malformed(p) <=> Malformed(o))
  BY <1>5, <1>6 DEF OrderInv, OrderMoves, Malformed
<1>8. Due(p) <= Due(o)
  <2>1. CASE p.type = "market"
    <3>1. Due(p) = 0
      BY <1>6, <2>1 DEF Due
    <3> QED
      BY <1>5, <3>1
  <2>2. CASE p.type # "market"
    <3>1. Due(p) = Due(o)
      BY <1>6, <2>2 DEF Due, WorstPrice
    <3> QED
      BY <1>5, <3>1
  <2> QED
    BY <2>1, <2>2
<1>9. /\ ExchangeType(h) /\ SameAccount(g, h) /\ h.queue = g.queue
      /\ DOMAIN h.orders = DOMAIN g.orders /\ h.orders[n] = p
      /\ \A m \in DOMAIN g.orders \ {n} : h.orders[m] = g.orders[m]
      /\ \A m : RestsAt(h, m) = RestsAt(g, m)
  <2>1. p \in PaperOrder /\ ExchangeType(g)
    BY <1>4, <1>6
  <2>2. PICK t : t = [g EXCEPT !.orders[n] = p]
    OBVIOUS
  <2>3. /\ ExchangeType(t) /\ SameAccount(g, t) /\ t.queue = g.queue
        /\ DOMAIN t.orders = DOMAIN g.orders /\ t.orders[n] = p
        /\ \A m \in DOMAIN g.orders \ {n} : t.orders[m] = g.orders[m]
        /\ \A m : RestsAt(t, m) = RestsAt(g, m)
    BY <2>1, <2>2, OrderReplaced
  <2>4. h = t
    BY <1>3, <2>2
  <2> QED
    BY <2>3, <2>4
<1>10. \A m \in DOMAIN g.orders : Remaining(h, m) = Remaining(g, m)
  BY <1>1, <1>6, <1>9 DEF Remaining
<1>11. ASSUME NEW i \in DOMAIN g.queue PROVE EntryInv(g, i) /\ Left(h, i) = Left(g, i)
  <2>1. EntryInv(g, i)
    BY <1>4 DEF BookInv
  <2> QED
    BY <1>9, <1>10, <2>1 DEF EntryInv, Left
<1>12. ASSUME NEW i \in DOMAIN h.queue PROVE EntryInv(h, i)
  <2>1. EntryInv(g, i) /\ i \in DOMAIN g.queue
    BY <1>9, <1>11
  <2>2. InFront(h, i) = InFront(g, i) /\ InFront(g, i) \subseteq DOMAIN g.queue
    BY <1>9 DEF InFront
  <2>3. Total(h, InFront(g, i)) = Total(g, InFront(g, i))
    BY <1>11, <2>2, TotalSame
  <2>4. CASE g.queue[i].owner = "PAPER"
    <3>1. PICK m : m = g.queue[i].id
      OBVIOUS
    <3>2. PICK q : q = g.orders[m]
      OBVIOUS
    <3>3. PICK r : r = h.orders[m]
      OBVIOUS
    <3>4. /\ m \in DOMAIN g.orders /\ MayRest(q, g.queue[i]) /\ RestsAt(g, m) = {i}
          /\ q.status \in RESTING /\ q.filled < q.qty /\ q.ahead = Total(g, InFront(g, i))
      BY <2>1, <2>4, <3>1, <3>2 DEF EntryInv
    <3>5. /\ r.side = q.side /\ r.limit = q.limit /\ r.type = q.type /\ r.tif = q.tif
          /\ r.status = q.status /\ r.filled = q.filled /\ r.qty = q.qty /\ r.ahead = q.ahead
      BY <1>1, <1>6, <1>9, <3>2, <3>3, <3>4
    <3>6. MayRest(r, g.queue[i])
      BY <3>4, <3>5 DEF MayRest
    <3> QED
      BY <1>9, <2>2, <2>3, <2>4, <3>1, <3>2, <3>3, <3>4, <3>5, <3>6 DEF EntryInv
  <2>5. CASE g.queue[i].owner # "PAPER"
    BY <1>9, <2>1, <2>5 DEF EntryInv
  <2> QED
    BY <2>4, <2>5
<1>13. BookInv(h)
  BY <1>4, <1>7, <1>9, <1>12 DEF BookInv
<1>14. ASSUME NEW m \in DOMAIN h.orders PROVE PlaceInv(h, m)
  <2>1. PlaceInv(g, m)
    BY <1>4, <1>9 DEF ExchangeInv
  <2>2. /\ h.orders[m].status = g.orders[m].status /\ h.orders[m].type = g.orders[m].type
        /\ Malformed(h.orders[m]) <=> Malformed(g.orders[m])
    BY <1>1, <1>6, <1>7, <1>9
  <2> QED
    BY <1>9, <2>1, <2>2 DEF PlaceInv, InFlight, SameAccount
<1>15. ExchangeInv(h, {})
  BY <1>13, <1>14 DEF ExchangeInv
<1>16. ASSUME NEW m \in DOMAIN g.orders
      PROVE  OrderMoves(g.orders[m], h.orders[m]) /\ h.orders[m].filled = g.orders[m].filled
             /\ Due(h.orders[m]) <= Due(g.orders[m])
  <2>1. CASE m = n
    BY <1>1, <1>6, <1>7, <1>8, <1>9, <2>1
  <2>2. CASE m # n
    <3>1. g.orders[m] \in PaperOrder /\ Due(g.orders[m]) \in Nat
      BY <1>4, FlowNumbers
    <3>2. g.orders[m].filled \in Nat
      BY <3>1 DEF PaperOrder
    <3> QED
      BY <1>9, <2>2, <3>1, <3>2 DEF OrderMoves
  <2> QED
    BY <2>1, <2>2
<1>17. Flow(g, h)
  BY <1>4, <1>9, <1>13, <1>16, FlowQuiet DEF SameAccount
<1>18. FillsAside(h, {})
  BY <1>4, <1>9 DEF FillsAside, SameAccount
<1> QED
  BY <1>9, <1>15, <1>17, <1>18 DEF Goes, Good, SameAccount

(* An order that reaches the engine is executed and settled. *)
LEMMA ActivateGoes ==
    ASSUME NEW g, NEW n \in DOMAIN g.orders, Good(g, {n}), g.orders[n].status = "SUBMITTED",
           g.orders[n].type = "market" => MayPay(SetStatus(g, n, "ACCEPTED"), n, None)
    PROVE  Goes(g, Activate(g, n)) /\ Activate(g, n).fills = {}
<1>1. PICK e : e = EngineSubmit(g, n)
  OBVIOUS
<1>2. Goes(g, e)
  BY <1>1, EngineSubmitGoes
<1>3. Good(e, {}) /\ Flow(g, e) /\ n \in DOMAIN e.orders
  BY <1>2 DEF Goes, Flow
<1>4. PICK s : s = Settle(e)
  OBVIOUS
<1>5. Goes(e, s) /\ s.fills = {} /\ s.orders = e.orders
  BY <1>3, <1>4, SettleGoes DEF SettledOf
<1>6. Good(s, {}) /\ Flow(e, s) /\ n \in DOMAIN s.orders
  BY <1>3, <1>5 DEF Goes
<1>7. PICK h : h = Activate(g, n)
  OBVIOUS
<1>8. h = [s EXCEPT !.orders[n] = [@ EXCEPT !.estimate = 0]]
  BY <1>1, <1>4, <1>7 DEF Activate
<1>9. Goes(s, h) /\ h.fills = s.fills
  BY <1>6, <1>8, EstimateCleared
<1>10. BookInv(g) /\ BookInv(e) /\ BookInv(s)
  BY <1>3, <1>6, GoodBook
<1>11. Goes(e, h)
  BY <1>6, <1>9, <1>10, GoesOn
<1>12. Goes(g, h)
  BY <1>3, <1>10, <1>11, GoesOn
<1> QED
  BY <1>5, <1>7, <1>9, <1>12

(* An order in flight arrives. *)
LEMMA ArrivalPassGoes ==
    ASSUME NEW h, Good(h, {}), h.fills = {}, DOMAIN h.inflight # {} => latency > 0, NEW n, NEW t
    PROVE  Goes(h, ArrivalPass(h, n, t)) /\ ArrivalPass(h, n, t).fills = {}
<1>1. CASE InFlight(h, n) /\ h.inflight[n] <= t
  <2>1. PICK a : a = [h EXCEPT !.inflight = Without(@, n)]
    OBVIOUS
  <2>2. OffFlight(h, n, a)
    BY <1>1, <2>1, FlightTaken
  <2>3. /\ Good(a, {n}) /\ Flow(h, a) /\ n \in DOMAIN a.orders /\ a.orders[n].status = "SUBMITTED"
    BY <2>2 DEF OffFlight
  <2>4. BookInv(h) /\ BookInv(a) /\ ExchangeType(a)
    BY <2>3, GoodBook
  <2>5. ASSUME a.orders[n].type = "market" PROVE MayPay(SetStatus(a, n, "ACCEPTED"), n, None)
    <3>1. PICK o : o = a.orders[n]
      OBVIOUS
    <3>2. o \in PaperOrder /\ OrderInv(o)
      BY <2>3, <2>4, <3>1, FlowNumbers
    <3>3. PICK b : b = SetStatus(a, n, "ACCEPTED")
      OBVIOUS
    <3>4. b.orders[n] = [o EXCEPT !.status = "ACCEPTED"]
      <4>1. DOMAIN a = {"queue", "orders", "stops", "fills", "inflight", "cash", "position", "now"}
        BY <2>4 DEF ExchangeType
      <4> QED
        BY <2>3, <3>1, <3>3, <4>1 DEF SetStatus
    <3>5. PICK p : p = b.orders[n]
      OBVIOUS
    <3>6. p.side = o.side /\ p.given = o.given
      BY <3>2, <3>4, <3>5 DEF PaperOrder
    <3>7. o.given = "market"
      BY <2>3, <2>5, <3>1, <3>2 DEF OrderInv
    <3>8. latency > 0
      BY <1>1 DEF InFlight
    <3> QED
      BY <3>3, <3>5, <3>6, <3>7, <3>8 DEF MayPay, UnboundedOrder
  <2>6. Goes(a, Activate(a, n)) /\ Activate(a, n).fills = {}
    BY <2>3, <2>5, ActivateGoes
  <2>7. Goes(h, Activate(a, n))
    BY <2>3, <2>4, <2>6, GoesOn
  <2> QED
    BY <1>1, <2>1, <2>6, <2>7 DEF ArrivalPass
<1>2. CASE ~(InFlight(h, n) /\ h.inflight[n] <= t)
  <2>1. ArrivalPass(h, n, t) = h
    BY <1>2 DEF ArrivalPass
  <2> QED
    BY <2>1, GoesNowhere
<1> QED
  BY <1>1, <1>2

(* What is so of the exchange between two calls. Only orders that take     *)
(* time are in flight.                                                     *)
AtRest(s) == Good(s, {}) /\ s.fills = {} /\ (DOMAIN s.inflight # {} => latency > 0)

(* The first loop of advance_to *)
Arrived(s, t) ==
    ForEachOrder(LAMBDA h, n : IF InFlight(h, n) /\ h.inflight[n] <= t
                               THEN Activate([h EXCEPT !.inflight = Without(@, n)], n) ELSE h, s)

(* One order after the other arrives. *)
LEMMA ArrivalsGo ==
    ASSUME NEW g, AtRest(g), NEW t
    PROVE  Goes(g, Arrived(g, t)) /\ Arrived(g, t).fills = {}
<1> DEFINE N == Len(g.orders)
           after == CHOOSE f : Runs(f, g, N, "arrivals", t)
<1>0. Good(g, {}) /\ g.fills = {} /\ (DOMAIN g.inflight # {} => latency > 0)
  BY DEF AtRest
<1>1. N \in Nat /\ \A h, n : Pass("arrivals", h, n, t) = ArrivalPass(h, n, t)
  BY <1>0, GoodBook, ExchangeTypes DEF Pass
<1>2. Arrived(g, t) = after[N]
  BY DEF Arrived, ForEachOrder, ArrivalPass, Pass, Runs
<1>3. Runs(after, g, N, "arrivals", t)
  <2>1. \E f : Runs(f, g, N, "arrivals", t)
    BY <1>1, LoopRuns
  <2> QED
    BY <2>1
<1> HIDE DEF after, N
<1>4. after[0] = g /\ \A k \in 0..(N - 1) : after[k + 1] = Pass("arrivals", after[k], k + 1, t)
  <2>1. Walks(after, g, N, "arrivals", t)
    BY <1>1, <1>3, LoopSteps
  <2> QED
    BY <2>1 DEF Walks
<1> DEFINE Q == {k \in 0..N : after[k].fills = {}}
<1>5. ASSUME NEW k \in 0..(N - 1), k \in Q, Goes(g, after[k])
      PROVE  Goes(after[k], after[k + 1]) /\ k + 1 \in Q
  <2>1. PICK h : h = after[k]
    OBVIOUS
  <2>2. Good(h, {}) /\ h.fills = {} /\ (DOMAIN h.inflight # {} => latency > 0)
    BY <1>0, <1>5, <2>1 DEF Goes, Flow
  <2>3. PICK m : m = k + 1
    OBVIOUS
  <2>4. Goes(h, ArrivalPass(h, m, t)) /\ ArrivalPass(h, m, t).fills = {}
    BY <2>2, ArrivalPassGoes
  <2>5. after[k + 1] = ArrivalPass(h, m, t) /\ k + 1 \in 0..N
    BY <1>1, <1>4, <2>1, <2>3
  <2> QED
    BY <2>1, <2>4, <2>5
<1>6. 0 \in Q
  BY <1>0, <1>1, <1>4
<1> HIDE DEF Q
<1>7. Goes(g, after[N]) /\ N \in Q
  BY <1>0, <1>1, <1>4, <1>5, <1>6, LoopGoes
<1> QED
  BY <1>2, <1>7 DEF Q

(* A call that ends without open fills leaves the exchange at rest. *)
LEMMA RestsAgain ==
    ASSUME NEW g, AtRest(g), NEW h, Goes(g, h), h.fills = {}
    PROVE  AtRest(h)
BY DEF AtRest, Goes, Flow

(* Goes goes on. *)
LEMMA GoesFurther ==
    ASSUME NEW f, NEW g, NEW h, Good(f, {}), Goes(f, g), Goes(g, h)
    PROVE  Goes(f, h)
<1>1. BookInv(f) /\ BookInv(g) /\ Flow(f, g)
  BY GoodBook DEF Goes
<1> QED
  BY <1>1, GoesOn

(* The clock moves: orders arrive, then orders expire. *)
LEMMA AdvanceGoes ==
    ASSUME NEW s, AtRest(s), NEW t \in Nat
    PROVE  Goes(s, AdvanceTo(s, t)) /\ AtRest(AdvanceTo(s, t))
<1>1. PICK a : a = Arrived(s, t)
  OBVIOUS
<1>2. PICK now : now = Max({s.now, t})
  OBVIOUS
<1>3. PICK c : c = [a EXCEPT !.now = now]
  OBVIOUS
<1>4. PICK e : e = ExpireOrders(c, now)
  OBVIOUS
<1>5. AdvanceTo(s, t) = Settle(e)
  BY <1>1, <1>2, <1>3, <1>4, Zenon DEF AdvanceTo, Arrived
<1>6. Good(s, {}) /\ ExchangeType(s)
  BY GoodBook DEF AtRest
<1>7. now \in Nat
  <2>1. s.now \in Nat
    BY <1>6 DEF ExchangeType
  <2> QED
    BY <1>2, <2>1, TwoMax
<1>8. Goes(s, a) /\ Good(a, {})
  BY <1>1, ArrivalsGo DEF Goes
<1>9. Goes(a, c) /\ Good(c, {})
  BY <1>3, <1>7, <1>8, ClockGoes DEF Goes
<1>10. Goes(c, e) /\ Good(e, {})
  BY <1>4, <1>9, ExpiryGoes DEF Goes
<1>11. Goes(e, Settle(e)) /\ Settle(e).fills = {}
  BY <1>10, SettleGoes DEF SettledOf
<1>12. Goes(s, c)
  BY <1>6, <1>8, <1>9, GoesFurther
<1>13. Goes(s, e)
  BY <1>6, <1>10, <1>12, GoesFurther
<1>14. Goes(s, Settle(e))
  BY <1>6, <1>11, <1>13, GoesFurther
<1> QED
  BY <1>5, <1>11, <1>14, RestsAgain

(* An event of the feed *)
LEMMA FedGoes ==
    ASSUME NEW s, AtRest(s), NEW t \in Nat, NEW e \in FeedEvent
    PROVE  Goes(s, Fed(s, e, t)) /\ AtRest(Fed(s, e, t))
<1>1. PICK a : a = AdvanceTo(s, t)
  OBVIOUS
<1>2. Goes(s, a) /\ AtRest(a) /\ Good(a, {}) /\ a.fills = {} /\ Good(s, {})
  BY <1>1, AdvanceGoes DEF AtRest
<1>3. PICK m : m = EngineOnMarketEvent(a, e)
  OBVIOUS
<1>4. Goes(a, m)
  <2>1. CASE e.type = "TRADE"
    <3>1. PICK b : b = ApplyTrade(a, e)
      OBVIOUS
    <3>2. Goes(a, b) /\ Good(b, {})
      BY <1>2, <3>1, TradeGoes DEF Goes
    <3>3. Goes(b, CheckStopTriggers(b, e.price))
      BY <3>2, StopsGo
    <3>4. m = CheckStopTriggers(b, e.price)
      BY <1>3, <2>1, <3>1 DEF EngineOnMarketEvent
    <3> QED
      BY <1>2, <3>2, <3>3, <3>4, GoesFurther
  <2>2. CASE e.type # "TRADE"
    BY <1>2, <1>3, <2>2, LiquidityGoes DEF EngineOnMarketEvent
  <2> QED
    BY <2>1, <2>2
<1>5. Good(m, {})
  BY <1>4 DEF Goes
<1>6. Goes(m, Settle(m)) /\ Settle(m).fills = {}
  BY <1>5, SettleGoes DEF SettledOf
<1>7. Goes(s, m)
  BY <1>2, <1>4, GoesFurther
<1>8. Goes(s, Settle(m))
  BY <1>2, <1>6, <1>7, GoesFurther
<1>9. Fed(s, e, t) = Settle(m)
  BY <1>1, <1>3 DEF Fed
<1> QED
  BY <1>6, <1>8, <1>9, RestsAgain

(* Cancelling fills nothing. *)
LEMMA CancelFillsNothing ==
    ASSUME NEW g, ExchangeType(g), NEW n, NEW outcome
    PROVE  EngineCancel(g, n, outcome).fills = g.fills
<1>1. DOMAIN g = {"queue", "orders", "stops", "fills", "inflight", "cash", "position", "now"}
  BY DEF ExchangeType
<1>2. PICK b : b = SetStatus(g, n, outcome)
  OBVIOUS
<1>3. b.fills = g.fills /\ DOMAIN b = DOMAIN g
  BY <1>1, <1>2 DEF SetStatus
<1>4. [b EXCEPT !.stops = @ \ {n}].fills = g.fills
  BY <1>1, <1>3
<1>5. ASSUME NEW levels PROVE Prune(b, levels).fills = g.fills
  BY <1>1, <1>3 DEF Prune, Refresh
<1>6. PICK levels : levels = {LevelOf(g.queue[i]) : i \in RestsAt(g, n)}
  OBVIOUS
<1>7. CancelResting(g, n, outcome) = Prune(b, levels)
  BY <1>2, <1>6 DEF CancelResting
<1> QED
  BY <1>2, <1>4, <1>5, <1>7 DEF EngineCancel

(* Cancelling an order *)
LEMMA CancelledGoes ==
    ASSUME NEW s, AtRest(s), NEW n \in DOMAIN s.orders
    PROVE  Goes(s, Cancelled(s, n)) /\ AtRest(Cancelled(s, n))
<1>0. Good(s, {}) /\ ExchangeType(s) /\ s.fills = {} /\ BookInv(s)
  BY GoodBook DEF AtRest
<1>1. CASE s.orders[n].status \notin WORKING
  <2>1. Cancelled(s, n) = s
    BY <1>1 DEF Cancelled
  <2> QED
    BY <1>0, <2>1, GoesNowhere
<1>2. CASE s.orders[n].status \in WORKING /\ InFlight(s, n)
  <2>1. PICK a : a = [s EXCEPT !.inflight = Without(@, n)]
    OBVIOUS
  <2>2. OffFlight(s, n, a)
    BY <1>0, <1>2, <2>1, FlightTaken
  <2>3. /\ Good(a, {n}) /\ Flow(s, a) /\ n \in DOMAIN a.orders /\ a.orders = s.orders /\ a.fills = s.fills
        /\ a.orders[n].status = "SUBMITTED"
    BY <2>2 DEF OffFlight
  <2>4. BookInv(a) /\ ExchangeInv(a, {n}) /\ FillsAside(a, {n}) /\ ExchangeType(a)
    BY <2>3, GoodBook
  <2>5. PICK o : o = a.orders[n]
    OBVIOUS
  <2>6. o \in PaperOrder /\ OrderInv(o) /\ Due(o) \in Nat /\ o.status = "SUBMITTED"
    BY <2>3, <2>4, <2>5, FlowNumbers
  <2>7. PICK p : p = [o EXCEPT !.status = "CANCELLED", !.estimate = 0]
    OBVIOUS
  <2>8. /\ p \in PaperOrder /\ p.status = "CANCELLED" /\ p.side = o.side /\ p.type = o.type /\ p.qty = o.qty
        /\ p.limit = o.limit /\ p.stop = o.stop /\ p.tif = o.tif /\ p.given = o.given
        /\ p.filled = o.filled /\ o.filled \in Nat
    BY <2>6, <2>7 DEF PaperOrder, Statuses
  <2>9. OrderInv(p) /\ OrderMoves(o, p)
    BY <2>6, <2>8 DEF OrderInv, OrderMoves, WORKING
  <2>10. Due(p) <= Due(o)
    <3>1. Due(p) = 0
      BY <2>8 DEF Due, WORKING
    <3> QED
      BY <2>6, <3>1
  <2>11. PICK h : h = [a EXCEPT !.orders[n] = p]
    OBVIOUS
  <2>12. Replaced(a, n, p, h)
    BY <2>3, <2>4, <2>5, <2>8, <2>9, <2>10, <2>11, LimboMoves
  <2>13. ExchangeInv(h, {n}) /\ Flow(a, h) /\ SameAccount(a, h) /\ h.orders[n] = p /\ n \in DOMAIN h.orders
    BY <2>3, <2>12 DEF Replaced
  <2>14. ExchangeInv(h, {})
    <3>1. h.orders[n].status \notin WORKING
      BY <2>8, <2>13 DEF WORKING
    <3> QED
      BY <2>13, <3>1, LimboOver
  <2>15. Good(h, {}) /\ h.fills = {} /\ BookInv(h)
    BY <1>0, <2>3, <2>13, <2>14 DEF Good, FillsAside, SameAccount, ExchangeInv
  <2>16. Goes(s, h)
    <3>1. Goes(a, h)
      BY <2>13, <2>15 DEF Goes
    <3> QED
      BY <1>0, <2>3, <2>4, <3>1, GoesOn
  <2>17. Cancelled(s, n) = h
    <3>1. Cancelled(s, n) = [s EXCEPT !.inflight = Without(@, n),
                                      !.orders[n] = [@ EXCEPT !.status = "CANCELLED", !.estimate = 0]]
      BY <1>2 DEF Cancelled
    <3>2. Cancelled(s, n) = [s EXCEPT !.inflight = Without(@, n), !.orders[n] = p]
      BY <2>3, <2>5, <2>7, <3>1
    <3>3. DOMAIN s = {"queue", "orders", "stops", "fills", "inflight", "cash", "position", "now"}
      BY <1>0 DEF ExchangeType
    <3> QED
      BY <2>1, <2>11, <3>2, <3>3
  <2> QED
    BY <2>15, <2>16, <2>17, RestsAgain
<1>3. CASE s.orders[n].status \in WORKING /\ ~InFlight(s, n)
  <2>1. Cancelled(s, n) = EngineCancel(s, n, "CANCELLED")
    BY <1>3 DEF Cancelled
  <2>2. Goes(s, EngineCancel(s, n, "CANCELLED"))
    BY <1>0, EngineCancelGoes
  <2>3. EngineCancel(s, n, "CANCELLED").fills = {}
    BY <1>0, CancelFillsNothing
  <2> QED
    BY <2>1, <2>2, <2>3, RestsAgain
<1> QED
  BY <1>1, <1>2, <1>3

-----------------------------------------------------------------------------
(* What working orders have still to trade *)

(* What a working order of a side has still to trade, and all of them have *)
LeftOf(o, side) == IF o.side = side /\ o.status \in WORKING THEN o.qty - o.filled ELSE 0

AllLeft(s, side) ==
    SumFunctionOnSet([n \in DOMAIN s.orders |-> LeftOf(s.orders[n], side)], DOMAIN s.orders)

(* What orders have left to trade are numbers. *)
LEMMA LeftNumbers ==
    ASSUME NEW s, BookInv(s), NEW side
    PROVE  /\ AllLeft(s, side) \in Int
           /\ \A n \in DOMAIN s.orders : LeftOf(s.orders[n], side) \in Nat
<1>1. IsFiniteSet(DOMAIN s.orders)
  BY FlowNumbers
<1>2. ASSUME NEW n \in DOMAIN s.orders PROVE LeftOf(s.orders[n], side) \in Nat
  <2>1. PICK o : o = s.orders[n]
    OBVIOUS
  <2>2. o \in PaperOrder /\ OrderInv(o)
    BY <2>1, FlowNumbers
  <2>3. o.qty \in Nat /\ o.filled \in Nat /\ o.filled <= o.qty
    BY <2>2 DEF PaperOrder, OrderInv
  <2>4. LeftOf(o, side) \in Nat
    BY <2>3 DEF LeftOf
  <2> QED
    BY <2>1, <2>4
<1> DEFINE f == [n \in DOMAIN s.orders |-> LeftOf(s.orders[n], side)]
<1>3. \A n \in DOMAIN s.orders : f[n] \in Int
  BY <1>2
<1> HIDE DEF f
<1>4. SumFunctionOnSet(f, DOMAIN s.orders) \in Int
  BY <1>1, <1>3, SumType
<1> QED
  BY <1>2, <1>4 DEF AllLeft, f

(* The sum over the working orders of a side is one over all orders. *)
LEMMA WorkingLeft ==
    ASSUME NEW s, BookInv(s), NEW side
    PROVE  SumOver(Working(s, side), LAMBDA n : Remaining(s, n)) = AllLeft(s, side)
<1> DEFINE D == DOMAIN s.orders
           W == Working(s, side)
           f == [n \in D |-> LeftOf(s.orders[n], side)]
           r == [n \in W |-> Remaining(s, n)]
<1>1. IsFiniteSet(D) /\ W \in SUBSET D
  BY FlowNumbers DEF Working
<1>2. \A n \in D : f[n] \in Int
  BY LeftNumbers
<1>3. \A n \in D \ W : f[n] = 0
  BY DEF Working, LeftOf
<1>4. \A n \in W : f[n] \in Int /\ r[n] = f[n]
  BY <1>1, <1>2 DEF Working, LeftOf, Remaining
<1>5. IsFiniteSet(W)
  BY <1>1, FS_Subset
<1> HIDE DEF f, r, D, W
<1>6. SumFunctionOnSet(f, D) = SumFunctionOnSet(f, W)
  BY <1>1, <1>2, <1>3, SumDrops
<1>7. SumFunctionOnSet(r, W) = SumFunctionOnSet(f, W)
  BY <1>4, <1>5, SumSame
<1>8. SumFunctionOnSet(r, W) = AllLeft(s, side)
  BY <1>6, <1>7 DEF AllLeft, f, D
<1> QED
  BY <1>8 DEF SumOver, r, W

(* At rest, what is committed to the working buys is what is due. *)
LEMMA WorkingDue ==
    ASSUME NEW s, ExchangeInv(s, {})
    PROVE  CommittedCash(s) = AllDue(s)
<1> DEFINE D == DOMAIN s.orders
           W == Working(s, "BUY")
           f == [n \in D |-> Due(s.orders[n])]
           r == [n \in W |-> Committed(s, n)]
<1>0. BookInv(s) /\ \A i \in DOMAIN s.queue : EntryInv(s, i)
  BY DEF ExchangeInv, BookInv
<1>1. IsFiniteSet(D) /\ W \in SUBSET D
  BY <1>0, FlowNumbers DEF Working
<1>2. \A n \in D : f[n] \in Int
  BY <1>0, FlowNumbers
<1>3. \A n \in D \ W : f[n] = 0
  BY DEF Working, Due
<1>4. ASSUME NEW n \in W PROVE f[n] \in Int /\ r[n] = f[n]
  <2>1. PICK o : o = s.orders[n]
    OBVIOUS
  <2>2. o \in PaperOrder /\ OrderInv(o) /\ PlaceInv(s, n) /\ o.side = "BUY" /\ o.status \in WORKING
    BY <1>0, <1>1, <2>1, FlowNumbers DEF ExchangeInv, Working
  <2>3. CASE o.type = "market"
    <3>1. ~(o.status \in RESTING)
      <4> SUFFICES ASSUME o.status \in RESTING PROVE FALSE
        OBVIOUS
      <4>1. PICK i : i \in RestsAt(s, n)
        BY <2>1, <2>2 DEF PlaceInv
      <4>2. i \in DOMAIN s.queue /\ s.queue[i].owner = "PAPER" /\ s.queue[i].id = n
        BY <4>1 DEF RestsAt, IsPaper
      <4>3. MayRest(s.orders[n], s.queue[i])
        BY <1>0, <4>2 DEF EntryInv
      <4> QED
        BY <2>1, <2>3, <4>3 DEF MayRest
    <3>2. o.status # "ACCEPTED"
      BY <2>1, <2>2, <2>3 DEF PlaceInv
    <3>3. o.status = "SUBMITTED"
      BY <2>2, <3>1, <3>2 DEF WORKING, RESTING
    <3>4. o.given = "market" /\ o.filled = 0
      BY <2>2, <2>3, <3>3 DEF OrderInv
    <3>5. Due(o) = o.estimate
      BY <2>2, <2>3, <3>4 DEF Due
    <3>6. Committed(s, n) = o.estimate
      BY <2>1, <2>3 DEF Committed
    <3> QED
      BY <1>1, <1>2, <2>1, <3>5, <3>6
  <2>4. CASE o.type # "market"
    <3>1. Due(o) = (o.qty - o.filled) * WorstPrice(o)
      BY <2>2, <2>4 DEF Due
    <3>2. Committed(s, n) = (o.qty - o.filled) * WorstPrice(o)
      BY <2>1, <2>4 DEF Committed, Remaining
    <3> QED
      BY <1>1, <1>2, <2>1, <3>1, <3>2
  <2> QED
    BY <2>3, <2>4
<1>5. IsFiniteSet(W)
  BY <1>1, FS_Subset
<1> HIDE DEF f, r, D, W
<1>6. SumFunctionOnSet(f, D) = SumFunctionOnSet(f, W)
  BY <1>1, <1>2, <1>3, SumDrops
<1>7. SumFunctionOnSet(r, W) = SumFunctionOnSet(f, W)
  BY <1>4, <1>5, SumSame
<1>8. SumFunctionOnSet(r, W) = AllDue(s)
  BY <1>6, <1>7 DEF AllDue, f, D
<1> QED
  BY <1>8 DEF SumOver, r, W, CommittedCash

(* Whatever flows, what may still be sold and bought is no more than it    *)
(* was.                                                                    *)
LEMMA FlowBounds ==
    ASSUME NEW g, NEW h, BookInv(g), BookInv(h), Flow(g, h)
    PROVE  /\ Net(g) - AllLeft(g, "SELL") <= Net(h) - AllLeft(h, "SELL")
           /\ Net(h) + AllLeft(h, "BUY") <= Net(g) + AllLeft(g, "BUY")
<1> DEFINE D == DOMAIN g.orders
           bought(s) == [n \in DOMAIN s.orders |-> Bought(s.orders[n])]
           left(s, side) == [n \in DOMAIN s.orders |-> LeftOf(s.orders[n], side)]
           sell(s) == [n \in DOMAIN s.orders |-> LeftOf(s.orders[n], "SELL") - Bought(s.orders[n])]
           buy(s) == [n \in DOMAIN s.orders |-> LeftOf(s.orders[n], "BUY") + Bought(s.orders[n])]
           minus(s) == [n \in DOMAIN s.orders |-> -Bought(s.orders[n])]
<1>0. DOMAIN h.orders = D /\ IsFiniteSet(D)
  BY FlowNumbers DEF Flow
<1>1. ASSUME NEW s, s \in {g, h}, NEW n \in D
      PROVE  /\ Bought(s.orders[n]) \in Int
             /\ LeftOf(s.orders[n], "SELL") \in Int /\ LeftOf(s.orders[n], "BUY") \in Int
  <2>1. BookInv(s) /\ n \in DOMAIN s.orders
    BY <1>0, <1>1
  <2> QED
    BY <2>1, FlowNumbers, LeftNumbers
<1>2. ASSUME NEW n \in D
      PROVE  /\ LeftOf(h.orders[n], "SELL") - Bought(h.orders[n]) <= LeftOf(g.orders[n], "SELL") - Bought(g.orders[n])
             /\ LeftOf(h.orders[n], "BUY") + Bought(h.orders[n]) <= LeftOf(g.orders[n], "BUY") + Bought(g.orders[n])
  <2>1. PICK o : o = g.orders[n]
    OBVIOUS
  <2>2. PICK p : p = h.orders[n]
    OBVIOUS
  <2>3. o \in PaperOrder /\ OrderInv(o) /\ p \in PaperOrder /\ OrderInv(p) /\ OrderMoves(o, p)
    BY <1>0, <2>1, <2>2, FlowNumbers DEF Flow
  <2>4. /\ o.qty \in Nat /\ o.filled \in Nat /\ p.filled \in Nat /\ p.qty = o.qty /\ p.side = o.side
        /\ o.side \in {"BUY", "SELL"} /\ o.filled <= o.qty /\ p.filled <= o.qty /\ o.filled <= p.filled
        /\ (o.status \notin WORKING => p.status \notin WORKING /\ p.filled = o.filled)
    BY <2>3 DEF PaperOrder, OrderInv, OrderMoves
  <2>5. LeftOf(p, "SELL") - Bought(p) <= LeftOf(o, "SELL") - Bought(o)
    BY <2>4 DEF LeftOf, Bought
  <2>6. LeftOf(p, "BUY") + Bought(p) <= LeftOf(o, "BUY") + Bought(o)
    BY <2>4 DEF LeftOf, Bought
  <2> QED
    BY <2>1, <2>2, <2>5, <2>6
<1>3. ASSUME NEW s, s \in {g, h}
      PROVE  /\ SumFunctionOnSet(sell(s), D) = AllLeft(s, "SELL") - Net(s)
             /\ SumFunctionOnSet(buy(s), D) = AllLeft(s, "BUY") + Net(s)
             /\ AllLeft(s, "SELL") \in Int /\ AllLeft(s, "BUY") \in Int /\ Net(s) \in Int
  <2>1. DOMAIN s.orders = D /\ BookInv(s)
    BY <1>0, <1>3
  <2> DEFINE bs == bought(s)
             ls == left(s, "SELL")
             lb == left(s, "BUY")
             ss == sell(s)
             ms == minus(s)
             us == buy(s)
  <2>2. \A n \in D : /\ bs[n] \in Int /\ ls[n] \in Int /\ lb[n] \in Int /\ ms[n] \in Int
                     /\ ms[n] = bs[n] * (-1)
                     /\ ss[n] = ls[n] + ms[n] /\ us[n] = lb[n] + bs[n]
    BY <1>1, <1>3, <2>1
  <2>3. /\ SumFunctionOnSet(bs, D) = Net(s) /\ SumFunctionOnSet(ls, D) = AllLeft(s, "SELL")
        /\ SumFunctionOnSet(lb, D) = AllLeft(s, "BUY")
    BY <2>1, Zenon DEF Net, AllLeft
  <2>4. AllLeft(s, "SELL") \in Int /\ AllLeft(s, "BUY") \in Int /\ Net(s) \in Int
    BY <2>1, FlowNumbers, LeftNumbers
  <2> HIDE DEF bs, ls, lb, ss, ms, us
  <2>5. SumFunctionOnSet(ms, D) = Net(s) * (-1)
    BY <1>0, <2>2, <2>3, SumTimes
  <2>6. SumFunctionOnSet(ss, D) = SumFunctionOnSet(ls, D) + SumFunctionOnSet(ms, D)
    BY <1>0, <2>2, SumPlus
  <2>7. SumFunctionOnSet(us, D) = SumFunctionOnSet(lb, D) + SumFunctionOnSet(bs, D)
    BY <1>0, <2>2, SumPlus
  <2>8. SumFunctionOnSet(ss, D) = AllLeft(s, "SELL") - Net(s)
    BY <2>3, <2>4, <2>5, <2>6
  <2>9. SumFunctionOnSet(us, D) = AllLeft(s, "BUY") + Net(s)
    BY <2>3, <2>7
  <2> QED
    BY <2>4, <2>8, <2>9 DEF ss, us
<1>4. \A n \in D : sell(h)[n] \in Int /\ sell(g)[n] \in Int /\ sell(h)[n] <= sell(g)[n]
  BY <1>0, <1>1, <1>2
<1>5. \A n \in D : buy(h)[n] \in Int /\ buy(g)[n] \in Int /\ buy(h)[n] <= buy(g)[n]
  BY <1>0, <1>1, <1>2
<1> HIDE DEF sell, buy, D
<1>6. SumFunctionOnSet(sell(h), D) <= SumFunctionOnSet(sell(g), D)
  BY <1>0, <1>4, SumAtMost
<1>7. SumFunctionOnSet(buy(h), D) <= SumFunctionOnSet(buy(g), D)
  BY <1>0, <1>5, SumAtMost
<1>8. AllLeft(h, "SELL") - Net(h) <= AllLeft(g, "SELL") - Net(g)
  BY <1>3, <1>6
<1>9. AllLeft(h, "BUY") + Net(h) <= AllLeft(g, "BUY") + Net(g)
  BY <1>3, <1>7
<1> QED
  BY <1>3, <1>8, <1>9

(* All that working orders may sell is there, and all that they may cost,  *)
(* unless an unbounded buy was executed.                                   *)
Covered(s) ==
    /\ SettledPosition(s) - AllLeft(s, "SELL") >= 0
    /\ SettledCash(s) - AllDue(s) >= 0 \/ Overspent(s)

(* What is held and on order stays within M. *)
Holds(s, M) == SettledPosition(s) + AllLeft(s, "BUY") <= M

(* What flows stays covered. *)
LEMMA FlowCovers ==
    ASSUME NEW g, NEW h, BookInv(g), BookInv(h), Flow(g, h)
    PROVE  /\ Covered(g) => Covered(h)
           /\ \A M \in Int : Holds(g, M) => Holds(h, M)
<1>1. ASSUME NEW s, BookInv(s)
      PROVE  /\ SettledPosition(s) \in Int /\ SettledCash(s) \in Int /\ Net(s) \in Int /\ AllDue(s) \in Int
             /\ AllLeft(s, "SELL") \in Int /\ AllLeft(s, "BUY") \in Int
             /\ \A n \in DOMAIN s.orders : s.orders[n].filled \in Nat
  BY <1>1, FlowNumbers, LeftNumbers DEF PaperOrder
<1>2. /\ Net(g) - AllLeft(g, "SELL") <= Net(h) - AllLeft(h, "SELL")
      /\ Net(h) + AllLeft(h, "BUY") <= Net(g) + AllLeft(g, "BUY")
  BY FlowBounds
<1>3. SettledPosition(h) - Net(h) = SettledPosition(g) - Net(g)
  BY DEF Flow
<1>4. /\ SettledPosition(g) - AllLeft(g, "SELL") <= SettledPosition(h) - AllLeft(h, "SELL")
      /\ SettledPosition(h) + AllLeft(h, "BUY") <= SettledPosition(g) + AllLeft(g, "BUY")
  BY <1>1, <1>2, <1>3
<1>5. ASSUME Overspent(g) PROVE Overspent(h)
  <2>1. PICK n \in DOMAIN g.orders : UnboundedOrder(g.orders[n]) /\ g.orders[n].filled > 0
    BY <1>5 DEF Overspent
  <2>2. OrderMoves(g.orders[n], h.orders[n]) /\ n \in DOMAIN h.orders
    BY DEF Flow
  <2>3. g.orders[n].filled \in Nat /\ h.orders[n].filled \in Nat
    BY <1>1, <2>2
  <2>4. UnboundedOrder(h.orders[n]) /\ h.orders[n].filled > 0
    BY <2>1, <2>2, <2>3 DEF OrderMoves, UnboundedOrder
  <2> QED
    BY <2>2, <2>4 DEF Overspent
<1>6. SettledCash(h) - AllDue(h) >= SettledCash(g) - AllDue(g) \/ Overspent(h)
  BY DEF Flow
<1>7. Covered(g) => Covered(h)
  BY <1>1, <1>4, <1>5, <1>6 DEF Covered
<1>8. \A M \in Int : Holds(g, M) => Holds(h, M)
  BY <1>1, <1>4 DEF Holds
<1> QED
  BY <1>7, <1>8

(* At rest nothing is to be settled. *)
LEMMA NothingToSettle ==
    ASSUME NEW s, ExchangeInv(s, {}), s.fills = {}
    PROVE  /\ SettledPosition(s) = s.position /\ SettledCash(s) = s.cash
           /\ SellableQuantity(s) = SettledPosition(s) - AllLeft(s, "SELL")
           /\ AvailableCash(s) = SettledCash(s) - AllDue(s)
<1>1. BookInv(s)
  BY DEF ExchangeInv
<1>2. s.position \in Int /\ s.cash \in Int
  BY <1>1, FlowNumbers
<1>3. IsFiniteSet({}) /\ \A f : SumFunctionOnSet(f, {}) = 0
  BY FS_EmptySet, SumType
<1>4. SettledPosition(s) = s.position /\ SettledCash(s) = s.cash
  BY <1>2, <1>3 DEF SettledPosition, SettledCash
<1>5. SumOver(Working(s, "SELL"), LAMBDA n : Remaining(s, n)) = AllLeft(s, "SELL")
  BY <1>1, WorkingLeft
<1>6. SellableQuantity(s) = s.position - AllLeft(s, "SELL")
  BY <1>5 DEF SellableQuantity
<1>7. AvailableCash(s) = s.cash - AllDue(s)
  BY WorkingDue DEF AvailableCash
<1> QED
  BY <1>4, <1>6, <1>7

-----------------------------------------------------------------------------
(* A new order *)

(* h is s with the new order n. *)
Appended(s, n, p, h) ==
    /\ ExchangeInv(h, {n}) /\ SameAccount(s, h) /\ h.queue = s.queue
    /\ n \in DOMAIN h.orders /\ n \notin DOMAIN s.orders /\ DOMAIN h.orders = DOMAIN s.orders \cup {n}
    /\ h.orders[n] = p /\ \A m \in DOMAIN s.orders : h.orders[m] = s.orders[m]
    /\ \A i \in DOMAIN s.queue : Left(h, i) = Left(s, i)
    /\ Len(h.orders) = n

(* A new order is nowhere yet. *)
LEMMA AppendKeeps ==
    ASSUME NEW s, ExchangeInv(s, {}), NEW p \in PaperOrder, OrderInv(p), NEW n, n = Len(s.orders) + 1
    PROVE  Appended(s, n, p, [s EXCEPT !.orders = Extended(@, n, p)])
<1>0. BookInv(s) /\ ExchangeType(s) /\ \A i \in DOMAIN s.queue : EntryInv(s, i)
  BY DEF ExchangeInv, BookInv
<1>1. /\ Len(s.orders) \in Nat /\ DOMAIN s.orders = 1..Len(s.orders)
      /\ \A m \in DOMAIN s.orders : s.orders[m] \in PaperOrder
  BY <1>0, ExchangeTypes
<1>2. PICK f : f = Extended(s.orders, n, p)
  OBVIOUS
<1>3. /\ DOMAIN f = DOMAIN s.orders \cup {n} /\ f[n] = p /\ n \notin DOMAIN s.orders
      /\ \A m \in DOMAIN s.orders : f[m] = s.orders[m]
      /\ f = [m \in DOMAIN f |-> f[m]]
  BY <1>1, <1>2 DEF Extended
<1>4. DOMAIN f = 1..n /\ n \in Nat
  BY <1>1, <1>3
<1>5. f \in [1..n -> PaperOrder]
  <2>1. \A m \in 1..n : f[m] \in PaperOrder
    BY <1>1, <1>3, <1>4
  <2> QED
    BY <1>3, <1>4, <2>1
<1>6. f \in Seq(PaperOrder) /\ Len(f) = n
  BY <1>4, <1>5, OrdersAreSeq
<1>7. PICK h : h = [s EXCEPT !.orders = f]
  OBVIOUS
<1>8. h.orders = f /\ h.queue = s.queue /\ SameAccount(s, h) /\ DOMAIN h = DOMAIN s
  <2>1. DOMAIN s = {"queue", "orders", "stops", "fills", "inflight", "cash", "position", "now"}
    BY <1>0 DEF ExchangeType
  <2> QED
    BY <1>7, <2>1 DEF SameAccount
<1>9. ExchangeType(h)
  <2>1. DOMAIN s.orders \subseteq DOMAIN h.orders
    BY <1>3, <1>8
  <2> QED
    BY <1>0, <1>6, <1>8, <2>1 DEF ExchangeType, SameAccount
<1>10. ASSUME NEW i \in DOMAIN s.queue, s.queue[i].owner = "PAPER" PROVE s.queue[i].id \in DOMAIN s.orders
  BY <1>0, <1>10 DEF EntryInv
<1>11. ASSUME NEW i \in DOMAIN s.queue PROVE Left(h, i) = Left(s, i)
  <2>1. \A m \in DOMAIN s.orders : Remaining(h, m) = Remaining(s, m)
    BY <1>3, <1>8 DEF Remaining
  <2> QED
    BY <1>8, <1>10, <2>1 DEF Left
<1>12. \A m : RestsAt(h, m) = RestsAt(s, m)
  BY <1>8 DEF RestsAt
<1>13. ASSUME NEW i \in DOMAIN h.queue PROVE EntryInv(h, i)
  <2>1. EntryInv(s, i) /\ i \in DOMAIN s.queue
    BY <1>0, <1>8
  <2>2. InFront(h, i) = InFront(s, i) /\ InFront(s, i) \subseteq DOMAIN s.queue
    BY <1>8 DEF InFront
  <2>3. Total(h, InFront(s, i)) = Total(s, InFront(s, i))
    BY <1>11, <2>2, TotalSame
  <2>4. s.queue[i].owner = "PAPER" =>
           s.queue[i].id \in DOMAIN h.orders /\ h.orders[s.queue[i].id] = s.orders[s.queue[i].id]
    BY <1>3, <1>8, <1>10, <2>1
  <2> QED
    BY <1>8, <1>12, <2>1, <2>2, <2>3, <2>4 DEF EntryInv
<1>14. BookInv(h)
  BY <1>0, <1>3, <1>8, <1>9, <1>13 DEF BookInv
<1>15. Nowhere(h, n)
  <2>1. n \notin s.stops /\ n \notin DOMAIN s.inflight
    BY <1>0, <1>3 DEF ExchangeType
  <2>2. RestsAt(s, n) = {}
    BY <1>3, <1>10 DEF RestsAt, IsPaper
  <2> QED
    BY <1>8, <1>12, <2>1, <2>2 DEF Nowhere, InFlight, SameAccount
<1>16. ASSUME NEW m \in DOMAIN s.orders PROVE PlaceInv(h, m)
  <2>1. PlaceInv(s, m)
    BY DEF ExchangeInv
  <2> QED
    BY <1>3, <1>8, <1>12, <2>1 DEF PlaceInv, InFlight, SameAccount
<1>17. ExchangeInv(h, {n})
  BY <1>3, <1>8, <1>14, <1>15, <1>16 DEF ExchangeInv
<1>18. Appended(s, n, p, h)
  BY <1>3, <1>6, <1>8, <1>11, <1>17 DEF Appended
<1> QED
  BY <1>2, <1>7, <1>18

(* A new order commits what it asks for. *)
LEMMA AppendSums ==
    ASSUME NEW s, ExchangeInv(s, {}), NEW n, NEW p \in PaperOrder, p.filled = 0, NEW h, Appended(s, n, p, h),
           s.fills = {}
    PROVE  /\ SettledPosition(h) = SettledPosition(s) /\ SettledCash(h) = SettledCash(s)
           /\ AllDue(h) = AllDue(s) + Due(p) /\ \A side : AllLeft(h, side) = AllLeft(s, side) + LeftOf(p, side)
           /\ Overspent(s) => Overspent(h)
<1>0. BookInv(s) /\ BookInv(h)
  BY DEF ExchangeInv, Appended
<1>1. /\ h.orders[n] = p /\ \A m \in DOMAIN s.orders : h.orders[m] = s.orders[m]
      /\ DOMAIN h.orders = DOMAIN s.orders \cup {n} /\ n \notin DOMAIN s.orders
      /\ h.fills = {} /\ h.cash = s.cash /\ h.position = s.position
  BY DEF Appended, SameAccount
<1>2. SettledPosition(h) = SettledPosition(s) /\ SettledCash(h) = SettledCash(s)
  <2>1. IsFiniteSet({}) /\ \A f : SumFunctionOnSet(f, {}) = 0
    BY FS_EmptySet, SumType
  <2> QED
    BY <1>1, <2>1 DEF SettledPosition, SettledCash
<1> DEFINE D == DOMAIN s.orders
<1>3. IsFiniteSet(D) /\ IsFiniteSet({n}) /\ D \cap {n} = {}
  BY <1>0, <1>1, FlowNumbers, FS_Singleton
<1>4. ASSUME NEW f, NEW g, \A m \in D \cup {n} : g[m] \in Int, \A m \in D : f[m] = g[m]
      PROVE  SumFunctionOnSet(g, D \cup {n}) = SumFunctionOnSet(f, D) + g[n]
  <2> HIDE DEF D
  <2>0. (\A m \in D : g[m] \in Int) /\ g[n] \in Int /\ n \notin D
    BY <1>3, <1>4
  <2>1. SumFunctionOnSet(g, D \cup {n}) = g[n] + SumFunctionOnSet(g, D)
    BY <1>3, <2>0, SumWith
  <2>2. SumFunctionOnSet(g, D) \in Int
    BY <1>3, <1>4, SumType
  <2>3. SumFunctionOnSet(f, D) = SumFunctionOnSet(g, D)
    BY <1>3, <1>4, <2>0, SumSame
  <2> QED
    BY <2>0, <2>1, <2>2, <2>3
<1>5. AllDue(h) = AllDue(s) + Due(p)
  <2> DEFINE f == [m \in D |-> Due(s.orders[m])]
             g == [m \in D \cup {n} |-> Due(h.orders[m])]
  <2>1. \A m \in DOMAIN h.orders : Due(h.orders[m]) \in Nat
    BY <1>0, FlowNumbers
  <2>2. (\A m \in D \cup {n} : g[m] \in Int) /\ (\A m \in D : f[m] = g[m]) /\ g[n] = Due(p)
    BY <1>1, <2>1
  <2>3. AllDue(h) = SumFunctionOnSet(g, D \cup {n}) /\ AllDue(s) = SumFunctionOnSet(f, D)
    BY <1>1, Zenon DEF AllDue
  <2> HIDE DEF f, g, D
  <2> QED
    BY <1>4, <2>2, <2>3
<1>6. ASSUME NEW side PROVE AllLeft(h, side) = AllLeft(s, side) + LeftOf(p, side)
  <2> DEFINE f == [m \in D |-> LeftOf(s.orders[m], side)]
             g == [m \in D \cup {n} |-> LeftOf(h.orders[m], side)]
  <2>1. \A m \in DOMAIN h.orders : LeftOf(h.orders[m], side) \in Nat
    BY <1>0, LeftNumbers
  <2>2. (\A m \in D \cup {n} : g[m] \in Int) /\ (\A m \in D : f[m] = g[m]) /\ g[n] = LeftOf(p, side)
    BY <1>1, <2>1
  <2>3. AllLeft(h, side) = SumFunctionOnSet(g, D \cup {n}) /\ AllLeft(s, side) = SumFunctionOnSet(f, D)
    BY <1>1, Zenon DEF AllLeft
  <2> HIDE DEF f, g, D
  <2> QED
    BY <1>4, <2>2, <2>3
<1>7. Overspent(s) => Overspent(h)
  BY <1>1 DEF Overspent
<1> QED
  BY <1>2, <1>5, <1>6, <1>7

(* The market's asks, what a buy of qty takes of each, and at what price *)
AskPath(s) == OfMarket(s, Asks(s))
AskShare(s, qty) == [i \in AskPath(s) |-> Share(s, "BUY", AskPath(s), qty, i)]
AskPrice(s, qty) == [i \in AskPath(s) |-> Share(s, "BUY", AskPath(s), qty, i) * s.queue[i].price]

(* An estimate covers what the market's liquidity costs. *)
LEMMA EstimateCovers ==
    ASSUME NEW s, BookInv(s), NEW qty \in Nat, Asks(s) # {}
    PROVE  /\ EstimateMarketBuy(s, qty) \in Nat
           /\ SumFunctionOnSet(AskPrice(s, qty), AskPath(s)) \in Nat
           /\ SumFunctionOnSet(AskPrice(s, qty), AskPath(s)) <= EstimateMarketBuy(s, qty)
<1> DEFINE P == AskPath(s)
           f == AskShare(s, qty)
           c == AskPrice(s, qty)
           prices == {s.queue[i].price : i \in Asks(s)}
<1>0. /\ ExchangeType(s) /\ IsFiniteSet(DOMAIN s.queue)
      /\ \A i \in DOMAIN s.queue : s.queue[i] \in QueueEntry /\ s.queue[i].price \in Nat
  BY ExchangeTypes DEF BookInv, ExchangeType, QueueEntry
<1>1. P \in SUBSET DOMAIN s.queue /\ Asks(s) \subseteq DOMAIN s.queue
  BY DEF AskPath, OfMarket, Asks, Path
<1>2. IsFiniteSet(P) /\ IsFiniteSet(Asks(s))
  BY <1>0, <1>1, FS_Subset
<1>3. \A i \in P : Left(s, i) \in Nat
  BY <1>1, LeftType
<1>4. ASSUME NEW i \in P PROVE f[i] \in Nat /\ c[i] \in Nat
  <2>1. Share(s, "BUY", P, qty, i) \in Nat
    BY <1>0, <1>1, <1>3, ShareType
  <2>2. s.queue[i].price \in Nat
    BY <1>0, <1>1
  <2>3. \A u, v \in Nat : u * v \in Nat
    OBVIOUS
  <2> QED
    BY <2>1, <2>2, <2>3 DEF AskShare, AskPrice
<1>5. SumFunctionOnSet(f, P) \in Nat /\ SumFunctionOnSet(c, P) \in Nat
  <2> HIDE DEF f, c, P
  <2> QED
    BY <1>2, <1>4, SumCovers
<1>6. SumFunctionOnSet(f, P) <= qty
  <2>1. Total(s, P) \in Nat
    BY <1>0, <1>1, <1>3, TotalType
  <2>2. SumFunctionOnSet([i \in P |-> Share(s, "BUY", P, qty, i)], P) =
            IF qty <= Total(s, P) THEN qty ELSE Total(s, P)
    BY <1>0, <1>1, <1>3, SharesAddUp
  <2>3. f = [i \in P |-> Share(s, "BUY", P, qty, i)]
    BY DEF AskShare
  <2> HIDE DEF f, P
  <2> QED
    BY <2>1, <2>2, <2>3
<1>7. Max(prices) \in Nat
  <2> DEFINE m == [i \in Asks(s) |-> s.queue[i].price]
  <2>1. prices = {m[i] : i \in Asks(s)}
    OBVIOUS
  <2>2. IsFiniteSet({m[i] : i \in Asks(s)})
    <3> HIDE DEF m
    <3> QED
      BY <1>2, ImageIsFinite
  <2>3. prices \subseteq Nat /\ prices # {}
    BY <1>0, <1>1
  <2>4. IsFiniteSet(prices) /\ prices \subseteq Int
    BY <2>1, <2>2, <2>3
  <2> HIDE DEF prices
  <2>5. Max(prices) \in prices
    BY <2>3, <2>4, LargestExists
  <2> QED
    BY <2>3, <2>5
<1>8. EstimateMarketBuy(s, qty) =
          SumFunctionOnSet(c, P) + (qty - SumFunctionOnSet(f, P)) * Max(prices)
  BY Zenon DEF EstimateMarketBuy, SumOver, AskShare, AskPrice, AskPath
<1> HIDE DEF f, c, P, prices
<1>9. \A u, v, w \in Nat : v <= qty => u + (qty - v) * w \in Nat /\ u <= u + (qty - v) * w
  <2> SUFFICES ASSUME NEW u \in Nat, NEW v \in Nat, NEW w \in Nat, v <= qty
               PROVE  u + (qty - v) * w \in Nat /\ u <= u + (qty - v) * w
    OBVIOUS
  <2>1. PICK z \in Nat : z = qty - v
    OBVIOUS
  <2>2. z * w \in Nat
    OBVIOUS
  <2> QED
    BY <2>1, <2>2
<1>10. EstimateMarketBuy(s, qty) \in Nat /\ SumFunctionOnSet(c, P) <= EstimateMarketBuy(s, qty)
  BY <1>5, <1>6, <1>7, <1>8, <1>9
<1> QED
  BY <1>5, <1>10 DEF c, P

(* The shares of an aggressor depend on the queue only. *)
LEMMA SharesSame ==
    ASSUME NEW s, NEW a, a.queue = s.queue, \A i \in DOMAIN s.queue : Left(a, i) = Left(s, i), NEW qty
    PROVE  Shares(a, "BUY", OfMarket(a, Path(a, "BUY", None)), qty) = Shares(s, "BUY", AskPath(s), qty)
<1>1. OfMarket(a, Path(a, "BUY", None)) = AskPath(s) /\ AskPath(s) \subseteq DOMAIN s.queue
  BY DEF OfMarket, Path, AskPath, Asks
<1> DEFINE P == AskPath(s)
<1>2. ASSUME NEW i \in P PROVE Share(a, "BUY", P, qty, i) = Share(s, "BUY", P, qty, i)
  <2>1. {j \in P : Earlier(a, "BUY", j, i)} = {j \in P : Earlier(s, "BUY", j, i)}
    BY DEF Earlier
  <2>2. PICK I : I = {j \in P : Earlier(s, "BUY", j, i)}
    OBVIOUS
  <2>3. I \subseteq DOMAIN s.queue
    BY <1>1, <2>2
  <2>4. Total(a, I) = Total(s, I)
    BY <2>3, TotalSame
  <2>5. Left(a, i) = Left(s, i)
    BY <1>1
  <2> HIDE DEF P
  <2> QED
    BY <2>1, <2>2, <2>4, <2>5 DEF Share
<1> HIDE DEF P
<1>3. Shares(a, "BUY", P, qty) = Shares(s, "BUY", P, qty)
  <2>1. {j \in P : Share(a, "BUY", P, qty, j) > 0} = {j \in P : Share(s, "BUY", P, qty, j) > 0}
    BY <1>2
  <2> QED
    BY <1>2, <2>1 DEF Shares
<1> QED
  BY <1>1, <1>3 DEF P

(* What the shares cost is what the asks cost. *)
LEMMA SharesCost ==
    ASSUME NEW s, BookInv(s), NEW qty \in Nat, NEW a, a.queue = s.queue
    PROVE  LET shares == Shares(s, "BUY", AskPath(s), qty)
           IN SumFunctionOnSet(PriceOf(a, shares), DOMAIN shares) =
                  SumFunctionOnSet(AskPrice(s, qty), AskPath(s))
<1> DEFINE P == AskPath(s)
           shares == Shares(s, "BUY", P, qty)
           S == DOMAIN shares
           c == AskPrice(s, qty)
           d == PriceOf(a, shares)
<1>0. /\ ExchangeType(s) /\ IsFiniteSet(DOMAIN s.queue)
      /\ \A i \in DOMAIN s.queue : s.queue[i] \in QueueEntry /\ s.queue[i].price \in Nat
  BY ExchangeTypes DEF BookInv, ExchangeType, QueueEntry
<1>1. P \in SUBSET DOMAIN s.queue
  BY DEF AskPath, OfMarket, Asks, Path
<1>2. IsFiniteSet(P)
  BY <1>0, <1>1, FS_Subset
<1>3. \A i \in P : Left(s, i) \in Nat
  BY <1>1, LeftType
<1>4. ASSUME NEW i \in P
      PROVE  /\ Share(s, "BUY", P, qty, i) \in Nat /\ s.queue[i].price \in Nat
             /\ c[i] = Share(s, "BUY", P, qty, i) * s.queue[i].price
  <2>1. Share(s, "BUY", P, qty, i) \in Nat
    BY <1>0, <1>1, <1>3, ShareType
  <2> QED
    BY <1>0, <1>1, <2>1 DEF AskPrice
<1>5. /\ S \subseteq P /\ \A i \in S : shares[i] = Share(s, "BUY", P, qty, i)
      /\ \A i \in P \ S : ~(Share(s, "BUY", P, qty, i) > 0)
  BY DEF Shares
<1>6. \A i \in S : d[i] = shares[i] * s.queue[i].price
  BY DEF PriceOf
<1> HIDE DEF P, c, d, S, shares
<1>7. \A u, v \in Nat : u * v \in Int /\ (~(u > 0) => u * v = 0)
  OBVIOUS
<1>8. \A i \in P : c[i] \in Int
  BY <1>4, <1>7
<1>9. \A i \in P \ S : c[i] = 0
  BY <1>4, <1>5, <1>7
<1>10. \A i \in S : c[i] \in Int /\ d[i] = c[i]
  BY <1>4, <1>5, <1>6, <1>8
<1>11. SumFunctionOnSet(c, P) = SumFunctionOnSet(c, S)
  BY <1>2, <1>5, <1>8, <1>9, SumDrops
<1>12. SumFunctionOnSet(d, S) = SumFunctionOnSet(c, S)
  <2>1. IsFiniteSet(S)
    BY <1>2, <1>5, FS_Subset
  <2> QED
    BY <1>10, <2>1, SumSame
<1> QED
  BY <1>11, <1>12 DEF P, c, d, S, shares

(* What may be submitted *)
PaperOffer ==
    [side : {"BUY", "SELL"}, type : {"market", "limit", "stop", "stop_limit"}, qty : Nat, limit : Nat,
     stop : Nat, tif : {"GTC", "IOC", "FOK"}, expires : Nat]

(* What submit_order estimates *)
EstimateOf(s, o) == IF o.type = "market" /\ Priced(s, o) THEN BuyCost(s, o) ELSE 0

(* Estimates are numbers. *)
LEMMA EstimateType ==
    ASSUME NEW s, BookInv(s), NEW o \in PaperOffer
    PROVE  EstimateOf(s, o) \in Nat /\ (Priced(s, o) => BuyCost(s, o) \in Nat)
<1>1. o.qty \in Nat /\ o.limit \in Nat /\ o.stop \in Nat
  BY DEF PaperOffer
<1>2. ASSUME Priced(s, o) PROVE BuyCost(s, o) \in Nat
  <2>1. CASE o.type = "market"
    <3>1. Asks(s) # {}
      BY <1>2, <2>1 DEF Priced
    <3>2. EstimateMarketBuy(s, o.qty) \in Nat
      BY <1>1, <3>1, EstimateCovers
    <3> QED
      BY <2>1, <3>2 DEF BuyCost
  <2>2. CASE o.type # "market"
    <3>1. WorstPrice(o) \in Nat
      BY <1>1 DEF WorstPrice
    <3>2. o.qty * WorstPrice(o) \in Nat
      BY <1>1, <3>1
    <3> QED
      BY <2>2, <3>2 DEF BuyCost
  <2> QED
    BY <2>1, <2>2
<1> QED
  BY <1>2 DEF EstimateOf

(* A new order is in order. *)
LEMMA NewOrderType ==
    ASSUME NEW o \in PaperOffer, NEW est \in Nat, NEW p, p = NewOrder(o, est)
    PROVE  /\ p \in PaperOrder /\ OrderInv(p) /\ p.filled = 0 /\ p.status = "SUBMITTED"
           /\ p.side = o.side /\ p.type = o.type /\ p.given = o.type /\ p.qty = o.qty
           /\ p.limit = o.limit /\ p.stop = o.stop /\ p.estimate = est
<1>1. /\ o.qty \in Nat /\ o.limit \in Nat /\ o.stop \in Nat /\ o.expires \in Nat /\ o.side \in {"BUY", "SELL"}
      /\ o.type \in PaperTypes /\ o.tif \in {"GTC", "IOC", "FOK"}
  BY DEF PaperOffer, PaperTypes
<1>2. "SUBMITTED" \in Statuses
  BY DEF Statuses, WORKING
<1>3. /\ p \in PaperOrder /\ p.filled = 0 /\ p.status = "SUBMITTED" /\ p.tif = o.tif
      /\ p.side = o.side /\ p.type = o.type /\ p.given = o.type /\ p.qty = o.qty
      /\ p.limit = o.limit /\ p.stop = o.stop /\ p.estimate = est
  BY <1>1, <1>2 DEF NewOrder, PaperOrder
<1>4. OrderInv(p)
  BY <1>1, <1>3 DEF OrderInv
<1> QED
  BY <1>3, <1>4

(* A market buy that is executed at once costs no more than its estimate.  *)
LEMMA MarketMayPay ==
    ASSUME NEW s, ExchangeInv(s, {}), NEW o \in PaperOffer, o.type = "market", NEW n, NEW p, NEW h,
           p = NewOrder(o, EstimateOf(s, o)), Appended(s, n, p, h)
    PROVE  MayPay(SetStatus(h, n, "ACCEPTED"), n, None)
<1>0. BookInv(s) /\ BookInv(h) /\ ExchangeType(h) /\ \A i \in DOMAIN s.queue : EntryInv(s, i)
  BY DEF ExchangeInv, Appended, BookInv
<1>1. PICK est \in Nat : est = EstimateOf(s, o)
  BY <1>0, EstimateType
<1>2. /\ p \in PaperOrder /\ p.filled = 0 /\ p.side = o.side /\ p.type = "market" /\ p.given = "market"
      /\ p.qty = o.qty /\ p.estimate = est /\ o.qty \in Nat
  BY <1>1, NewOrderType DEF PaperOffer
<1>3. PICK q : q = [p EXCEPT !.status = "ACCEPTED"]
  OBVIOUS
<1>4. /\ q \in PaperOrder /\ q.filled = 0 /\ q.side = o.side /\ q.type = "market" /\ q.given = "market"
      /\ q.qty = o.qty /\ q.estimate = est
  BY <1>2, <1>3 DEF PaperOrder, Statuses, WORKING
<1>5. PICK a : a = SetStatus(h, n, "ACCEPTED")
  OBVIOUS
<1>6. /\ n \in DOMAIN h.orders /\ n \notin DOMAIN s.orders /\ h.orders[n] = p /\ h.queue = s.queue
      /\ \A i \in DOMAIN s.queue : Left(h, i) = Left(s, i)
      /\ DOMAIN s.orders \subseteq DOMAIN h.orders
  BY DEF Appended
<1>7. a = [h EXCEPT !.orders[n] = q]
  BY <1>3, <1>5, <1>6 DEF SetStatus
<1>8. a.queue = s.queue /\ a.orders[n] = q /\ \A m \in DOMAIN s.orders : a.orders[m] = h.orders[m]
  <2>1. DOMAIN h = {"queue", "orders", "stops", "fills", "inflight", "cash", "position", "now"}
    BY <1>0 DEF ExchangeType
  <2> QED
    BY <1>6, <1>7, <2>1
<1>9. ASSUME NEW i \in DOMAIN s.queue PROVE Left(a, i) = Left(s, i)
  <2>1. s.queue[i].owner = "PAPER" => s.queue[i].id \in DOMAIN s.orders
    BY <1>0 DEF EntryInv
  <2>2. \A m \in DOMAIN s.orders : Remaining(a, m) = Remaining(h, m)
    BY <1>8 DEF Remaining
  <2>3. Left(a, i) = Left(h, i)
    BY <1>6, <1>8, <2>1, <2>2 DEF Left
  <2> QED
    BY <1>6, <2>3
<1>10. CASE o.side = "BUY"
  <2>1. Remaining(a, n) = o.qty
    BY <1>2, <1>4, <1>8 DEF Remaining
  <2>2. PICK shares : shares = Shares(s, "BUY", AskPath(s), o.qty)
    OBVIOUS
  <2>3. TakeShares(a, n, None) = shares
    <3>1. Shares(a, "BUY", OfMarket(a, Path(a, "BUY", None)), o.qty) = shares
      BY <1>8, <1>9, <2>2, SharesSame
    <3>2. TakeShares(a, n, None) = Shares(a, "BUY", OfMarket(a, Path(a, "BUY", None)), o.qty)
      BY <1>4, <1>8, <1>10, <2>1 DEF TakeShares
    <3> QED
      BY <3>1, <3>2
  <2>4. SumFunctionOnSet(PriceOf(a, shares), DOMAIN shares) =
            SumFunctionOnSet(AskPrice(s, o.qty), AskPath(s))
    BY <1>0, <1>2, <1>8, <2>2, SharesCost
  <2>5. SumFunctionOnSet(PriceOf(a, shares), DOMAIN shares) <= est
    <3>1. CASE Asks(s) # {}
      <4>1. est = EstimateMarketBuy(s, o.qty)
        BY <1>1, <1>10, <3>1 DEF EstimateOf, Priced, BuyCost
      <4> QED
        BY <1>0, <1>2, <2>4, <3>1, <4>1, EstimateCovers
    <3>2. CASE Asks(s) = {}
      <4>1. AskPath(s) = {} /\ est = 0
        BY <1>1, <3>2 DEF AskPath, OfMarket, EstimateOf, Priced
      <4>2. IsFiniteSet({}) /\ \A f : SumFunctionOnSet(f, {}) = 0
        BY FS_EmptySet, SumType
      <4> QED
        BY <2>4, <4>1, <4>2
    <3> QED
      BY <3>1, <3>2
  <2>6. SumFunctionOnSet(PriceOf(a, TakeShares(a, n, None)), DOMAIN TakeShares(a, n, None)) <= a.orders[n].estimate
    BY <1>4, <1>8, <2>3, <2>5
  <2>7. MayPay(a, n, None)
    BY <1>4, <1>8, <2>6 DEF MayPay
  <2> QED
    BY <1>5, <2>7
<1>11. CASE o.side # "BUY"
  <2>1. MayPay(a, n, None)
    BY <1>4, <1>8, <1>11 DEF MayPay
  <2> QED
    BY <1>5, <2>1
<1> QED
  BY <1>10, <1>11

(* An order that passes the pre-trade check is covered. *)
LEMMA NewCovered ==
    ASSUME NEW s, ExchangeInv(s, {}), s.fills = {}, Covered(s), NEW o \in PaperOffer,
           ~PretradeRejected(s, o), NEW n, NEW p, NEW h,
           p = NewOrder(o, EstimateOf(s, o)), Appended(s, n, p, h)
    PROVE  Covered(h)
<1>0. BookInv(s)
  BY DEF ExchangeInv
<1>1. PICK est \in Nat : est = EstimateOf(s, o)
  BY <1>0, EstimateType
<1>2. /\ p \in PaperOrder /\ p.filled = 0 /\ p.status = "SUBMITTED"
      /\ p.side = o.side /\ p.type = o.type /\ p.given = o.type /\ p.qty = o.qty
      /\ p.limit = o.limit /\ p.stop = o.stop /\ p.estimate = est
      /\ o.qty \in Nat /\ o.side \in {"BUY", "SELL"}
  BY <1>1, NewOrderType DEF PaperOffer
<1>3. /\ SettledPosition(h) = SettledPosition(s) /\ SettledCash(h) = SettledCash(s)
      /\ AllDue(h) = AllDue(s) + Due(p) /\ AllLeft(h, "SELL") = AllLeft(s, "SELL") + LeftOf(p, "SELL")
      /\ Overspent(s) => Overspent(h)
  BY <1>2, AppendSums
<1>4. /\ SellableQuantity(s) = SettledPosition(s) - AllLeft(s, "SELL")
      /\ AvailableCash(s) = SettledCash(s) - AllDue(s)
  BY NothingToSettle
<1>5. /\ SettledPosition(s) \in Int /\ SettledCash(s) \in Int /\ AllDue(s) \in Int /\ AllLeft(s, "SELL") \in Int
  BY <1>0, FlowNumbers, LeftNumbers
<1>6. CASE o.side = "SELL"
  <2>1. o.qty <= SellableQuantity(s)
    BY <1>2, <1>4, <1>5, <1>6 DEF PretradeRejected
  <2>2. LeftOf(p, "SELL") = o.qty /\ Due(p) = 0
    BY <1>2, <1>6 DEF LeftOf, Due, WORKING
  <2> QED
    BY <1>2, <1>3, <1>4, <1>5, <2>1, <2>2 DEF Covered
<1>7. CASE o.side = "BUY"
  <2>1. LeftOf(p, "SELL") = 0
    BY <1>2, <1>7 DEF LeftOf
  <2>2. Due(p) \in Nat /\ (Due(p) = 0 \/ Due(p) <= AvailableCash(s))
    <3>1. ASSUME Priced(s, o) PROVE BuyCost(s, o) \in Nat /\ BuyCost(s, o) <= AvailableCash(s)
      <4>1. BuyCost(s, o) \in Nat
        BY <1>0, <3>1, EstimateType
      <4>2. ~(BuyCost(s, o) > AvailableCash(s))
        BY <1>7, <3>1 DEF PretradeRejected
      <4> QED
        BY <1>4, <1>5, <4>1, <4>2
    <3>2. CASE o.type = "market"
      <4>1. Due(p) = est
        BY <1>2, <1>7, <3>2 DEF Due, WORKING
      <4>2. est = IF Priced(s, o) THEN BuyCost(s, o) ELSE 0
        BY <1>1, <3>2 DEF EstimateOf
      <4> QED
        BY <3>1, <4>1, <4>2
    <3>3. CASE o.type # "market"
      <4>1. Priced(s, o)
        BY <1>7, <3>3 DEF Priced
      <4>2. Due(p) = o.qty * WorstPrice(o)
        <5>1. WorstPrice(p) = WorstPrice(o)
          BY <1>2 DEF WorstPrice
        <5>2. Due(p) = (p.qty - p.filled) * WorstPrice(p)
          BY <1>2, <1>7, <3>3 DEF Due, WORKING
        <5>3. p.qty - p.filled = o.qty
          BY <1>2
        <5> QED
          BY <5>1, <5>2, <5>3
      <4>3. BuyCost(s, o) = o.qty * WorstPrice(o)
        BY <3>3 DEF BuyCost
      <4> QED
        BY <3>1, <4>1, <4>2, <4>3
    <3> QED
      BY <3>2, <3>3
  <2> QED
    BY <1>3, <1>4, <1>5, <2>1, <2>2 DEF Covered
<1> QED
  BY <1>2, <1>6, <1>7

(* The order t.orders[n] is in flight, all else is as it was. *)
TookOff(h, n, t) ==
    /\ ExchangeInv(t, {}) /\ t.orders = h.orders /\ t.fills = h.fills
    /\ t.cash = h.cash /\ t.position = h.position

(* A submitted order takes off. *)
LEMMA FlightJoined ==
    ASSUME NEW h, NEW n \in DOMAIN h.orders, ExchangeInv(h, {n}), h.orders[n].status = "SUBMITTED", NEW v
    PROVE  TookOff(h, n, [h EXCEPT !.inflight = Extended(@, n, v)])
<1>1. BookInv(h) /\ ExchangeType(h) /\ Nowhere(h, n)
  BY DEF ExchangeInv, BookInv
<1>2. PICK w : w = Extended(h.inflight, n, v)
  OBVIOUS
<1>3. DOMAIN w = DOMAIN h.inflight \cup {n}
  BY <1>2 DEF Extended
<1>4. PICK t : t = [h EXCEPT !.inflight = w]
  OBVIOUS
<1>5. /\ t.queue = h.queue /\ t.orders = h.orders /\ t.stops = h.stops /\ t.inflight = w
      /\ t.fills = h.fills /\ t.position = h.position /\ t.cash = h.cash /\ t.now = h.now
      /\ DOMAIN t = DOMAIN h
  <2>1. DOMAIN h = {"queue", "orders", "stops", "fills", "inflight", "cash", "position", "now"}
    BY <1>1 DEF ExchangeType
  <2> QED
    BY <1>4, <2>1
<1>6. ExchangeType(t)
  BY <1>1, <1>3, <1>5 DEF ExchangeType
<1>7. BookInv(t)
  <2>1. OrderInv(t.orders[n]) /\ RestsAt(h, n) = {}
    BY <1>1, <1>5 DEF BookInv, Nowhere
  <2> QED
    BY <1>1, <1>5, <1>6, <2>1, BookFrame
<1>8. \A m : RestsAt(t, m) = RestsAt(h, m)
  BY <1>5 DEF RestsAt
<1>9. ASSUME NEW m \in DOMAIN t.orders PROVE PlaceInv(t, m)
  <2>1. CASE m = n
    BY <1>1, <1>3, <1>5, <1>8, <2>1 DEF Nowhere, InFlight, PlaceInv, RESTING
  <2>2. CASE m # n
    <3>1. PlaceInv(h, m)
      BY <1>5, <2>2 DEF ExchangeInv
    <3>2. InFlight(t, m) <=> InFlight(h, m)
      BY <1>3, <1>5, <2>2 DEF InFlight
    <3> QED
      BY <1>5, <1>8, <2>2, <3>1, <3>2 DEF PlaceInv
  <2> QED
    BY <2>1, <2>2
<1>10. ExchangeInv(t, {})
  BY <1>7, <1>9 DEF ExchangeInv
<1>11. TookOff(h, n, t)
  BY <1>5, <1>10 DEF TookOff
<1> QED
  BY <1>2, <1>4, <1>11

(* h is all right, and holds at most k shares more than s. *)
Allowed(s, k, h) ==
    AtRest(h) /\ Covered(h) /\ \A M \in Int : Holds(s, M) => Holds(h, M + k)

(* Submitting an order *)
LEMMA SubmittedKeeps ==
    ASSUME NEW s, AtRest(s), Covered(s), NEW o \in PaperOffer, latency \in Nat
    PROVE  Allowed(s, IF o.side = "BUY" THEN o.qty ELSE 0, Submitted(s, o))
<1> DEFINE k == IF o.side = "BUY" THEN o.qty ELSE 0
<1>0. /\ Good(s, {}) /\ s.fills = {} /\ ExchangeInv(s, {}) /\ BookInv(s)
      /\ (DOMAIN s.inflight # {} => latency > 0)
  BY GoodBook DEF AtRest
<1>1. PICK n : n = Len(s.orders) + 1
  OBVIOUS
<1>2. PICK est \in Nat : est = EstimateOf(s, o)
  BY <1>0, EstimateType
<1>3. PICK p : p = NewOrder(o, est)
  OBVIOUS
<1>4. /\ p \in PaperOrder /\ OrderInv(p) /\ p.filled = 0 /\ p.status = "SUBMITTED"
      /\ p.side = o.side /\ p.type = o.type /\ p.given = o.type /\ p.qty = o.qty
      /\ o.qty \in Nat /\ o.side \in {"BUY", "SELL"}
  BY <1>3, NewOrderType DEF PaperOffer
<1>5. PICK h : h = [s EXCEPT !.orders = Extended(@, n, p)]
  OBVIOUS
<1>6. Appended(s, n, p, h)
  BY <1>0, <1>1, <1>4, <1>5, AppendKeeps
<1>7. /\ ExchangeInv(h, {n}) /\ BookInv(h) /\ n \in DOMAIN h.orders /\ h.orders[n] = p /\ h.fills = {}
      /\ h.inflight = s.inflight
  BY <1>0, <1>6 DEF Appended, SameAccount, ExchangeInv
<1>8. /\ SettledPosition(h) = SettledPosition(s) /\ SettledCash(h) = SettledCash(s)
      /\ AllLeft(h, "BUY") = AllLeft(s, "BUY") + LeftOf(p, "BUY")
  BY <1>0, <1>4, <1>6, AppendSums
<1>9. SettledPosition(s) \in Int /\ AllLeft(s, "BUY") \in Int /\ k \in Nat
  BY <1>0, <1>4, FlowNumbers, LeftNumbers
<1>10. \A M \in Int : Holds(s, M) => Holds(h, M + k)
  <2>1. LeftOf(p, "BUY") = k
    BY <1>4 DEF LeftOf, WORKING
  <2> HIDE DEF k
  <2> QED
    BY <1>8, <1>9, <2>1 DEF Holds
<1>11. Submitted(s, o) = IF PretradeRejected(s, o) THEN SetStatus(h, n, "REJECTED")
                         ELSE IF latency > 0
                         THEN [h EXCEPT !.inflight = Extended(@, n, s.now + latency)]
                         ELSE Activate(h, n)
  BY <1>1, <1>2, <1>3, <1>5 DEF Submitted, EstimateOf
<1>12. CASE PretradeRejected(s, o)
  <2>1. PICK q : q = [p EXCEPT !.status = "REJECTED"]
    OBVIOUS
  <2>2. /\ q \in PaperOrder /\ q.filled = 0 /\ q.status = "REJECTED" /\ q.side = p.side /\ q.type = p.type
        /\ q.given = p.given /\ q.qty = p.qty /\ q.tif = p.tif
    BY <1>4, <2>1 DEF PaperOrder, Statuses
  <2>3. OrderInv(q)
    BY <1>4, <2>2 DEF OrderInv
  <2>4. PICK t : t = [s EXCEPT !.orders = Extended(@, n, q)]
    OBVIOUS
  <2>5. Appended(s, n, q, t)
    BY <1>0, <1>1, <2>2, <2>3, <2>4, AppendKeeps
  <2>6. SetStatus(h, n, "REJECTED") = t
    <3>1. PICK f : f = Extended(s.orders, n, p)
      OBVIOUS
    <3>2. DOMAIN s = {"queue", "orders", "stops", "fills", "inflight", "cash", "position", "now"}
      BY <1>0 DEF BookInv, ExchangeType
    <3>3. h = [s EXCEPT !.orders = f] /\ h.orders = f /\ n \in DOMAIN f /\ f[n] = p
      BY <1>5, <1>7, <3>1, <3>2
    <3>4. [f EXCEPT ![n] = q] = Extended(s.orders, n, q)
      BY <3>1 DEF Extended
    <3>5. SetStatus(h, n, "REJECTED") = [h EXCEPT !.orders = [f EXCEPT ![n] = q]]
      BY <2>1, <3>2, <3>3 DEF SetStatus
    <3>6. [h EXCEPT !.orders = [f EXCEPT ![n] = q]] = [s EXCEPT !.orders = [f EXCEPT ![n] = q]]
      BY <3>2, <3>3
    <3> QED
      BY <2>4, <3>4, <3>5, <3>6
  <2>7. ExchangeInv(t, {n}) /\ n \in DOMAIN t.orders /\ t.orders[n] = q /\ t.fills = {} /\ t.inflight = s.inflight
    BY <1>0, <2>5 DEF Appended, SameAccount
  <2>8. ExchangeInv(t, {})
    <3>1. t.orders[n].status \notin WORKING
      BY <2>2, <2>7 DEF WORKING
    <3> QED
      BY <2>7, <3>1, LimboOver
  <2>9. AtRest(t)
    BY <1>0, <2>7, <2>8 DEF AtRest, Good, FillsAside
  <2>10. /\ SettledPosition(t) = SettledPosition(s) /\ SettledCash(t) = SettledCash(s)
         /\ AllDue(t) = AllDue(s) + Due(q) /\ (Overspent(s) => Overspent(t))
         /\ AllLeft(t, "BUY") = AllLeft(s, "BUY") + LeftOf(q, "BUY")
         /\ AllLeft(t, "SELL") = AllLeft(s, "SELL") + LeftOf(q, "SELL")
    BY <1>0, <2>2, <2>5, AppendSums
  <2>11. Due(q) = 0 /\ LeftOf(q, "BUY") = 0 /\ LeftOf(q, "SELL") = 0
    BY <2>2 DEF Due, LeftOf, WORKING
  <2>12. /\ SettledPosition(s) \in Int /\ SettledCash(s) \in Int /\ AllDue(s) \in Int
         /\ AllLeft(s, "SELL") \in Int /\ AllLeft(s, "BUY") \in Int
    BY <1>0, FlowNumbers, LeftNumbers
  <2>13. Covered(t)
    BY <2>10, <2>11, <2>12 DEF Covered
  <2>14. \A M \in Int : Holds(s, M) => Holds(t, M + k)
    <3> HIDE DEF k
    <3> QED
      BY <1>9, <2>10, <2>11, <2>12 DEF Holds
  <2> QED
    BY <1>11, <1>12, <2>6, <2>9, <2>13, <2>14 DEF Allowed
<1>13. CASE ~PretradeRejected(s, o) /\ latency > 0
  <2>1. PICK t : t = [h EXCEPT !.inflight = Extended(@, n, s.now + latency)]
    OBVIOUS
  <2>2. TookOff(h, n, t)
    BY <1>4, <1>7, <2>1, FlightJoined
  <2>3. /\ ExchangeInv(t, {}) /\ t.orders = h.orders /\ t.fills = {}
        /\ t.cash = h.cash /\ t.position = h.position
    BY <1>7, <2>2 DEF TookOff
  <2>4. AtRest(t)
    BY <1>13, <2>3 DEF AtRest, Good, FillsAside
  <2>5. Covered(h)
    BY <1>0, <1>2, <1>3, <1>6, <1>13, NewCovered
  <2>6. /\ SettledPosition(t) = SettledPosition(h) /\ SettledCash(t) = SettledCash(h)
        /\ AllDue(t) = AllDue(h) /\ Overspent(t) = Overspent(h)
        /\ AllLeft(t, "BUY") = AllLeft(h, "BUY") /\ AllLeft(t, "SELL") = AllLeft(h, "SELL")
    <3>1. t.fills = h.fills
      BY <1>7, <2>3
    <3> QED
      BY <2>3, <3>1 DEF SettledPosition, SettledCash, Gains, Costs, Signed, AllDue, AllLeft, Overspent
  <2>7. Covered(t) /\ \A M \in Int : Holds(s, M) => Holds(t, M + k)
    <3> HIDE DEF k
    <3> QED
      BY <1>10, <2>5, <2>6 DEF Covered, Holds
  <2> QED
    BY <1>11, <1>13, <2>1, <2>4, <2>7 DEF Allowed
<1>14. CASE ~PretradeRejected(s, o) /\ ~(latency > 0)
  <2>1. PICK t : t = Activate(h, n)
    OBVIOUS
  <2>2. Good(h, {n}) /\ h.orders[n].status = "SUBMITTED"
    BY <1>4, <1>7 DEF Good, FillsAside
  <2>3. ASSUME h.orders[n].type = "market" PROVE MayPay(SetStatus(h, n, "ACCEPTED"), n, None)
    BY <1>0, <1>2, <1>3, <1>4, <1>6, <1>7, <2>3, MarketMayPay
  <2>4. Goes(h, t) /\ t.fills = {}
    BY <1>7, <2>1, <2>2, <2>3, ActivateGoes
  <2>5. Good(t, {}) /\ Flow(h, t) /\ BookInv(t)
    BY <2>4, GoodBook DEF Goes
  <2>6. AtRest(t)
    BY <1>0, <1>7, <2>4, <2>5 DEF AtRest, Flow
  <2>7. Covered(h)
    BY <1>0, <1>2, <1>3, <1>6, <1>14, NewCovered
  <2>8. Covered(t) /\ \A M \in Int : Holds(h, M) => Holds(t, M)
    BY <1>7, <2>5, <2>7, FlowCovers
  <2>9. \A M \in Int : Holds(s, M) => Holds(t, M + k)
    <3> HIDE DEF k
    <3>1. \A M \in Int : M + k \in Int
      BY <1>9
    <3> QED
      BY <1>10, <2>8, <3>1
  <2> QED
    BY <1>11, <1>14, <2>1, <2>6, <2>8, <2>9 DEF Allowed
<1> QED
  BY <1>12, <1>13, <1>14

(* The replay cancels late orders, one after the other. *)
LEMMA KeptGoes ==
    ASSUME NEW g, AtRest(g)
    PROVE  Goes(g, Kept(g)) /\ AtRest(Kept(g))
<1>late. PICK late : late = {p[1] : p \in Late(g)}
  OBVIOUS
<1> DEFINE N == Len(g.orders)
           after == CHOOSE f : Runs(f, g, N, "cancels", late)
<1>0. Good(g, {}) /\ g.fills = {} /\ DOMAIN g.orders = 1..N
  BY GoodBook, ExchangeTypes DEF AtRest
<1>1. N \in Nat /\ \A h, n : Pass("cancels", h, n, late) = CancelPass(h, n, late)
  BY <1>0, GoodBook, ExchangeTypes DEF Pass
<1>2. Kept(g) = after[N]
  BY <1>late DEF Kept, ForEachOrder, CancelPass, Pass, Runs
<1>3. Runs(after, g, N, "cancels", late)
  <2>1. \E f : Runs(f, g, N, "cancels", late)
    BY <1>1, LoopRuns
  <2> QED
    BY <2>1
<1> HIDE DEF after, N
<1>4. after[0] = g /\ \A k \in 0..(N - 1) : after[k + 1] = Pass("cancels", after[k], k + 1, late)
  <2>1. Walks(after, g, N, "cancels", late)
    BY <1>1, <1>3, LoopSteps
  <2> QED
    BY <2>1 DEF Walks
<1> DEFINE Q == {k \in 0..N : AtRest(after[k])}
<1>5. ASSUME NEW k \in 0..(N - 1), k \in Q, Goes(g, after[k])
      PROVE  Goes(after[k], after[k + 1]) /\ k + 1 \in Q
  <2>1. PICK h : h = after[k]
    OBVIOUS
  <2>2. AtRest(h) /\ Good(h, {}) /\ DOMAIN h.orders = 1..N
    BY <1>0, <1>5, <2>1 DEF Goes, Flow
  <2>3. PICK m \in DOMAIN h.orders : m = k + 1
    BY <1>1, <2>2
  <2>4. Goes(h, CancelPass(h, m, late)) /\ AtRest(CancelPass(h, m, late))
    BY <2>2, GoesNowhere, CancelledGoes DEF CancelPass
  <2>5. after[k + 1] = CancelPass(h, m, late) /\ k + 1 \in 0..N
    BY <1>1, <1>4, <2>1, <2>3
  <2> QED
    BY <2>1, <2>4, <2>5
<1>6. 0 \in Q
  BY <1>0, <1>1, <1>4
<1> HIDE DEF Q
<1>7. Goes(g, after[N]) /\ N \in Q
  BY <1>0, <1>1, <1>4, <1>5, <1>6, LoopGoes
<1> QED
  BY <1>2, <1>7 DEF Q

(* The best quote is a price. *)
LEMMA BestType ==
    ASSUME NEW s, ExchangeType(s), NEW side
    PROVE  Best(s, side) \in Nat
<1> DEFINE J == {j \in DOMAIN s.queue : s.queue[j].side = side}
           prices == {s.queue[i].price : i \in J}
<1>1. prices \subseteq Nat /\ IsFiniteSet(prices)
  <2>1. \A i \in DOMAIN s.queue : s.queue[i].price \in Nat
    BY ExchangeTypes DEF QueueEntry
  <2>2. IsFiniteSet(J)
    BY FS_Subset DEF ExchangeType
  <2> DEFINE m == [i \in DOMAIN s.queue |-> s.queue[i].price]
  <2>3. IsFiniteSet({m[i] : i \in J})
    <3> HIDE DEF J, m
    <3> QED
      BY <2>2, ImageIsFinite
  <2>4. prices = {m[i] : i \in J}
    OBVIOUS
  <2> QED
    BY <2>1, <2>3, <2>4
<1>2. Best(s, side) = IF prices = {} THEN None ELSE IF side = "BUY" THEN Max(prices) ELSE Min(prices)
  BY DEF Best
<1> HIDE DEF prices
<1>3. ASSUME prices # {} PROVE Max(prices) \in prices /\ Min(prices) \in prices
  <2>1. Max(prices) \in prices
    <3>1. prices \subseteq Int
      BY <1>1
    <3> QED
      BY <1>1, <1>3, <3>1, LargestExists
  <2>2. \E p \in prices : \A q \in prices : p <= q
    BY <1>1, <1>3, SmallestOne
  <2>3. Min(prices) \in prices
    BY <2>2 DEF Min
  <2> QED
    BY <2>1, <2>3
<1>4. prices # {} => Max(prices) \in Nat /\ Min(prices) \in Nat
  BY <1>1, <1>3
<1>5. None \in Nat
  BY DEF None
<1> QED
  BY <1>2, <1>4, <1>5

(* What the replay submits is an order. *)
LEMMA StyledType ==
    ASSUME NEW s, ExchangeType(s), NEW side \in {"BUY", "SELL"}, NEW qty \in Nat, NEW o \in Styled(s, side, qty)
    PROVE  o \in PaperOffer /\ o.side = side /\ o.qty = qty
<1>1. PICK price \in Nat : price = IF style = "passive" THEN Best(s, side) ELSE None
  BY BestType DEF None
<1>2. PICK type \in {"limit", "market"} : type = IF style = "passive" THEN "limit" ELSE "market"
  OBVIOUS
<1>3. o = [side |-> side, type |-> type, qty |-> qty, limit |-> price, stop |-> None, tif |-> "GTC",
           expires |-> None]
  BY <1>1, <1>2 DEF Styled
<1> QED
  BY <1>3 DEF PaperOffer, None

(* The strategy buys one lot, and only when nothing is held or on order;   *)
(* else it may only sell.                                                  *)
LEMMA SignalType ==
    ASSUME NEW s, AtRest(s), NEW signal, NEW o \in OrderForSignal(s, signal)
    PROVE  /\ o \in PaperOffer
           /\ \/ o.side = "SELL"
              \/ o.side = "BUY" /\ o.qty = OrderQuantity /\ Holds(s, 0)
<1>1. ExchangeType(s) /\ BookInv(s) /\ ExchangeInv(s, {}) /\ s.fills = {}
  BY GoodBook DEF AtRest
<1>2. s.position \in Int
  BY <1>1 DEF ExchangeType
<1>3. CASE signal = "BUY" /\ ~AnyWorking(s) /\ s.position <= 0
  <2>1. o \in Styled(s, "BUY", OrderQuantity)
    BY <1>3 DEF OrderForSignal
  <2>2. o \in PaperOffer /\ o.side = "BUY" /\ o.qty = OrderQuantity
    BY <1>1, <2>1, StyledType, ReplayAssumption
  <2>3. SumOver(Working(s, "BUY"), LAMBDA n : Remaining(s, n)) = 0
    <3>1. Working(s, "BUY") = {}
      BY <1>3 DEF AnyWorking
    <3>2. IsFiniteSet({}) /\ \A f : SumFunctionOnSet(f, {}) = 0
      BY FS_EmptySet, SumType
    <3> QED
      BY <3>1, <3>2 DEF SumOver
  <2>4. AllLeft(s, "BUY") = 0
    BY <1>1, <2>3, WorkingLeft
  <2>5. SettledPosition(s) = s.position
    BY <1>1, NothingToSettle
  <2> QED
    BY <1>2, <1>3, <2>2, <2>4, <2>5 DEF Holds
<1>4. CASE signal = "SELL" /\ ~AnyWorking(s) /\ s.position > 0
  <2>1. o \in Styled(s, "SELL", s.position)
    BY <1>4 DEF OrderForSignal
  <2>2. s.position \in Nat
    BY <1>2, <1>4
  <2> QED
    BY <1>1, <2>1, <2>2, StyledType
<1>5. CASE /\ ~(signal = "BUY" /\ ~AnyWorking(s) /\ s.position <= 0)
           /\ ~(signal = "SELL" /\ ~AnyWorking(s) /\ s.position > 0)
  BY <1>5 DEF OrderForSignal
<1> QED
  BY <1>3, <1>4, <1>5

-----------------------------------------------------------------------------
(* The exchange and its replay *)

(* What a replay may hold *)
Lot == Max({InitialPosition, OrderQuantity})

(* No passive order has waited too long. *)
NoneLate == \A p \in passive : p[2] \in Nat /\ events - p[2] <= CancelAfter

(* The invariant: the exchange is at rest between two calls, its working   *)
(* orders are covered, and a replay holds one lot.                         *)
MarketInv ==
    /\ latency \in Nat /\ events \in Nat
    /\ AtRest(x) /\ Covered(x)
    /\ part = "replay" => Holds(x, Lot) /\ NoneLate

(* A lot is a number. *)
LEMMA LotType == Lot \in Nat /\ InitialPosition <= Lot /\ OrderQuantity <= Lot
<1>1. InitialPosition \in Nat /\ OrderQuantity \in Nat
  BY ExchangeAssumption, ReplayAssumption
<1>2. Lot = IF InitialPosition >= OrderQuantity THEN InitialPosition ELSE OrderQuantity
  BY <1>1, TwoMax DEF Lot
<1> QED
  BY <1>1, <1>2

(* An exchange without orders is at rest. *)
LEMMA EmptyRests ==
    ASSUME NEW s, s = [queue |-> << >>, orders |-> << >>, stops |-> {}, fills |-> {}, inflight |-> << >>,
                       cash |-> InitialCash, position |-> InitialPosition, now |-> 0]
    PROVE  AtRest(s) /\ Covered(s) /\ Holds(s, Lot)
<1>0. IsFiniteSet({}) /\ \A f : SumFunctionOnSet(f, {}) = 0
  BY FS_EmptySet, SumType
<1>1. /\ s.queue = << >> /\ s.orders = << >> /\ s.stops = {} /\ s.fills = {} /\ s.inflight = << >>
      /\ s.cash = InitialCash /\ s.position = InitialPosition /\ s.now = 0
      /\ DOMAIN s = {"queue", "orders", "stops", "fills", "inflight", "cash", "position", "now"}
  OBVIOUS
<1>2. DOMAIN s.queue = {} /\ DOMAIN s.orders = {} /\ DOMAIN s.inflight = {}
  BY <1>1
<1>3. s.queue \in [DOMAIN s.queue -> QueueEntry] /\ s.orders \in Seq(PaperOrder)
  BY <1>1, <1>2
<1>4. InitialCash \in Nat /\ InitialPosition \in Nat
  BY ExchangeAssumption
<1>5. ExchangeType(s)
  BY <1>0, <1>1, <1>2, <1>3, <1>4 DEF ExchangeType
<1>6. ExchangeInv(s, {})
  BY <1>2, <1>5 DEF ExchangeInv, BookInv
<1>7. AtRest(s)
  BY <1>1, <1>2, <1>6 DEF AtRest, Good, FillsAside
<1>8. SettledPosition(s) = InitialPosition /\ SettledCash(s) = InitialCash
  BY <1>0, <1>1, <1>4 DEF SettledPosition, SettledCash
<1>9. AllDue(s) = 0 /\ AllLeft(s, "BUY") = 0 /\ AllLeft(s, "SELL") = 0
  BY <1>0, <1>2 DEF AllDue, AllLeft
<1> QED
  BY <1>4, <1>7, <1>8, <1>9, LotType DEF Covered, Holds

(* The invariant holds at the start. *)
LEMMA MarketInvStart == VenueInit => MarketInv
<1> SUFFICES ASSUME VenueInit PROVE MarketInv
  OBVIOUS
<1>1. AtRest(x) /\ Covered(x) /\ Holds(x, Lot)
  BY EmptyRests DEF VenueInit, Init
<1>2. latency \in Nat /\ events = 0 /\ passive = {}
  BY ExchangeAssumption DEF VenueInit, Init, ReplayInit
<1> QED
  BY <1>1, <1>2 DEF MarketInv, NoneLate

(* The next exchange is all right. *)
LEMMA NextRests ==
    ASSUME NEW h, x' = h, latency' = latency, AtRest(h), Covered(h)
    PROVE  AtRest(x)' /\ Covered(x)'
<1>1. AtRest(x)'
  BY DEF AtRest
<1>2. \A o : UnboundedOrder(o)' <=> UnboundedOrder(o)
  BY DEF UnboundedOrder
<1>3. Overspent(x)' <=> Overspent(h)
  BY <1>2 DEF Overspent
<1> QED
  BY <1>1, <1>3 DEF Covered

(* ... and holds no more. *)
LEMMA NextHolds ==
    ASSUME NEW h, x' = h, Holds(h, Lot)
    PROVE  Holds(x, Lot)'
BY DEF Holds

(* What goes stays covered. *)
LEMMA GoesCovered ==
    ASSUME NEW g, NEW h, AtRest(g), Covered(g), Goes(g, h), AtRest(h)
    PROVE  Allowed(g, 0, h)
<1>1. BookInv(g) /\ BookInv(h) /\ Flow(g, h)
  BY GoodBook DEF AtRest, Goes
<1>2. Covered(h) /\ \A M \in Int : Holds(g, M) => Holds(h, M)
  BY <1>1, FlowCovers
<1>3. \A M \in Int : M + 0 = M
  OBVIOUS
<1> QED
  BY <1>2, <1>3 DEF Allowed

(* A call of the exchange *)
LEMMA ExchangeStep ==
    ASSUME MarketInv, Next
    PROVE  AtRest(x)' /\ Covered(x)' /\ latency' = latency /\ events' \in Nat
<1>0. AtRest(x) /\ Covered(x) /\ latency \in Nat /\ events \in Nat
  BY DEF MarketInv
<1>1. ExchangeType(x) /\ x.now \in Nat
  BY <1>0, GoodBook DEF AtRest, ExchangeType
<1>2. ASSUME NEW o \in Offers, Submit(o) PROVE AtRest(x)' /\ Covered(x)' /\ latency' = latency /\ events' \in Nat
  <2>1. o \in PaperOffer
    BY ExchangeAssumption DEF PaperOffer
  <2>2. PICK h : h = Submitted(x, o)
    OBVIOUS
  <2>3. AtRest(h) /\ Covered(h)
    BY <1>0, <2>1, <2>2, SubmittedKeeps DEF Allowed
  <2>4. x' = h /\ latency' = latency /\ events' = events
    BY <1>2, <2>2 DEF Submit
  <2> QED
    BY <1>0, <2>3, <2>4, NextRests
<1>3. ASSUME NEW n \in DOMAIN x.orders, Cancel(n)
      PROVE  AtRest(x)' /\ Covered(x)' /\ latency' = latency /\ events' \in Nat
  <2>1. PICK h : h = Cancelled(x, n)
    OBVIOUS
  <2>2. Goes(x, h) /\ AtRest(h)
    BY <1>0, <2>1, CancelledGoes
  <2>3. Covered(h)
    BY <1>0, <2>2, GoesCovered DEF Allowed
  <2>4. x' = h /\ latency' = latency /\ events' = events
    BY <1>3, <2>1 DEF Cancel
  <2> QED
    BY <1>0, <2>2, <2>3, <2>4, NextRests
<1>4. ASSUME NEW e \in FeedEvents, NEW t \in {x.now, x.now + 1}, OnMarketEvent(e, t)
      PROVE  AtRest(x)' /\ Covered(x)' /\ latency' = latency /\ events' \in Nat
  <2>1. e \in FeedEvent /\ t \in Nat
    BY <1>1, ExchangeAssumption DEF FeedEvent
  <2>2. PICK h : h = Fed(x, e, t)
    OBVIOUS
  <2>3. Goes(x, h) /\ AtRest(h)
    BY <1>0, <2>1, <2>2, FedGoes
  <2>4. Covered(h)
    BY <1>0, <2>3, GoesCovered DEF Allowed
  <2>5. x' = h /\ latency' = latency /\ events' = events + 1
    BY <1>4, <2>2 DEF OnMarketEvent
  <2> QED
    BY <1>0, <2>3, <2>4, <2>5, NextRests
<1>5. ASSUME Advance(x.now + 1) PROVE AtRest(x)' /\ Covered(x)' /\ latency' = latency /\ events' \in Nat
  <2>1. PICK t \in Nat : t = x.now + 1
    BY <1>1
  <2>2. PICK h : h = AdvanceTo(x, t)
    OBVIOUS
  <2>3. Goes(x, h) /\ AtRest(h)
    BY <1>0, <2>1, <2>2, AdvanceGoes
  <2>4. Covered(h)
    BY <1>0, <2>3, GoesCovered DEF Allowed
  <2>5. x' = h /\ latency' = latency /\ events' = events
    BY <1>5, <2>1, <2>2 DEF Advance
  <2> QED
    BY <1>0, <2>3, <2>4, <2>5, NextRests
<1> QED
  BY <1>2, <1>3, <1>4, <1>5 DEF Next

(* An event of a replay: the exchange, late orders, then the strategy.     *)
LEMMA ReplayStep ==
    ASSUME MarketInv, part = "replay", ReplayNext
    PROVE  /\ AtRest(x)' /\ Covered(x)' /\ latency' = latency /\ events' \in Nat
           /\ Holds(x, Lot)' /\ NoneLate'
<1>0. /\ AtRest(x) /\ Covered(x) /\ latency \in Nat /\ events \in Nat
      /\ Holds(x, Lot) /\ NoneLate
  BY DEF MarketInv
<1>1. ExchangeType(x) /\ x.now \in Nat
  BY <1>0, GoodBook DEF AtRest, ExchangeType
<1>2. PICK e \in FeedEvents, t \in {x.now, x.now + 1}, signal \in {"BUY", "SELL", "HOLD"} :
          ReplayEvent(e, t, signal)
  BY DEF ReplayNext
<1>3. e \in FeedEvent /\ t \in Nat
  BY <1>1, ExchangeAssumption DEF FeedEvent
<1>4. PICK g : g = Fed(x, e, t)
  OBVIOUS
<1>5. Goes(x, g) /\ AtRest(g)
  BY <1>0, <1>3, <1>4, FedGoes
<1>6. Allowed(x, 0, g)
  BY <1>0, <1>5, GoesCovered
<1>7. PICK s : s = Kept(g)
  OBVIOUS
<1>8. Goes(g, s) /\ AtRest(s)
  BY <1>5, <1>7, KeptGoes
<1>9. Allowed(g, 0, s)
  BY <1>5, <1>6, <1>8, GoesCovered DEF Allowed
<1>10. Lot \in Int /\ Lot \in Nat /\ OrderQuantity \in Nat /\ OrderQuantity <= Lot /\ Lot + 0 = Lot
  BY LotType, ReplayAssumption
<1>11. Covered(s) /\ Holds(s, Lot)
  BY <1>0, <1>6, <1>9, <1>10 DEF Allowed
<1>12. latency' = latency /\ events' = events + 1 /\ style' = style /\ Follow(s, Waiting(g), signal)
  BY <1>2, <1>4, <1>7 DEF ReplayEvent, AfterEvent
<1>13. ASSUME NEW p \in Waiting(g) PROVE p[2] \in Nat /\ events' - p[2] <= CancelAfter
  <2>1. p \in passive /\ p \notin Done(g) /\ p \notin Late(g)
    BY <1>13 DEF Waiting
  <2>2. p[2] \in Nat /\ ~(events - p[2] >= CancelAfter)
    BY <1>0, <2>1 DEF NoneLate, Done, Late
  <2> QED
    BY <1>0, <1>12, <2>2, ReplayAssumption
<1>14. CASE x' = s /\ passive' = Waiting(g)
  <2>1. AtRest(x)' /\ Covered(x)'
    BY <1>8, <1>11, <1>12, <1>14, NextRests
  <2>2. Holds(x, Lot)'
    BY <1>11, <1>14, NextHolds
  <2>3. NoneLate'
    BY <1>13, <1>14 DEF NoneLate
  <2> QED
    BY <1>0, <1>12, <2>1, <2>2, <2>3
<1>15. ASSUME NEW o \in OrderForSignal(s, signal), x' = Submitted(s, o),
              passive' = IF style = "passive" THEN Waiting(g) \cup {<<Len(x'.orders), events>>} ELSE Waiting(g)
       PROVE  /\ AtRest(x)' /\ Covered(x)' /\ latency' = latency /\ events' \in Nat
              /\ Holds(x, Lot)' /\ NoneLate'
  <2>1. /\ o \in PaperOffer
        /\ \/ o.side = "SELL"
           \/ o.side = "BUY" /\ o.qty = OrderQuantity /\ Holds(s, 0)
    BY <1>8, SignalType
  <2>2. PICK k : k = IF o.side = "BUY" THEN o.qty ELSE 0
    OBVIOUS
  <2>3. PICK h : h = Submitted(s, o)
    OBVIOUS
  <2>4. Allowed(s, k, h)
    BY <1>0, <1>8, <1>11, <2>1, <2>2, <2>3, SubmittedKeeps
  <2>5. AtRest(h) /\ Covered(h) /\ \A M \in Int : Holds(s, M) => Holds(h, M + k)
    BY <2>4 DEF Allowed
  <2>6. AtRest(x)' /\ Covered(x)'
    BY <1>12, <1>15, <2>3, <2>5, NextRests
  <2>7. Holds(h, Lot)
    <3>1. CASE o.side = "SELL"
      <4>1. k = 0
        BY <2>2, <3>1
      <4> QED
        BY <1>10, <1>11, <2>5, <4>1
    <3>2. CASE o.side = "BUY" /\ o.qty = OrderQuantity /\ Holds(s, 0)
      <4>1. k = OrderQuantity /\ 0 + OrderQuantity = OrderQuantity /\ 0 \in Int
        BY <1>10, <2>2, <3>2
      <4>2. Holds(h, OrderQuantity)
        BY <2>5, <3>2, <4>1
      <4>3. BookInv(h)
        BY <2>5, GoodBook DEF AtRest
      <4>4. SettledPosition(h) \in Int /\ AllLeft(h, "BUY") \in Int
        BY <4>3, FlowNumbers, LeftNumbers
      <4> QED
        BY <1>10, <4>2, <4>4 DEF Holds
    <3> QED
      BY <2>1, <3>1, <3>2
  <2>8. Holds(x, Lot)'
    BY <1>15, <2>3, <2>7, NextHolds
  <2>9. NoneLate'
    <3>1. ASSUME NEW p \in passive' PROVE p[2] \in Nat /\ events' - p[2] <= CancelAfter
      <4>1. CASE p \in Waiting(g)
        BY <1>13, <4>1
      <4>2. CASE p = <<Len(x'.orders), events>>
        <5>1. p[2] = events
          BY <4>2
        <5> QED
          BY <1>0, <1>12, <5>1, ReplayAssumption
      <4> QED
        BY <1>15, <4>1, <4>2
    <3> QED
      BY <3>1 DEF NoneLate
  <2> QED
    BY <1>0, <1>12, <2>6, <2>8, <2>9
<1> QED
  BY <1>12, <1>14, <1>15 DEF Follow

(* Every step keeps it. *)
LEMMA MarketInvStep == MarketInv /\ [VenueNext]_venueVars => MarketInv'
<1> SUFFICES ASSUME MarketInv, [VenueNext]_venueVars PROVE MarketInv'
  OBVIOUS
<1>0. /\ AtRest(x) /\ Covered(x) /\ latency \in Nat /\ events \in Nat
      /\ part = "replay" => Holds(x, Lot) /\ NoneLate
  BY DEF MarketInv
<1>1. CASE UNCHANGED <<part, vars, replayVars>>
  <2>1. x' = x /\ latency' = latency /\ events' = events /\ passive' = passive /\ part' = part
    BY <1>1 DEF vars, replayVars
  <2>2. AtRest(x)' /\ Covered(x)'
    BY <1>0, <2>1, NextRests
  <2>3. part' = "replay" => Holds(x, Lot)' /\ NoneLate'
    BY <1>0, <2>1, NextHolds DEF NoneLate
  <2> QED
    BY <1>0, <2>1, <2>2, <2>3 DEF MarketInv
<1>2. CASE part = "exchange" /\ Next /\ UNCHANGED part
  <2>1. AtRest(x)' /\ Covered(x)' /\ latency' = latency /\ events' \in Nat
    BY <1>2, ExchangeStep
  <2> QED
    BY <1>0, <1>2, <2>1 DEF MarketInv
<1>3. CASE part = "replay" /\ ReplayNext /\ UNCHANGED part
  <2>1. /\ AtRest(x)' /\ Covered(x)' /\ latency' = latency /\ events' \in Nat
        /\ Holds(x, Lot)' /\ NoneLate'
    BY <1>3, ReplayStep
  <2> QED
    BY <1>0, <2>1 DEF MarketInv
<1> QED
  BY <1>1, <1>2, <1>3 DEF VenueNext, venueVars

(* A resting order has its place, once. *)
LEMMA MarketQueues == MarketInv => QueueAheadIsTrue
<1> SUFFICES ASSUME MarketInv, NEW n \in Orders, NEW i \in DOMAIN x.queue, IsPaper(x.queue[i], n)
             PROVE  x.orders[n].ahead = Total(x, InFront(x, i))
  BY DEF QueueAheadIsTrue
<1>1. EntryInv(x, i)
  BY GoodBook DEF MarketInv, AtRest, BookInv
<1> QED
  BY <1>1 DEF EntryInv, IsPaper

(* What works is covered. *)
LEMMA MarketCovers == MarketInv => OrdersAreCovered
<1> SUFFICES ASSUME MarketInv PROVE OrdersAreCovered
  OBVIOUS
<1>1. ExchangeInv(x, {}) /\ x.fills = {} /\ Covered(x)
  BY GoodBook DEF MarketInv, AtRest
<1>2. SellableQuantity(x) >= 0 /\ (AvailableCash(x) >= 0 \/ Overspent(x))
  BY <1>1, NothingToSettle DEF Covered
<1>3. Overspent(x) => \E n \in Orders : Unbounded(n) /\ x.orders[n].filled > 0
  BY DEF Overspent, UnboundedOrder, Unbounded, Orders
<1> QED
  BY <1>2, <1>3 DEF OrdersAreCovered, LongOnly, CashCovered

(* A replay holds one lot. *)
LEMMA MarketHolds == MarketInv => ReplayHoldsOneLot
<1> SUFFICES ASSUME MarketInv, part = "replay" PROVE ReplayHoldsOneLot
  BY DEF ReplayHoldsOneLot
<1>1. BookInv(x) /\ ExchangeInv(x, {}) /\ x.fills = {} /\ Holds(x, Lot) /\ NoneLate
  BY GoodBook DEF MarketInv, AtRest
<1>2. SettledPosition(x) = x.position
  BY <1>1, NothingToSettle
<1>3. SumOver(Working(x, "BUY"), LAMBDA n : Remaining(x, n)) = AllLeft(x, "BUY")
  BY <1>1, WorkingLeft
<1>4. x.position + SumOver(Working(x, "BUY"), LAMBDA n : Remaining(x, n)) <= Max({InitialPosition, OrderQuantity})
  <2>1. PICK sum : sum = SumOver(Working(x, "BUY"), LAMBDA n : Remaining(x, n))
    OBVIOUS
  <2>2. x.position + sum <= Max({InitialPosition, OrderQuantity})
    BY <1>1, <1>2, <1>3, <2>1 DEF Holds, Lot
  <2> QED
    BY <2>1, <2>2
<1> QED
  BY <1>1, <1>4 DEF ReplayHoldsOneLot, NoneLate

(* Every order is where its status says. *)
LEMMA MarketAccounts == MarketInv => OrdersAreAccountedFor
<1> SUFFICES ASSUME MarketInv, NEW n \in Orders
             PROVE  LET o == x.orders[n]
                    IN /\ Places(n) = CASE o.status = "SUBMITTED" -> {"flight"}
                                        [] o.status = "ACCEPTED" -> {"stops"}
                                        [] o.status \in {"QUEUED", "PARTIALLY_FILLED"} -> {"book"}
                                        [] OTHER -> {}
                       /\ Cardinality(RestsAt(x, n)) <= 1
                       /\ o.status = "PARTIALLY_FILLED" => o.filled > 0
                       /\ o.status = "QUEUED" => o.filled = 0
                       /\ o.status = "FILLED" <=> o.filled = o.qty /\ o.qty > 0
                       /\ o.tif = "FOK" /\ o.given \in {"limit", "stop_limit"} => o.filled \in {0, o.qty}
  BY DEF OrdersAreAccountedFor, WorkingIsSomewhere, FokAllOrNothing
<1>1. BookInv(x) /\ ExchangeInv(x, {}) /\ n \in DOMAIN x.orders
  BY GoodBook DEF MarketInv, AtRest, Orders
<1>2. PICK o : o = x.orders[n]
  OBVIOUS
<1>3. OrderInv(o) /\ PlaceInv(x, n)
  BY <1>1, <1>2 DEF BookInv, ExchangeInv
<1>4. /\ o.status = "SUBMITTED" <=> InFlight(x, n)
      /\ o.status = "ACCEPTED" <=> n \in x.stops
      /\ o.status \in RESTING <=> RestsAt(x, n) # {}
  BY <1>2, <1>3 DEF PlaceInv
<1>6. Cardinality(RestsAt(x, n)) <= 1
  <2>1. CASE RestsAt(x, n) = {}
    BY <2>1, FS_EmptySet
  <2>2. CASE RestsAt(x, n) # {}
    <3>1. PICK i \in DOMAIN x.queue : IsPaper(x.queue[i], n)
      BY <2>2 DEF RestsAt
    <3>2. EntryInv(x, i)
      BY <1>1 DEF BookInv
    <3>3. RestsAt(x, n) = {i}
      BY <3>1, <3>2 DEF EntryInv, IsPaper
    <3> QED
      BY <3>3, FS_Singleton
  <2> QED
    BY <2>1, <2>2
<1>7. Places(n) = CASE o.status = "SUBMITTED" -> {"flight"}
                    [] o.status = "ACCEPTED" -> {"stops"}
                    [] o.status \in {"QUEUED", "PARTIALLY_FILLED"} -> {"book"}
                    [] OTHER -> {}
  <2>1. CASE o.status = "SUBMITTED"
    BY <1>4, <2>1 DEF Places, RESTING
  <2>2. CASE o.status = "ACCEPTED"
    BY <1>4, <2>2 DEF Places, RESTING
  <2>3. CASE o.status \in {"QUEUED", "PARTIALLY_FILLED"}
    BY <1>4, <2>3 DEF Places, RESTING
  <2>4. CASE o.status \notin {"SUBMITTED", "ACCEPTED", "QUEUED", "PARTIALLY_FILLED"}
    BY <1>4, <2>4 DEF Places, RESTING
  <2> QED
    BY <2>1, <2>2, <2>3, <2>4
<1> QED
  BY <1>2, <1>3, <1>6, <1>7 DEF OrderInv

(* "Queue position is derived" (order_book.py): whatever is traded,        *)
(* cancelled, resized or replaced in front of it, the queue_ahead of a     *)
(* resting paper order is what really is in front of it - for every feed,  *)
(* every latency and every set of orders, in any order of calls.           *)
THEOREM QueuesAreTrue == VenueSpec => []QueueAheadIsTrue
<1>1. VenueInit => MarketInv
  BY MarketInvStart
<1>2. MarketInv /\ [VenueNext]_venueVars => MarketInv'
  BY MarketInvStep
<1>3. MarketInv => QueueAheadIsTrue
  BY MarketQueues
<1> QED
  BY <1>1, <1>2, <1>3, PTL DEF VenueSpec

(* Every order is where its status says, once, and a fill-or-kill order    *)
(* with a limit fills completely or not at all.                            *)
THEOREM OrdersStayAccountedFor == VenueSpec => []OrdersAreAccountedFor
<1>1. VenueInit => MarketInv
  BY MarketInvStart
<1>2. MarketInv /\ [VenueNext]_venueVars => MarketInv'
  BY MarketInvStep
<1>3. MarketInv => OrdersAreAccountedFor
  BY MarketAccounts
<1> QED
  BY <1>1, <1>2, <1>3, PTL DEF VenueSpec

(* The position covers all working sells, and the cash all working buys    *)
(* unless a buy that no estimate bounds was executed (paper_exchange.py).  *)
THEOREM OrdersStayCovered == VenueSpec => []OrdersAreCovered
<1>1. VenueInit => MarketInv
  BY MarketInvStart
<1>2. MarketInv /\ [VenueNext]_venueVars => MarketInv'
  BY MarketInvStep
<1>3. MarketInv => OrdersAreCovered
  BY MarketCovers
<1> QED
  BY <1>1, <1>2, <1>3, PTL DEF VenueSpec

(* A replay never holds and orders more than one lot, and no passive order *)
(* of it outlives cancel_after_events (replay_session).                    *)
THEOREM ReplayStaysWithinALot == VenueSpec => []ReplayHoldsOneLot
<1>1. VenueInit => MarketInv
  BY MarketInvStart
<1>2. MarketInv /\ [VenueNext]_venueVars => MarketInv'
  BY MarketInvStep
<1>3. MarketInv => ReplayHoldsOneLot
  BY MarketHolds
<1> QED
  BY <1>1, <1>2, <1>3, PTL DEF VenueSpec
=============================================================================

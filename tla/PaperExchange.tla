--------------------------- MODULE PaperExchange ----------------------------
(***************************************************************************)
(* The research exchange: backend/services/paper_exchange.py on top of     *)
(* MatchingEngine and OrderBook. One thread drives it, so a call is one    *)
(* step, but calls come in any order: orders are submitted and cancelled   *)
(* between any two events of the feed. An order is in flight for latency   *)
(* units of time before it reaches the engine.                             *)
(*                                                                         *)
(* The exchange is one record x: the engine's fields (queue, orders,       *)
(* stops, fills) and cash, position, inflight (order |-> when it arrives)  *)
(* and now, the simulation clock. orders[n].estimate is                    *)
(* _market_cost_estimate.                                                  *)
(***************************************************************************)
EXTENDS MatchingEngine

CONSTANTS Offers,            \* the orders that may be submitted
          FeedEvents,        \* events of the L2 feed
          Latencies,         \* latency_ms, in units of time
          InitialCash,
          InitialPosition,   \* set by the simulation endpoint
          MaxOrders,         \* bounds on the orders, on the events of the
          MaxEvents,         \* feed and on the clock
          MaxTime

ASSUME ExchangeAssumption ==
    /\ Offers \subseteq [side : {"BUY", "SELL"}, type : {"market", "limit", "stop", "stop_limit"},
                         qty : Nat, limit : Nat, stop : Nat, tif : {"GTC", "IOC", "FOK"},
                         expires : Nat]
    /\ FeedEvents \subseteq [type : {"ADD", "CANCEL", "MODIFY", "TRADE"}, side : {"BUY", "SELL"},
                             price : Nat \ {0}, size : Nat, id : Nat]
    /\ Latencies \subseteq Nat
    /\ InitialCash \in Nat /\ InitialPosition \in Nat
    /\ MaxOrders \in Nat /\ MaxEvents \in Nat /\ MaxTime \in Nat

VARIABLES x,
          latency,
          events     \* events of the feed so far

vars == <<x, latency, events>>

Init ==
    /\ x = [queue |-> << >>, orders |-> << >>, stops |-> {}, fills |-> {},
            inflight |-> << >>, cash |-> InitialCash, position |-> InitialPosition, now |-> 0]
    /\ latency \in Latencies
    /\ events = 0

-----------------------------------------------------------------------------
(* What the account has committed *)

WORKING == {"SUBMITTED", "ACCEPTED", "QUEUED", "PARTIALLY_FILLED"}

Working(s, side) ==
    {n \in DOMAIN s.orders : s.orders[n].side = side /\ s.orders[n].status \in WORKING}

WorstPrice(o) == IF o.limit # None THEN o.limit ELSE o.stop

Committed(s, n) ==
    LET o == s.orders[n]
    IN IF o.type = "market" THEN o.estimate ELSE Remaining(s, n) * WorstPrice(o)

SumOver(I, f(_)) == SumFunctionOnSet([i \in I |-> f(i)], I)

CommittedCash(s) == SumOver(Working(s, "BUY"), LAMBDA n : Committed(s, n))

AvailableCash(s) == s.cash - CommittedCash(s)

SellableQuantity(s) ==
    s.position - SumOver(Working(s, "SELL"), LAMBDA n : Remaining(s, n))

Asks(s) == Path(s, "BUY", None)

(* _estimate_market_buy_cost: walks the market liquidity; what it cannot   *)
(* cover is priced at the last level.                                      *)
EstimateMarketBuy(s, qty) ==
    LET path     == OfMarket(s, Asks(s))
        share(i) == Share(s, "BUY", path, qty, i)
        cost     == SumOver(path, LAMBDA i : share(i) * s.queue[i].price)
        short    == qty - SumOver(path, share)
    IN cost + short * Max({s.queue[i].price : i \in Asks(s)})

Priced(s, o) == o.side = "BUY" /\ (o.type = "market" => Asks(s) # {})

(* What a buy must be covered for. *)
BuyCost(s, o) ==
    IF o.type = "market" THEN EstimateMarketBuy(s, o.qty) ELSE o.qty * WorstPrice(o)

(* The cash committed to other orders counts too (mutant). *)
PretradeRejectedByCash(s, o) ==
    IF o.side = "BUY" THEN Priced(s, o) /\ BuyCost(s, o) > s.cash
    ELSE o.qty > SellableQuantity(s)

(* _pretrade_reject_reason *)
PretradeRejected(s, o) ==
    IF o.side = "BUY" THEN Priced(s, o) /\ BuyCost(s, o) > AvailableCash(s)
    ELSE o.qty > SellableQuantity(s)

-----------------------------------------------------------------------------
(* PaperPosition.apply_fill: what a fill adds to the quantity, whether it  *)
(* opens, adds to, reduces or turns the position                           *)
Signed(s, f) == IF s.orders[f.order].side = "BUY" THEN f.qty ELSE -f.qty

(* _settle and _apply_fill: every fill event moves cash and position. *)
Settle(s) ==
    [s EXCEPT !.cash     = @ - SumOver(s.fills, LAMBDA f : Signed(s, f) * f.price),
              !.position = @ + SumOver(s.fills, LAMBDA f : Signed(s, f)),
              !.fills    = {}]

(* _activate: the order reaches the engine. *)
Activate(s, n) ==
    [Settle(EngineSubmit(s, n)) EXCEPT !.orders[n] = [@ EXCEPT !.estimate = 0]]

InFlight(s, n) == n \in DOMAIN s.inflight

(* advance_to: orders in flight arrive, then orders expire. All have the   *)
(* same latency, so the order of arrival is that of submission.            *)
AdvanceTo(s, t) ==
    LET arrived == ForEachOrder(LAMBDA h, n : IF InFlight(h, n) /\ h.inflight[n] <= t
                                              THEN Activate([h EXCEPT !.inflight = Without(@, n)], n)
                                              ELSE h, s)
        now     == Max({s.now, t})
    IN Settle(ExpireOrders([arrived EXCEPT !.now = now], now))

-----------------------------------------------------------------------------
(* Calls *)

NewOrder(o, estimate) ==
    [side |-> o.side, type |-> o.type, qty |-> o.qty, limit |-> o.limit, stop |-> o.stop,
     tif |-> o.tif, expires |-> o.expires, given |-> o.type, status |-> "SUBMITTED",
     filled |-> 0, ahead |-> 0, estimate |-> estimate]

(* submit_order *)
Submitted(s, o) ==
    LET n        == Len(s.orders) + 1
        estimate == IF o.type = "market" /\ Priced(s, o) THEN BuyCost(s, o) ELSE 0
        h        == [s EXCEPT !.orders = Extended(@, n, NewOrder(o, estimate))]
    IN IF PretradeRejected(s, o) THEN SetStatus(h, n, "REJECTED")
       ELSE IF latency > 0
       THEN [h EXCEPT !.inflight = Extended(@, n, s.now + latency)]
       ELSE Activate(h, n)

Submit(o) ==
    /\ Len(x.orders) < MaxOrders
    /\ x' = Submitted(x, o)
    /\ UNCHANGED <<latency, events>>

(* cancel_order; of an order that is over it does nothing. *)
Cancelled(s, n) ==
    IF s.orders[n].status \notin WORKING THEN s
    ELSE IF InFlight(s, n)
    THEN [s EXCEPT !.inflight  = Without(@, n),
                   !.orders[n] = [@ EXCEPT !.status = "CANCELLED", !.estimate = 0]]
    ELSE EngineCancel(s, n, "CANCELLED")

Cancel(n) ==
    /\ x.orders[n].status \in WORKING
    /\ x' = Cancelled(x, n)
    /\ UNCHANGED <<latency, events>>

(* What a feed can say, as validate_events has it: an order id is added    *)
(* once and a trade has a size; a crossed book is let through, as          *)
(* from_events does. Later events of an order are about its level, and a   *)
(* trade names none. Aggregated reductions are such that the shares of the *)
(* level's orders are whole numbers.                                       *)
Sayable(s, e) ==
    LET named == {i \in OfMarket(s, DOMAIN s.queue) : e.id # NoId /\ s.queue[i].id = e.id}
        I     == OfMarket(s, Level(s, e.side, e.price))
        cut   == Total(s, I) - Target(s, I, e)
    IN /\ e.type \in {"ADD", "TRADE"} => named = {}
       /\ e.type = "TRADE" => e.size > 0 /\ e.id = NoId
       /\ e.type \in {"CANCEL", "MODIFY"} =>
             /\ \A i \in named : LevelOf(s.queue[i]) = <<e.side, e.price>>
             /\ named = {} /\ cut > 0 => \A i \in I : (s.queue[i].left * cut) % Total(s, I) = 0

(* on_market_event; an event with an older time leaves the clock alone,    *)
(* which is the case t = x.now.                                            *)
Fed(s, e, t) == Settle(EngineOnMarketEvent(AdvanceTo(s, t), e))

Feedable(e, t) ==
    /\ events < MaxEvents /\ t \in x.now..MaxTime
    /\ Sayable(AdvanceTo(x, t), e)

OnMarketEvent(e, t) ==
    /\ Feedable(e, t)
    /\ x' = Fed(x, e, t)
    /\ events' = events + 1
    /\ UNCHANGED latency

(* advance_to, called by itself when the feed is over. *)
Advance(t) ==
    /\ t \in (x.now + 1)..MaxTime
    /\ x' = AdvanceTo(x, t)
    /\ UNCHANGED <<latency, events>>

Next ==
    \/ \E o \in Offers : Submit(o)
    \/ \E n \in DOMAIN x.orders : Cancel(n)
    \/ \E e \in FeedEvents, t \in {x.now, x.now + 1} : OnMarketEvent(e, t)
    \/ Advance(x.now + 1)

-----------------------------------------------------------------------------
(* Properties *)

Orders == DOMAIN x.orders

(* "a sell must be covered by the position minus shares committed to       *)
(* working sells" (paper_exchange.py): the position covers all working     *)
(* sells at all times, so it never goes short, whatever is in flight,      *)
(* resting, triggered or partially filled.                                 *)
LongOnly == SellableQuantity(x) >= 0

(* A buy whose price is not bounded by what was committed for it: a stop   *)
(* order may gap through its stop, a market order in flight is executed on *)
(* another book than the one its cost was estimated on.                    *)
Unbounded(n) ==
    LET o == x.orders[n]
    IN o.side = "BUY" /\ (o.given = "stop" \/ (o.given = "market" /\ latency > 0))

(* "A buy must be covered by available cash (cash minus what working buy   *)
(* orders have committed)" (paper_exchange.py): the cash covers all        *)
(* working buys, unless an unbounded buy was executed.                     *)
CashCovered ==
    AvailableCash(x) >= 0 \/ \E n \in Orders : Unbounded(n) /\ x.orders[n].filled > 0

(* What working orders may cost or deliver is there. *)
OrdersAreCovered == LongOnly /\ CashCovered

(* "Queue position is derived" (order_book.py): queue_ahead of a resting   *)
(* paper order is at all times what really is in front of it.              *)
QueueAheadIsTrue ==
    \A n \in Orders, i \in DOMAIN x.queue :
        IsPaper(x.queue[i], n) => x.orders[n].ahead = Total(x, InFront(x, i))

Places(n) ==
    (IF InFlight(x, n) THEN {"flight"} ELSE {})
        \cup (IF n \in x.stops THEN {"stops"} ELSE {})
        \cup (IF RestsAt(x, n) # {} THEN {"book"} ELSE {})

(* A working order is in flight, waits for its stop or rests in the book,  *)
(* once and with shares left to trade; an order that is over is nowhere.   *)
WorkingIsSomewhere ==
    \A n \in Orders :
        LET o == x.orders[n]
        IN /\ Places(n) = CASE o.status = "SUBMITTED" -> {"flight"}
                            [] o.status = "ACCEPTED" -> {"stops"}
                            [] o.status \in {"QUEUED", "PARTIALLY_FILLED"} -> {"book"}
                            [] OTHER -> {}
           /\ Cardinality(RestsAt(x, n)) <= 1
           /\ o.status = "PARTIALLY_FILLED" => o.filled > 0
           /\ o.status = "QUEUED" => o.filled = 0
           /\ o.status = "FILLED" <=> o.filled = o.qty /\ o.qty > 0

(* "FOK ... fills completely or not at all" (matching_engine.py), for      *)
(* orders with a limit, also when a stop triggers them.                    *)
FokAllOrNothing ==
    \A n \in Orders :
        LET o == x.orders[n]
        IN o.tif = "FOK" /\ o.given \in {"limit", "stop_limit"} => o.filled \in {0, o.qty}

(* Every order is where its status says, with what its status says. *)
OrdersAreAccountedFor == WorkingIsSomewhere /\ FokAllOrNothing

-----------------------------------------------------------------------------
(* Why the properties hold: the inductive invariant of the exchange s. An  *)
(* order of limbo is being processed: it is nowhere for the moment.        *)

PaperTypes == {"market", "limit", "stop", "stop_limit"}
Statuses == WORKING \cup {"FILLED", "CANCELLED", "REJECTED", "EXPIRED"}

PaperOrder ==
    [side : {"BUY", "SELL"}, type : PaperTypes, qty : Nat, limit : Nat, stop : Nat,
     tif : {"GTC", "IOC", "FOK"}, expires : Nat, given : PaperTypes, status : Statuses,
     filled : Nat, ahead : Nat, estimate : Nat]

QueueEntry ==
    [owner : {"MARKET", "PAPER"}, id : Nat, side : {"BUY", "SELL"}, price : Nat, left : Nat]

FillEvent == [order : Nat, price : Nat, qty : Nat, entry : Nat]

ExchangeType(s) ==
    /\ DOMAIN s = {"queue", "orders", "stops", "fills", "inflight", "cash", "position", "now"}
    /\ IsFiniteSet(DOMAIN s.queue) /\ DOMAIN s.queue \subseteq Nat
    /\ s.queue \in [DOMAIN s.queue -> QueueEntry]
    /\ s.orders \in Seq(PaperOrder)
    /\ IsFiniteSet(s.fills) /\ s.fills \subseteq FillEvent
    /\ \A f \in s.fills : f.order \in DOMAIN s.orders
    /\ s.stops \subseteq DOMAIN s.orders /\ DOMAIN s.inflight \subseteq DOMAIN s.orders
    /\ s.cash \in Int /\ s.position \in Int /\ s.now \in Nat

RESTING == {"QUEUED", "PARTIALLY_FILLED"}

(* What an order was filled goes with its status. *)
OrderInv(o) ==
    /\ o.filled <= o.qty
    /\ o.status = "FILLED" <=> o.filled = o.qty /\ o.qty > 0
    /\ o.status \in {"SUBMITTED", "ACCEPTED", "QUEUED", "REJECTED"} => o.filled = 0
    /\ o.status = "PARTIALLY_FILLED" => o.filled > 0
    /\ \/ o.type = o.given
       \/ o.given = "stop" /\ o.type = "market"
       \/ o.given = "stop_limit" /\ o.type = "limit"
    /\ o.status = "SUBMITTED" => o.type = o.given
    /\ o.tif = "FOK" /\ o.given \in {"limit", "stop_limit"} => o.filled \in {0, o.qty}

(* Paper order o may rest as the entry e. *)
MayRest(o, e) ==
    /\ o.side = e.side /\ o.limit = e.price /\ o.limit # None
    /\ o.type = "limit" /\ o.tif = "GTC"

(* An entry of the book has shares left; if it is a paper order, it is     *)
(* there once, with its place in the queue.                                *)
EntryInv(s, i) ==
    LET e == s.queue[i]
    IN /\ e.owner = "MARKET" => e.left > 0
       /\ e.owner = "PAPER" =>
             /\ e.id \in DOMAIN s.orders
             /\ MayRest(s.orders[e.id], e)
             /\ s.orders[e.id].status \in RESTING /\ s.orders[e.id].filled < s.orders[e.id].qty
             /\ s.orders[e.id].ahead = Total(s, InFront(s, i))
             /\ RestsAt(s, e.id) = {i}

BookInv(s) ==
    /\ ExchangeType(s)
    /\ \A n \in DOMAIN s.orders : OrderInv(s.orders[n])
    /\ \A i \in DOMAIN s.queue : EntryInv(s, i)

(* An order is where its status says. *)
PlaceInv(s, n) ==
    LET o == s.orders[n]
    IN /\ o.status = "SUBMITTED" <=> InFlight(s, n)
       /\ o.status = "ACCEPTED" <=> n \in s.stops
       /\ n \in s.stops => o.type \in {"stop", "stop_limit"} /\ ~Malformed(o)
       /\ o.status \in RESTING <=> RestsAt(s, n) # {}

Nowhere(s, n) == ~InFlight(s, n) /\ n \notin s.stops /\ RestsAt(s, n) = {}

ExchangeInv(s, limbo) ==
    /\ BookInv(s)
    /\ \A n \in DOMAIN s.orders : IF n \in limbo THEN Nowhere(s, n) ELSE PlaceInv(s, n)
=============================================================================

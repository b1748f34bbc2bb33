--------------------------- MODULE MatchingEngine ---------------------------
(***************************************************************************)
(* The matching engine of the research exchange:                           *)
(* backend/services/matching_engine.py. A state g is a book with two more  *)
(* fields:                                                                 *)
(*   stops   _pending_stops, a set of paper order ids: they arrive in the  *)
(*           order of their ids, since all orders have the same latency    *)
(*   fills   the fill events of the present call. An event is [order,      *)
(*           price, qty, entry]: entry is the queue entry that gave the    *)
(*           liquidity, which tells equal executions apart.                *)
(* Of the events only fills matter to anyone; the others are a log.        *)
(***************************************************************************)
EXTENDS OrderBook

(* The loop of the state g over the paper orders, in the order of their    *)
(* ids: op(h, n) is the pass for order n.                                  *)
ForEachOrder(op(_, _), g) ==
    LET after[n \in 0..Len(g.orders)] == IF n = 0 THEN g ELSE op(after[n - 1], n)
    IN after[Len(g.orders)]

(* The fills of queue entries, for order n or for the paper orders hit *)
FillsOf(g, n, shares, I) ==
    {[order |-> IF n = None THEN g.queue[i].id ELSE n, price |-> g.queue[i].price,
      qty |-> shares[i], entry |-> i] : i \in I}

(* _take: the order executes against market liquidity only. *)
Taken(g, n, shares) ==
    [Execute(g, shares) EXCEPT
        !.orders[n] = IF DOMAIN shares = {} THEN @
                      ELSE RecordFill(@, SumFunctionOnSet(shares, DOMAIN shares)),
        !.fills = @ \cup FillsOf(g, n, shares, DOMAIN shares)]

Take(g, n, limit) ==
    Taken(g, n, Shares(g, g.orders[n].side, OfMarket(g, Path(g, g.orders[n].side, limit)),
                       Remaining(g, n)))

(* _available *)
Available(g, side, limit) == Total(g, OfMarket(g, Path(g, side, limit)))

(* What becomes of a market order that was executed as far as it could *)
EndMarket(g, n) ==
    IF g.orders[n].filled = 0 THEN SetStatus(g, n, "REJECTED")
    ELSE IF Remaining(g, n) > 0 THEN SetStatus(g, n, "CANCELLED")
    ELSE g

ExecuteMarket(g, n) == EndMarket(Take(g, n, None), n)

FokRefused(g, n) ==
    LET o == g.orders[n]
    IN o.tif = "FOK" /\ Available(g, o.side, o.limit) < o.qty

(* _is_marketable looks at the best opposite price, paper orders included. *)
CrossesTheBook(g, n) == Path(g, g.orders[n].side, g.orders[n].limit) # {}

(* ... and of a limit order *)
EndLimit(g, n) ==
    IF Remaining(g, n) = 0 THEN g
    ELSE IF g.orders[n].tif \in {"IOC", "FOK"} THEN SetStatus(g, n, "CANCELLED")
    ELSE AddPaper(g, n)

ExecuteLimit(g, n) ==
    IF FokRefused(g, n) THEN SetStatus(g, n, "REJECTED")
    ELSE EndLimit(IF CrossesTheBook(g, n) THEN Take(g, n, g.orders[n].limit) ELSE g, n)

(* Prices off the tick grid are refused too; here all prices are ticks. *)
Malformed(o) ==
    \/ o.qty <= 0
    \/ o.type \in {"limit", "stop_limit"} /\ o.limit = None
    \/ o.type \in {"stop", "stop_limit"} /\ o.stop = None

EngineSubmit(g, n) ==
    LET o == g.orders[n]
        a == SetStatus(g, n, "ACCEPTED")
    IN IF Malformed(o) THEN SetStatus(g, n, "REJECTED")
       ELSE IF o.type = "market" THEN ExecuteMarket(a, n)
       ELSE IF o.type = "limit" THEN ExecuteLimit(a, n)
       ELSE [a EXCEPT !.stops = @ \cup {n}]

(* cancel_order of the engine: an untriggered stop or a resting order. *)
EngineCancel(g, n, status) ==
    IF n \in g.stops
    THEN [SetStatus(g, n, status) EXCEPT !.stops = @ \ {n}]
    ELSE IF RestsAt(g, n) # {} THEN CancelResting(g, n, status)
    ELSE g

(* TRADE: a print consumes the passive side through every level at or      *)
(* better than its price, paper orders included.                           *)
Traded(g, shares) ==
    [Execute(g, shares) EXCEPT
        !.fills = @ \cup FillsOf(g, None, shares,
                                  {i \in DOMAIN shares : g.queue[i].owner = "PAPER"})]

ApplyTrade(g, e) == Traded(g, Shares(g, e.side, Path(g, e.side, e.price), e.size))

Triggered(o, price) == IF o.side = "BUY" THEN price >= o.stop ELSE price <= o.stop

SetType(g, n, type) == [g EXCEPT !.orders[n] = [@ EXCEPT !.type = type]]

Trigger(g, n) ==
    IF g.orders[n].type = "stop" THEN ExecuteMarket(SetType(g, n, "market"), n)
    ELSE ExecuteLimit(SetType(g, n, "limit"), n)

(* A triggered stop stays on the list (mutant of CheckStopTriggers). *)
CheckStopTriggersKept(g, price) ==
    ForEachOrder(LAMBDA h, n : IF n \in h.stops /\ Triggered(h.orders[n], price) THEN Trigger(h, n) ELSE h, g)

(* _check_stop_triggers: one stop after the other, on the book its         *)
(* predecessors left.                                                      *)
CheckStopTriggers(g, price) ==
    ForEachOrder(LAMBDA h, n : IF n \in h.stops /\ Triggered(h.orders[n], price)
                               THEN Trigger([h EXCEPT !.stops = @ \ {n}], n) ELSE h, g)

EngineOnMarketEvent(g, e) ==
    IF e.type = "TRADE" THEN CheckStopTriggers(ApplyTrade(g, e), e.price)
    ELSE ApplyLiquidityEvent(g, e)

Expired(o, now) == o.expires # None /\ now >= o.expires

(* expire_orders: resting orders and untriggered stops *)
ExpireOrders(g, now) ==
    ForEachOrder(LAMBDA h, n : IF Expired(h.orders[n], now) THEN EngineCancel(h, n, "EXPIRED") ELSE h, g)
=============================================================================

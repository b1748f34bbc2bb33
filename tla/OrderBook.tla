----------------------------- MODULE OrderBook ------------------------------
(***************************************************************************)
(* The limit order book of the research exchange:                          *)
(* backend/services/order_book.py, as operators on its state. Prices are   *)
(* whole ticks, sizes whole shares.                                        *)
(*                                                                         *)
(* A state b is a record with at least the fields                          *)
(*   queue   ticket |-> resting order. Whoever joins gets a higher ticket  *)
(*           than all who are there: the FIFO of a price level are the     *)
(*           entries at that price in the order of their tickets, so the   *)
(*           dictionaries and sorted lists of levels need no state of      *)
(*           their own. An entry of owner MARKET carries its size; one of  *)
(*           owner PAPER refers to b.orders.                               *)
(*   orders  the paper orders in the order of their ids; ahead is          *)
(*           queue_ahead.                                                  *)
(***************************************************************************)
EXTENDS Integers, Sequences, FiniteSets, FiniteSetsExt, Functions

None == 0    \* no price, no expiry
NoId == 0    \* a feed event without order id

(* The function f with value v for k *)
Extended(f, k, v) == [i \in DOMAIN f \cup {k} |-> IF i = k THEN v ELSE f[i]]

Without(f, k) == Restrict(f, DOMAIN f \ {k})

(* The queue that entry e has joined at the end *)
Joined(queue, e) == Extended(queue, 1 + Max(DOMAIN queue \cup {0}), e)

ACTIVE == {"ACCEPTED", "QUEUED", "PARTIALLY_FILLED"}

Opposite(side) == IF side = "BUY" THEN "SELL" ELSE "BUY"

Remaining(b, n) == b.orders[n].qty - b.orders[n].filled

Left(b, i) == IF b.queue[i].owner = "PAPER" THEN Remaining(b, b.queue[i].id)
              ELSE b.queue[i].left

Total(b, I) == SumFunctionOnSet([i \in I |-> Left(b, i)], I)

LevelOf(e) == <<e.side, e.price>>

Level(b, side, price) == {i \in DOMAIN b.queue : LevelOf(b.queue[i]) = <<side, price>>}

OfMarket(b, I) == {i \in I : b.queue[i].owner = "MARKET"}

InFront(b, i) == {j \in DOMAIN b.queue : j < i /\ LevelOf(b.queue[j]) = LevelOf(b.queue[i])}

IsPaper(e, n) == e.owner = "PAPER" /\ e.id = n

(* Where paper order n rests: one index, or none. *)
RestsAt(b, n) == {i \in DOMAIN b.queue : IsPaper(b.queue[i], n)}

(* record_fill; the average price is not kept. *)
RecordFill(o, qty) ==
    [o EXCEPT !.filled = @ + qty,
              !.status = IF o.filled + qty = o.qty THEN "FILLED" ELSE "PARTIALLY_FILLED"]

(* Queue positions are left as they are (mutant of Refresh). *)
RefreshNothing(b, levels) == b

(* refresh_queue_positions of the given levels. *)
Refresh(b, levels) ==
    LET at(n) == {i \in RestsAt(b, n) : LevelOf(b.queue[i]) \in levels}
        refreshed(n) ==
            IF at(n) = {} THEN b.orders[n]
            ELSE [b.orders[n] EXCEPT !.ahead = Total(b, InFront(b, CHOOSE i \in at(n) : TRUE))]
    IN [b EXCEPT !.orders = [n \in DOMAIN b.orders |-> refreshed(n)]]

(* _prune of the given levels: exhausted and inactive orders leave. *)
Prune(b, levels) ==
    LET stays(i) == \/ LevelOf(b.queue[i]) \notin levels
                    \/ /\ Left(b, i) > 0
                       /\ b.queue[i].owner = "PAPER" => b.orders[b.queue[i].id].status \in ACTIVE
    IN Refresh([b EXCEPT !.queue = Restrict(@, {i \in DOMAIN @ : stays(i)})], levels)

(* add_order *)
AddMarket(b, id, side, price, size) ==
    [b EXCEPT !.queue = Joined(@, [owner |-> "MARKET", id |-> id, side |-> side,
                                   price |-> price, left |-> size])]

AddPaper(b, n) ==
    LET o == b.orders[n]
    IN [b EXCEPT !.queue = Joined(@, [owner |-> "PAPER", id |-> n, side |-> o.side,
                                      price |-> o.limit, left |-> 0]),
                 !.orders[n] = [@ EXCEPT !.ahead  = Total(b, Level(b, o.side, o.limit)),
                                         !.status = IF o.filled = 0 THEN "QUEUED" ELSE o.status]]

SetStatus(b, n, status) == [b EXCEPT !.orders[n] = [@ EXCEPT !.status = status]]

(* cancel_order of a resting order. *)
CancelResting(b, n, status) ==
    Prune(SetStatus(b, n, status), {LevelOf(b.queue[i]) : i \in RestsAt(b, n)})

-----------------------------------------------------------------------------
(* Execution. An aggressor walks the opposite side best price first, first *)
(* in first out within a level, up to its limit.                           *)

Within(side, limit, price) ==
    limit = None \/ IF side = "BUY" THEN price <= limit ELSE price >= limit

Path(b, side, limit) ==
    {i \in DOMAIN b.queue : /\ b.queue[i].side = Opposite(side)
                            /\ Within(side, limit, b.queue[i].price)}

(* Entry j is reached before entry i by an aggressor of the given side. *)
Earlier(b, side, j, i) ==
    LET p == b.queue[j].price
        q == b.queue[i].price
    IN IF p = q THEN j < i ELSE IF side = "BUY" THEN p < q ELSE p > q

(* How much of qty entry i of the path gets. *)
Share(b, side, path, qty, i) ==
    LET sooner == Total(b, {j \in path : Earlier(b, side, j, i)})
    IN Min({Left(b, i), Max({0, qty - sooner})})

(* What the entries of the path that get something get. *)
Shares(b, side, path, qty) ==
    [i \in {j \in path : Share(b, side, path, qty, j) > 0} |-> Share(b, side, path, qty, i)]

(* The book after share, a function on the entries that are hit, was       *)
(* executed. A level that was walked and not hit has nothing to prune.     *)
Execute(b, share) ==
    LET hit == DOMAIN share
        paper(n) == {i \in hit : IsPaper(b.queue[i], n)}
        reduced(i) == IF i \in hit /\ b.queue[i].owner = "MARKET"
                      THEN [b.queue[i] EXCEPT !.left = @ - share[i]] ELSE b.queue[i]
        filled(n)  == IF paper(n) = {} THEN b.orders[n]
                      ELSE RecordFill(b.orders[n], share[CHOOSE i \in paper(n) : TRUE])
    IN Prune([b EXCEPT !.queue  = [i \in DOMAIN b.queue |-> reduced(i)],
                       !.orders = [n \in DOMAIN b.orders |-> filled(n)]],
             {LevelOf(b.queue[i]) : i \in hit})

-----------------------------------------------------------------------------
(* apply_market_event: ADD, CANCEL and MODIFY. TRADE is MatchingEngine's.  *)

(* _reduce_market: spread over the level's market orders in proportion to  *)
(* their size.                                                             *)
ReduceMarket(b, I, amount) ==
    LET reduced(i) == IF i \in I THEN [b.queue[i] EXCEPT !.left = @ - (@ * amount) \div Total(b, I)]
                      ELSE b.queue[i]
    IN [b EXCEPT !.queue = [i \in DOMAIN b.queue |-> reduced(i)]]

SetLeft(b, i, size) == [b EXCEPT !.queue[i] = [@ EXCEPT !.left = size]]

(* The event names an order of the level: a decrease keeps its priority,   *)
(* an increase loses it.                                                   *)
ChangeKnown(b, i, e) ==
    IF e.type = "CANCEL" THEN SetLeft(b, i, Max({0, Left(b, i) - e.size}))
    ELSE IF e.size <= Left(b, i) THEN SetLeft(b, i, e.size)
    ELSE [b EXCEPT !.queue = Joined(Without(@, i), [@[i] EXCEPT !.left = e.size])]

(* The level's market liquidity after an aggregated CANCEL or MODIFY. *)
Target(b, I, e) == IF e.type = "CANCEL" THEN Max({0, Total(b, I) - e.size}) ELSE e.size

ChangeLevel(b, I, e) ==
    LET current == Total(b, I)
        target  == Target(b, I, e)
    IN IF target < current THEN ReduceMarket(b, I, current - target)
       ELSE IF target > current
            THEN AddMarket(b, e.id, e.side, e.price, target - current)
            ELSE b

Known(b, e) ==
    {i \in OfMarket(b, Level(b, e.side, e.price)) : e.id # NoId /\ b.queue[i].id = e.id}

ApplyLiquidityEvent(b, e) ==
    LET level == Level(b, e.side, e.price)
        known == Known(b, e)
    IN IF e.type = "ADD" \/ (e.type = "MODIFY" /\ level = {}) THEN
            IF e.size > 0 THEN AddMarket(b, e.id, e.side, e.price, e.size) ELSE b
       ELSE IF level = {} THEN b
       ELSE Prune(IF known # {} THEN ChangeKnown(b, CHOOSE i \in known : TRUE, e)
                  ELSE ChangeLevel(b, OfMarket(b, level), e),
                  {<<e.side, e.price>>})
=============================================================================

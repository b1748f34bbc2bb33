----------------------------- MODULE FillRules ------------------------------
(***************************************************************************)
(* The paper broker's fill rules: simulate_fill and                        *)
(* check_pending_limit_fill of backend/services/trading_service.py,        *)
(* stop_triggered, _actionable and the dispatch of process_open_orders of  *)
(* backend/services/paper_broker.py.                                       *)
(*                                                                         *)
(* Prices are positive integers in tenths of a cent, 0 stands for None.    *)
(* Python's round() sees binary floats, so a price half-way between two    *)
(* cents may go either way: a rounded price is a set of outcomes. An empty *)
(* set of fill prices means that the order rests.                          *)
(***************************************************************************)
EXTENDS Integers

NoPrice == 0
Dollar  == 1000
Cent    == 10

Sides      == {"buy", "sell"}
OrderTypes == {"market", "limit", "stop", "stop_limit"}

(* round(p, 6 if p < 1 else 2); the unit is coarser than six decimals. *)
Rounded(p) ==
    IF p < Dollar THEN {p}
    ELSE {c \in (p - Cent \div 2)..(p + Cent \div 2) : c % Cent = 0}

StopTriggered(side, stop, last) == IF side = "buy" THEN last >= stop ELSE last <= stop

Marketable(side, limit, last) == IF side = "buy" THEN last <= limit ELSE last >= limit

Lower(a, b)  == IF a <= b THEN a ELSE b
Higher(a, b) == IF a >= b THEN a ELSE b

BetterPrice(side, limit, last) ==
    IF side = "buy" THEN Lower(last, limit) ELSE Higher(last, limit)

(* The fill prices of an order that is placed, or of a stop order swept. *)
SimulateFill(o, last) ==
    CASE o.type = "market" -> {last}
      [] o.type \in {"stop", "stop_limit"} /\ ~StopTriggered(o.side, o.stop, last) -> {}
      [] o.type = "stop" /\ StopTriggered(o.side, o.stop, last) -> {last}
      [] o.type = "limit" \/ (o.type = "stop_limit" /\ StopTriggered(o.side, o.stop, last)) ->
            IF o.limit = NoPrice THEN {last}
            ELSE IF Marketable(o.side, o.limit, last)
                 THEN Rounded(BetterPrice(o.side, o.limit, last))
                 ELSE {}

CheckPendingLimitFill(side, limit, last) ==
    IF Marketable(side, limit, last) THEN Rounded(BetterPrice(side, limit, last)) ELSE {}

HasLimit(o) == o.type = "limit" /\ o.limit # NoPrice
HasStop(o)  == o.type \in {"stop", "stop_limit"} /\ o.stop # NoPrice

(* process_open_orders: what one resting order fills at. *)
SweepFill(o, last) ==
    IF HasLimit(o) THEN CheckPendingLimitFill(o.side, o.limit, last)
    ELSE IF HasStop(o) THEN SimulateFill(o, last)
    ELSE {last}

(* A triggered stop-limit that is not marketable becomes a limit order. *)
Converts(o, last) ==
    /\ HasStop(o) /\ SimulateFill(o, last) = {}
    /\ o.type = "stop_limit"
    /\ StopTriggered(o.side, o.stop, last)

(* _actionable: the resting orders the sweep loads at price last. *)
Actionable(o, last) ==
    \/ HasLimit(o) /\ IF o.side = "buy" THEN o.limit >= last ELSE o.limit <= last
    \/ HasStop(o) /\ IF o.side = "buy" THEN o.stop <= last ELSE o.stop >= last
    \/ ~HasLimit(o) /\ ~HasStop(o)
=============================================================================

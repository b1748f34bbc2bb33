---------------------------- MODULE RestingOrder ----------------------------
(***************************************************************************)
(* One order of the paper broker from its placement (the fill decision at  *)
(* the end of place_order in backend/main.py) through the sweeps of        *)
(* process_open_orders while the market moves. The ledger is PaperBroker's *)
(* subject; here only the fill rules decide.                               *)
(***************************************************************************)
EXTENDS FillRules

CONSTANTS Prices      \* the prices the market and the order's fields take

ASSUME PricesAssumption == Prices \subseteq Nat \ {0}

VARIABLES order,      \* [side, type, limit, stop]; type may change once
          ioc,        \* time_in_force is ioc
          last,       \* the last live price
          status,     \* "new", then the order's status
          fill,       \* the fill price, NoPrice before
          triggered   \* history: some sweep or the placement saw the stop triggered

restVars == <<order, ioc, last, status, fill, triggered>>

Given(type) == {o \in [side : Sides, type : {type}, limit : Prices \cup {NoPrice},
                       stop : Prices \cup {NoPrice}] :
                  /\ type \in {"limit", "stop_limit"} => o.limit # NoPrice
                  /\ type \in {"stop", "stop_limit"} => o.stop # NoPrice}

(* place_order refuses a limit order without limit_price and a stop order  *)
(* without stop_price; it lets the other price pass unused.                *)
RestInit ==
    /\ order \in UNION {Given(type) : type \in OrderTypes}
    /\ ioc \in BOOLEAN
    /\ last \in Prices
    /\ status = "new" /\ fill = NoPrice /\ triggered = FALSE

Fill(prices) ==
    /\ fill' \in prices
    /\ status' = "FILLED"

SeesTrigger == order.type = "stop_limit" /\ StopTriggered(order.side, order.stop, last)

(* The order is left as a stop-limit order (mutant of Place). *)
PlaceUnconverted ==
    LET prices == SimulateFill(order, last)
    IN /\ status = "new"
       /\ \/ Fill(prices)
          \/ prices = {} /\ status' = (IF ioc THEN "EXPIRED" ELSE "ACCEPTED") /\ UNCHANGED fill
       /\ triggered' = SeesTrigger
       /\ UNCHANGED <<order, ioc, last>>

(* The end of place_order with a live quote. *)
Place ==
    LET prices == SimulateFill(order, last)
    IN /\ status = "new"
       /\ \/ Fill(prices) /\ UNCHANGED order
          \/ /\ prices = {} /\ ioc
             /\ status' = "EXPIRED"
             /\ UNCHANGED <<order, fill>>
          \/ /\ prices = {} /\ ~ioc
             /\ order' = IF SeesTrigger THEN [order EXCEPT !.type = "limit"] ELSE order
             /\ status' = "ACCEPTED"
             /\ UNCHANGED fill
       /\ triggered' = SeesTrigger
       /\ UNCHANGED <<ioc, last>>

(* The end of place_order with a stale quote: the order rests untested; a  *)
(* market order was refused.                                               *)
PlaceStale ==
    /\ status = "new" /\ order.type # "market"
    /\ status' = IF ioc THEN "EXPIRED" ELSE "ACCEPTED"
    /\ UNCHANGED <<order, ioc, last, fill, triggered>>

(* One sweep over this order. *)
Sweep ==
    /\ status = "ACCEPTED" /\ Actionable(order, last)
    /\ \/ Fill(SweepFill(order, last)) /\ UNCHANGED order
       \/ /\ Converts(order, last)
          /\ order' = [order EXCEPT !.type = "limit"]
          /\ UNCHANGED <<status, fill>>
    /\ triggered' = (triggered \/ SeesTrigger)
    /\ UNCHANGED <<ioc, last>>

Trade(p) ==
    /\ p # last /\ last' = p
    /\ UNCHANGED <<order, ioc, status, fill, triggered>>

RestNext == Place \/ PlaceStale \/ Sweep \/ \E p \in Prices : Trade(p)

-----------------------------------------------------------------------------
(* The SQL of _actionable selects exactly the resting orders the sweep     *)
(* loop acts on: none it would fill or convert is left out, none is loaded *)
(* for nothing.                                                            *)
ActionableIsExact ==
    status = "ACCEPTED" =>
        (Actionable(order, last) <=> SweepFill(order, last) # {} \/ Converts(order, last))

(* A stop-limit order whose stop was once seen triggered is a live limit   *)
(* order from then on: whenever its limit is marketable, a sweep can fill  *)
(* it, wherever the price is relative to the stop.                         *)
TriggerIsKept ==
    status = "ACCEPTED" /\ triggered /\ Marketable(order.side, order.limit, last) =>
        Actionable(order, last) /\ SweepFill(order, last) # {}

(* Placing a limit order and sweeping it apply one rule: at any price, the *)
(* order fills on arrival exactly when it would fill while resting, at the *)
(* same price.                                                             *)
PlacementAgreesWithSweep ==
    order.type = "limit" => SimulateFill(order, last) = SweepFill(order, last)

(* A filled order with a limit was executed no worse than its limit, up to *)
(* the rounding of the price to cents: a limit between two cents may be    *)
(* crossed by up to half a cent, since simulate_fill rounds last.          *)
LimitHoldsToHalfACent ==
    status = "FILLED" /\ order.type \in {"limit", "stop_limit"} =>
        IF order.side = "buy" THEN fill <= order.limit + Cent \div 2
                              ELSE fill >= order.limit - Cent \div 2

(* What holds of the order between two steps: its type's price is given, a *)
(* market order never rests, and a resting order whose stop was triggered  *)
(* has become a limit order.                                               *)
RestInv ==
    /\ order \in [side : Sides, type : OrderTypes, limit : Nat, stop : Nat]
    /\ order.type \in {"limit", "stop_limit"} => order.limit # NoPrice
    /\ order.type \in {"stop", "stop_limit"} => order.stop # NoPrice
    /\ last \in Nat \ {0}
    /\ triggered \in BOOLEAN /\ (status = "new" => ~triggered)
    /\ status = "ACCEPTED" => order.type # "market" /\ (triggered => order.type = "limit")
    /\ LimitHoldsToHalfACent

(* The four rules above, for a resting order in any market *)
FillsByTheRules ==
    ActionableIsExact /\ TriggerIsKept /\ PlacementAgreesWithSweep /\ LimitHoldsToHalfACent
=============================================================================

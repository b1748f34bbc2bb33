------------------------------ MODULE L2Replay ------------------------------
(***************************************************************************)
(* replay_session of backend/services/l2_event_replay.py: the events of a  *)
(* stream go through the paper exchange, and every few events a strategy   *)
(* is consulted whose signals become paper orders. One pass of its loop is *)
(* one step; the strategy may answer anything.                             *)
(***************************************************************************)
EXTENDS PaperExchange

CONSTANTS SnapshotInterval,  \* events between two snapshots
          WarmupEvents,      \* events before the strategy is consulted
          CancelAfter,       \* cancel_after_events
          OrderQuantity

(* What the request's schema lets through (schemas.py) *)
ASSUME ReplayAssumption ==
    SnapshotInterval \in Nat \ {0} /\ WarmupEvents \in Nat /\ CancelAfter \in Nat \ {0} /\ OrderQuantity \in Nat \ {0}

VARIABLES style,     \* order_style: "aggressive" or "passive"
          passive    \* working: <<passive order, the event it was submitted at>>

replayVars == <<style, passive>>

ReplayInit == style \in {"aggressive", "passive"} /\ passive = {}

Best(s, side) ==
    LET prices == {s.queue[i].price : i \in {j \in DOMAIN s.queue : s.queue[j].side = side}}
    IN IF prices = {} THEN None ELSE IF side = "BUY" THEN Max(prices) ELSE Min(prices)

AnyWorking(s) == Working(s, "BUY") \cup Working(s, "SELL") # {}

(* An order of the style at the best quote, if there is one *)
Styled(s, side, qty) ==
    LET price == IF style = "passive" THEN Best(s, side) ELSE None
    IN IF style = "passive" /\ price = None THEN {}
       ELSE {[side |-> side, type |-> IF style = "passive" THEN "limit" ELSE "market",
              qty |-> qty, limit |-> price, stop |-> None, tif |-> "GTC", expires |-> None]}

(* Follows a signal while an order works (mutant of OrderForSignal). *)
OrderForSignalAlways(s, signal) ==
    CASE signal = "BUY" /\ s.position <= 0 -> Styled(s, "BUY", OrderQuantity)
      [] signal = "SELL" /\ s.position > 0 -> Styled(s, "SELL", s.position)
      [] OTHER -> {}

(* _order_for_signal: a buy when flat, a sell of all that is held, and     *)
(* nothing while an order works.                                           *)
OrderForSignal(s, signal) ==
    CASE signal = "BUY" /\ ~AnyWorking(s) /\ s.position <= 0 -> Styled(s, "BUY", OrderQuantity)
      [] signal = "SELL" /\ ~AnyWorking(s) /\ s.position > 0 -> Styled(s, "SELL", s.position)
      [] OTHER -> {}

(* Passive orders that have waited for CancelAfter events are cancelled. *)
Late(s) == {p \in passive : s.orders[p[1]].status \in WORKING /\ events - p[2] >= CancelAfter}

Done(s) == {p \in passive : s.orders[p[1]].status \notin WORKING}

Consulted == (events + 1) % SnapshotInterval = 0 /\ events >= WarmupEvents

(* Late orders are cancelled. *)
Kept(s) ==
    LET late == {p[1] : p \in Late(s)}
    IN ForEachOrder(LAMBDA h, n : IF n \in late THEN Cancelled(h, n) ELSE h, s)

Waiting(s) == passive \ (Done(s) \cup Late(s))

(* The strategy's signal becomes an order, if any. *)
Follow(s, waiting, signal) ==
    LET orders == IF Consulted THEN OrderForSignal(s, signal) ELSE {}
    IN \/ orders = {} /\ x' = s /\ passive' = waiting
       \/ \E o \in orders :
             /\ x' = Submitted(s, o)
             /\ passive' = IF style = "passive" THEN waiting \cup {<<Len(x'.orders), events>>}
                           ELSE waiting

AfterEvent(s, signal) == Follow(Kept(s), Waiting(s), signal)

(* One event of the stream: the exchange, late orders, then the strategy *)
ReplayEvent(e, t, signal) ==
    /\ Feedable(e, t)
    /\ AfterEvent(Fed(x, e, t), signal)
    /\ events' = events + 1
    /\ UNCHANGED <<latency, style>>

ReplayNext ==
    \E e \in FeedEvents, t \in {x.now, x.now + 1}, signal \in {"BUY", "SELL", "HOLD"} :
        ReplayEvent(e, t, signal)
=============================================================================

---------------------------- MODULE PaperBroker -----------------------------
(***************************************************************************)
(* One user's cash account at the paper broker: the order endpoints of     *)
(* backend/main.py (place_order, cancel_order, the sweeper), the ledger of *)
(* backend/services/paper_broker.py, the positions projection of           *)
(* backend/services/portfolio_service.py and the idempotency records of    *)
(* backend/services/order_security.py. The user trades one asset. Request  *)
(* r submits order r; requests run concurrently, each step one database    *)
(* transaction. Amounts are quantity times price, in FillRules' unit.      *)
(*                                                                         *)
(* fill_order first updates the order row, stamping filled_at, and then    *)
(* updates or locks the account row. The two statements are steps of their *)
(* own: in between the fill holds the order row's lock only.               *)
(*                                                                         *)
(* Where a request is:                                                     *)
(*   new        not received yet                                           *)
(*   observed   it has read the quote and the position                     *)
(*   admitted   the position, cash and risk checks passed                  *)
(*   keyed      its idempotency key is reserved                            *)
(*   placed     the order row is committed, PENDING                        *)
(*   converted  its stop-limit order triggered on arrival, now limit       *)
(*   filling    fill_order has stamped the row                             *)
(*   rejecting  fill_order has rolled back and will close the order        *)
(*   settled    filled, closed or accepted; not audited yet                *)
(*   reported   audited; the idempotency record is not completed           *)
(*   releasing  no order was created, the key is to be released            *)
(*   done, refused, replayed, crashed                                      *)
(***************************************************************************)
EXTENDS FillRules, FiniteSets, FiniteSetsExt

CONSTANTS Requests,     \* order submissions
          Order,        \* request |-> [side, type, limit, stop, qty, ioc, key]
          Keys,         \* idempotency keys
          NoKey,        \* no Idempotency-Key header
          Prices,       \* market prices
          InitialCash,  \* PAPER_INITIAL_CASH
          CapPercent,   \* PAPER_MAX_POSITION_FRACTION, in percent
          MaxCrashes    \* bound on the process crashes of one behaviour

ASSUME BrokerAssumption ==
    /\ NoKey \notin Keys
    /\ Prices \subseteq Nat \ {0}
    /\ InitialCash \in Nat /\ CapPercent \in Nat /\ MaxCrashes \in Nat
    /\ Order \in [Requests -> [side : Sides, type : OrderTypes,
                               limit : Prices \cup {NoPrice}, stop : Prices \cup {NoPrice},
                               qty : Nat \ {0}, ioc : BOOLEAN, key : Keys \cup {NoKey}]]
    /\ \A r \in Requests :   \* place_order's checks of the request
          /\ Order[r].type \in {"limit", "stop_limit"} => Order[r].limit # NoPrice
          /\ Order[r].type \in {"stop", "stop_limit"} => Order[r].stop # NoPrice
    /\ IsFiniteSet(Requests)

VARIABLES cash, reserved,      \* paper_accounts
          status, order_type, filled_price, filled_at,   \* trades
          held_cash,           \* history: the cash reserved with the order
          position,            \* positions: the quantity of the asset
          idem,                \* idempotency records: "free", "open" or "done"
          pc, seen,            \* requests: location; quote and position read
          filling,             \* the uncommitted fill holding the order row's lock
          cancelling,          \* orders cancelled by a request that has not audited it
          sweeper,             \* the one running sweep
          reports,             \* audited outcomes (and webhooks) per order
          clock,               \* time of the last filled_at
          crashes

ledger  == <<cash, reserved, position>>
trades  == <<status, order_type, filled_price, filled_at, held_cash>>
vars    == <<ledger, trades, idem, pc, seen, filling, cancelling, sweeper, reports,
             clock, crashes>>

OPEN_STATUSES == {"PENDING", "ACCEPTED"}
Statuses      == OPEN_STATUSES \cup {"none", "FILLED", "REJECTED", "EXPIRED", "CANCELLED"}
Over          == {"done", "refused", "replayed", "crashed"}
Locations     == Over \cup {"new", "observed", "admitted", "keyed", "placed", "converted",
                            "filling", "rejecting", "settled", "reported", "releasing"}

Unseen      == [price |-> 0, live |-> FALSE, held |-> 0]
NoFill      == [by |-> "none", price |-> 0, stamp |-> 0]
NotSweeping == [on |-> FALSE, price |-> 0, todo |-> {}, rejecting |-> {}, settled |-> {}]

Init ==
    /\ cash = InitialCash /\ reserved = 0 /\ position = 0
    /\ status       = [r \in Requests |-> "none"]
    /\ order_type   = [r \in Requests |-> Order[r].type]
    /\ filled_price = [r \in Requests |-> 0]
    /\ filled_at    = [r \in Requests |-> 0]
    /\ held_cash    = [r \in Requests |-> 0]
    /\ idem         = [k \in Keys |-> "free"]
    /\ pc           = [r \in Requests |-> "new"]
    /\ seen         = [r \in Requests |-> Unseen]
    /\ filling      = [r \in Requests |-> NoFill]
    /\ cancelling = {} /\ sweeper = NotSweeping
    /\ reports      = [r \in Requests |-> {}]
    /\ clock = 0 /\ crashes = 0

-----------------------------------------------------------------------------
(* The order as the fill rules see it, with the type it has by now. *)
Live(r) == [side |-> Order[r].side, type |-> order_type[r], limit |-> Order[r].limit,
            stop |-> Order[r].stop]

(* reservation_micros *)
Reservation(r, type, price) ==
    Order[r].qty * (IF Order[r].side # "buy" THEN 0
                    ELSE IF type \in {"limit", "stop_limit"} THEN Order[r].limit
                    ELSE IF type = "stop" THEN Order[r].stop
                    ELSE price)

(* trade_reservation_micros: a market order never rests. *)
TradeReservation(r) == IF order_type[r] = "market" THEN 0 ELSE Reservation(r, order_type[r], 0)

(* _released *)
Released(amount) == IF reserved >= amount THEN reserved - amount ELSE 0

SignedQty(r) == IF Order[r].side = "buy" THEN Order[r].qty ELSE -Order[r].qty

(* held_quantity and rebuild_positions: the filled orders S, folded in the *)
(* order of filled_at, a sell never taking the holding below zero.         *)
HeldQuantity(S, at) ==
    MapThenFoldSet(LAMBDA qty, before : Higher(0, before + qty), 0, SignedQty,
                   LAMBDA T : CHOOSE r \in T : \A q \in T : at[q] <= at[r], S)

Filled == {r \in Requests : status[r] = "FILLED"}

(* rebuild_positions in the transaction that fills r. *)
RebuiltPosition(r, at) == HeldQuantity(Filled \cup {r}, at)

(* open_order_exposure *)
OpenOrders == {r \in Requests : status[r] \in OPEN_STATUSES}
BuyReserved == MapThenSumSet(TradeReservation, {r \in OpenOrders : Order[r].side = "buy"})
PendingSell == MapThenSumSet(LAMBDA r : Order[r].qty,
                             {r \in OpenOrders : Order[r].side = "sell"})

Forget(r) == seen' = [seen EXCEPT ![r] = Unseen]

Goto(r, loc) == pc' = [pc EXCEPT ![r] = loc]
-----------------------------------------------------------------------------
(* Order transitions of paper_broker *)

RowFree(r) == filling[r].by = "none"

(* try_reserve *)
TryReserve(amount) ==
    /\ amount > 0 => cash - reserved >= amount
    /\ reserved' = reserved + amount

(* A close that forgets the cash (mutant of CloseOrder). *)
CloseOrderKeepingCash(r, to, amount) ==
    /\ status[r] \in OPEN_STATUSES /\ RowFree(r)
    /\ status' = [status EXCEPT ![r] = to]
    /\ UNCHANGED <<cash, reserved, position, order_type, filled_price, filled_at, held_cash>>

(* A close that does not look at the status (mutant of CloseOrder). *)
CloseOrderUnchecked(r, to, amount) ==
    /\ status[r] # "none" /\ RowFree(r)
    /\ status'   = [status EXCEPT ![r] = to]
    /\ reserved' = Released(amount)
    /\ UNCHANGED <<cash, position, order_type, filled_price, filled_at, held_cash>>

(* close_order, when the order is still open. *)
CloseOrder(r, to, amount) ==
    /\ status[r] \in OPEN_STATUSES /\ RowFree(r)
    /\ status'   = [status EXCEPT ![r] = to]
    /\ reserved' = Released(amount)
    /\ UNCHANGED <<cash, position, order_type, filled_price, filled_at, held_cash>>

(* accept_order *)
AcceptOrder(r) ==
    /\ status[r] = "PENDING"
    /\ status' = [status EXCEPT ![r] = "ACCEPTED"]

(* fill_order, first statement: the row is FILLED and stamped, uncommitted. *)
FillStart(r, by, price) ==
    /\ status[r] \in OPEN_STATUSES /\ RowFree(r)
    /\ clock'   = clock + 1
    /\ filling' = [filling EXCEPT ![r] = [by |-> by, price |-> price, stamp |-> clock + 1]]

Cost(r) == Order[r].qty * filling[r].price

FillReservation(r) == IF filling[r].by = "request" THEN held_cash[r] ELSE TradeReservation(r)

(* fill_order: a buy must be paid from cash not reserved by other orders,  *)
(* a sell must not exceed the holding.                                     *)
Settles(r) ==
    IF Order[r].side = "buy" THEN cash - Cost(r) >= Released(FillReservation(r))
    ELSE Order[r].qty <= HeldQuantity(Filled, filled_at)

Unlock(r) == filling' = [filling EXCEPT ![r] = NoFill]

(* The positions are not rebuilt (mutant of FillCommit). *)
FillCommitWithoutRebuild(r) ==
    /\ ~RowFree(r) /\ Settles(r)
    /\ status'       = [status EXCEPT ![r] = "FILLED"]
    /\ filled_price' = [filled_price EXCEPT ![r] = filling[r].price]
    /\ filled_at'    = [filled_at EXCEPT ![r] = filling[r].stamp]
    /\ cash'     = IF Order[r].side = "buy" THEN cash - Cost(r) ELSE cash + Cost(r)
    /\ reserved' = IF Order[r].side = "buy" THEN Released(FillReservation(r)) ELSE reserved
    /\ Unlock(r)
    /\ UNCHANGED <<position, order_type, held_cash>>

(* fill_order, the rest of its transaction: cash and positions. *)
FillCommit(r) ==
    /\ ~RowFree(r) /\ Settles(r)
    /\ status'       = [status EXCEPT ![r] = "FILLED"]
    /\ filled_price' = [filled_price EXCEPT ![r] = filling[r].price]
    /\ filled_at'    = [filled_at EXCEPT ![r] = filling[r].stamp]
    /\ cash'     = IF Order[r].side = "buy" THEN cash - Cost(r) ELSE cash + Cost(r)
    /\ reserved' = IF Order[r].side = "buy" THEN Released(FillReservation(r)) ELSE reserved
    /\ position' = RebuiltPosition(r, filled_at')
    /\ Unlock(r)
    /\ UNCHANGED <<order_type, held_cash>>

(* fill_order: the account cannot settle; everything is rolled back. *)
FillRollback(r) ==
    /\ ~RowFree(r) /\ ~Settles(r)
    /\ Unlock(r)
    /\ UNCHANGED <<ledger, trades>>

-----------------------------------------------------------------------------
(* place_order *)

Key(r) == Order[r].key
KeyState(r) == IF Key(r) = NoKey THEN "free" ELSE idem[Key(r)]

Refuse(r) ==
    /\ Goto(r, "refused")
    /\ Forget(r)
    /\ UNCHANGED <<ledger, trades, idem, filling, cancelling, sweeper, reports, clock, crashes>>

(* get_completed_idempotency_response, get_last_price and                  *)
(* get_positions_with_pnl: read-only. The quote may be any price; a market *)
(* order needs a live one. Without any price the order is refused.         *)
Observe(r) ==
    /\ pc[r] = "new"
    /\ \/ KeyState(r) = "done" /\ Goto(r, "replayed") /\ UNCHANGED seen
       \/ Goto(r, "refused") /\ UNCHANGED seen
       \/ /\ KeyState(r) = "free"
          /\ Goto(r, "observed")
          /\ \E price \in Prices, live \in BOOLEAN :
                /\ live \/ Order[r].type # "market"
                /\ seen' = [seen EXCEPT ![r] = [price |-> price, live |-> live,
                                                held |-> position]]
    /\ UNCHANGED <<ledger, trades, idem, filling, cancelling, sweeper, reports, clock, crashes>>

(* assert_risk_gate, with no kill switch set (KillSwitch's subject). *)
RiskGate(o, price, sellable, equity, exposure) ==
    LET notional == o.qty * price
    IN /\ 100 * notional <= CapPercent * equity
       /\ o.side = "sell" => o.qty <= sellable
       /\ exposure + (IF o.side = "buy" THEN notional ELSE 0) <= equity

(* The checks of place_order and assert_risk_gate against the account as   *)
(* it is now and the position as it was observed.                          *)
Admissible(r) ==
    LET o         == Order[r]
        mark      == seen[r].price
        held      == seen[r].held
        sellable  == held - PendingSell
        riskPrice == IF o.limit # NoPrice THEN o.limit ELSE IF o.stop # NoPrice THEN o.stop ELSE mark
        equity    == cash + held * mark
    IN /\ o.side = "sell" => o.qty <= sellable
       /\ o.side = "buy" =>
             /\ 100 * (held * mark + BuyReserved + o.qty * riskPrice) <= CapPercent * equity
             /\ Reservation(r, o.type, mark) <= cash - reserved
       /\ RiskGate(o, riskPrice, sellable, equity, held * mark + reserved)

Admit(r) ==
    /\ pc[r] = "observed" /\ Admissible(r)
    /\ Goto(r, "admitted")
    /\ UNCHANGED <<ledger, trades, idem, seen, filling, cancelling, sweeper, reports, clock,
                   crashes>>

(* One of the checks fails, or a kill switch, the envelope or the          *)
(* signature refuses the order.                                            *)
RefuseUnadmitted(r) == pc[r] = "observed" /\ Refuse(r)

(* reserve_idempotency without the unique key (mutant). *)
ReserveKeyUnchecked(r) ==
    /\ pc[r] = "admitted"
    /\ Goto(r, "keyed")
    /\ idem' = IF Key(r) = NoKey THEN idem ELSE [idem EXCEPT ![Key(r)] = "open"]
    /\ UNCHANGED <<ledger, trades, seen, filling, cancelling, sweeper, reports, clock, crashes>>

(* reserve_idempotency *)
ReserveKey(r) ==
    /\ pc[r] = "admitted"
    /\ \/ /\ KeyState(r) = "free"
          /\ Goto(r, "keyed")
          /\ idem' = IF Key(r) = NoKey THEN idem ELSE [idem EXCEPT ![Key(r)] = "open"]
       \/ KeyState(r) = "done" /\ Goto(r, "replayed") /\ UNCHANGED idem
       \/ KeyState(r) = "open" /\ Goto(r, "refused") /\ UNCHANGED idem
    /\ UNCHANGED <<ledger, trades, seen, filling, cancelling, sweeper, reports, clock, crashes>>

(* The cash reservation and the insert of the order, committed together. *)
Place(r) ==
    LET amount == Reservation(r, Order[r].type, seen[r].price)
    IN /\ pc[r] = "keyed"
       /\ TryReserve(amount)
       /\ status'    = [status EXCEPT ![r] = "PENDING"]
       /\ held_cash' = [held_cash EXCEPT ![r] = amount]
       /\ Goto(r, "placed")
       /\ UNCHANGED <<cash, position, order_type, filled_price, filled_at, idem, seen, filling,
                      cancelling, sweeper, reports, clock, crashes>>

(* Too little cash after all, a used nonce or order id, a failed insert. *)
PlaceFails(r) ==
    /\ pc[r] = "keyed"
    /\ Goto(r, "releasing")
    /\ Forget(r)
    /\ UNCHANGED <<ledger, trades, idem, filling, cancelling, sweeper, reports, clock, crashes>>

(* The key stays reserved (mutant of ReleaseKey). *)
ReleaseKeyKept(r) ==
    /\ pc[r] = "releasing"
    /\ Goto(r, "refused")
    /\ UNCHANGED <<ledger, trades, idem, seen, filling, cancelling, sweeper, reports, clock,
                   crashes>>

(* release_idempotency, when place_order fails before its commit. *)
ReleaseKey(r) ==
    /\ pc[r] = "releasing"
    /\ Goto(r, "refused")
    /\ idem' = IF Key(r) # NoKey /\ KeyState(r) = "open" THEN [idem EXCEPT ![Key(r)] = "free"]
               ELSE idem
    /\ UNCHANGED <<ledger, trades, seen, filling, cancelling, sweeper, reports, clock, crashes>>

(* The prices the new order fills at; none with a stale quote. *)
ArrivalFill(r) == IF seen[r].live THEN SimulateFill(Live(r), seen[r].price) ELSE {}

StartFill(r) ==
    /\ pc[r] = "placed"
    /\ \E price \in ArrivalFill(r) : FillStart(r, "request", price)
    /\ Goto(r, "filling")
    /\ Forget(r)
    /\ UNCHANGED <<ledger, trades, idem, cancelling, sweeper, reports, crashes>>

Expire(r) ==
    /\ pc[r] = "placed" /\ ArrivalFill(r) = {} /\ Order[r].ioc
    /\ CloseOrder(r, "EXPIRED", held_cash[r])
    /\ Goto(r, "settled")
    /\ Forget(r)
    /\ UNCHANGED <<idem, filling, cancelling, sweeper, reports, clock, crashes>>

Rests(r) == ArrivalFill(r) = {} /\ ~Order[r].ioc

TriggeredOnArrival(r) ==
    /\ seen[r].live /\ order_type[r] = "stop_limit"
    /\ StopTriggered(Order[r].side, Order[r].stop, seen[r].price)

(* "Triggered on arrival but not marketable: it rests as a limit order",   *)
(* committed before the order is accepted.                                 *)
Convert(r) ==
    /\ pc[r] = "placed" /\ Rests(r) /\ TriggeredOnArrival(r)
    /\ order_type' = [order_type EXCEPT ![r] = "limit"]
    /\ Goto(r, "converted")
    /\ Forget(r)
    /\ UNCHANGED <<ledger, status, filled_price, filled_at, held_cash, idem, filling,
                   cancelling, sweeper, reports, clock, crashes>>

Accept(r) ==
    /\ \/ pc[r] = "placed" /\ Rests(r) /\ ~TriggeredOnArrival(r)
       \/ pc[r] = "converted"
    /\ AcceptOrder(r)
    /\ Goto(r, "settled")
    /\ Forget(r)
    /\ UNCHANGED <<ledger, order_type, filled_price, filled_at, held_cash, idem, filling,
                   cancelling, sweeper, reports, clock, crashes>>

FinishFill(r) ==
    /\ pc[r] = "filling"
    /\ \/ FillCommit(r) /\ Goto(r, "settled")
       \/ FillRollback(r) /\ Goto(r, "rejecting")
    /\ UNCHANGED <<idem, seen, cancelling, sweeper, reports, clock, crashes>>

(* fill_order's close_order; nobody else touches a PENDING order. *)
Reject(r) ==
    /\ pc[r] = "rejecting"
    /\ CloseOrder(r, "REJECTED", held_cash[r])
    /\ Goto(r, "settled")
    /\ UNCHANGED <<idem, seen, filling, cancelling, sweeper, reports, clock, crashes>>

(* _record_order_outcome, with the status the order has by then. *)
Report(r) ==
    /\ pc[r] = "settled"
    /\ reports' = [reports EXCEPT ![r] = @ \cup {status[r]}]
    /\ Goto(r, "reported")
    /\ UNCHANGED <<ledger, trades, idem, seen, filling, cancelling, sweeper, clock, crashes>>

CompleteKey(r) ==
    /\ pc[r] = "reported"
    /\ idem' = IF Key(r) = NoKey THEN idem ELSE [idem EXCEPT ![Key(r)] = "done"]
    /\ Goto(r, "done")
    /\ UNCHANGED <<ledger, trades, seen, filling, cancelling, sweeper, reports, clock, crashes>>

(* cancel_order: the close *)
Cancel(r) ==
    /\ status[r] = "ACCEPTED"
    /\ CloseOrder(r, "CANCELLED", TradeReservation(r))
    /\ cancelling' = cancelling \cup {r}
    /\ UNCHANGED <<idem, pc, seen, filling, sweeper, reports, clock, crashes>>

(* cancel_order: the audit event and the webhook, after the close *)
CancelReport(r) ==
    /\ r \in cancelling
    /\ reports'    = [reports EXCEPT ![r] = @ \cup {"CANCELLED"}]
    /\ cancelling' = cancelling \ {r}
    /\ UNCHANGED <<ledger, trades, idem, pc, seen, filling, sweeper, clock, crashes>>
-----------------------------------------------------------------------------
(* The sweeper: process_open_orders, then an audit event per outcome. An   *)
(* advisory lock allows one sweep at a time in the whole deployment.       *)

sweepFrame == <<idem, pc, seen, cancelling, crashes>>

SweepFilling == \E r \in Requests : filling[r].by = "sweeper"

(* The next order of the sweep is at hand: the previous one is finished. *)
AtOrder(r) == sweeper.on /\ r \in sweeper.todo /\ ~SweepFilling /\ sweeper.rejecting = {}

(* One live price for the whole sweep. *)
SweepStart ==
    \E price \in Prices :
        LET todo == {r \in Requests : status[r] = "ACCEPTED" /\ Actionable(Live(r), price)}
        IN /\ ~sweeper.on /\ todo # {}
           /\ sweeper' = [NotSweeping EXCEPT !.on = TRUE, !.price = price, !.todo = todo]
           /\ UNCHANGED <<ledger, trades, filling, reports, clock, sweepFrame>>

SweepConvert(r) ==
    /\ AtOrder(r) /\ status[r] = "ACCEPTED" /\ Converts(Live(r), sweeper.price)
    /\ order_type' = [order_type EXCEPT ![r] = "limit"]
    /\ sweeper'    = [sweeper EXCEPT !.todo = @ \ {r}]
    /\ UNCHANGED <<ledger, status, filled_price, filled_at, held_cash, filling, reports, clock,
                   sweepFrame>>

SweepFillStart(r) ==
    /\ AtOrder(r)
    /\ \E price \in SweepFill(Live(r), sweeper.price) : FillStart(r, "sweeper", price)
    /\ sweeper' = [sweeper EXCEPT !.todo = @ \ {r}]
    /\ UNCHANGED <<ledger, trades, reports, sweepFrame>>

(* NOT_OPEN: the order was cancelled since it was selected. *)
SweepSkip(r) ==
    /\ AtOrder(r) /\ status[r] \notin OPEN_STATUSES
    /\ sweeper' = [sweeper EXCEPT !.todo = @ \ {r}]
    /\ UNCHANGED <<ledger, trades, filling, reports, clock, sweepFrame>>

(* The fill is left out of the outcomes (mutant of SweepFillFinish). *)
SweepFillFinishUnreported(r) ==
    /\ filling[r].by = "sweeper"
    /\ \/ FillCommit(r) /\ UNCHANGED sweeper
       \/ FillRollback(r) /\ sweeper' = [sweeper EXCEPT !.rejecting = {r}]
    /\ UNCHANGED <<reports, clock, sweepFrame>>

SweepFillFinish(r) ==
    /\ filling[r].by = "sweeper"
    /\ \/ FillCommit(r) /\ sweeper' = [sweeper EXCEPT !.settled = @ \cup {r}]
       \/ FillRollback(r) /\ sweeper' = [sweeper EXCEPT !.rejecting = {r}]
    /\ UNCHANGED <<reports, clock, sweepFrame>>

(* fill_order's close_order, whose result it does not look at: the order   *)
(* may have been cancelled after the rollback.                             *)
SweepReject(r) ==
    /\ r \in sweeper.rejecting
    /\ \/ CloseOrder(r, "REJECTED", TradeReservation(r))
       \/ status[r] \notin OPEN_STATUSES /\ UNCHANGED <<ledger, trades>>
    /\ sweeper' = [sweeper EXCEPT !.rejecting = {}, !.settled = @ \cup {r}]
    /\ UNCHANGED <<filling, reports, clock, sweepFrame>>

SweepDone == sweeper.on /\ sweeper.todo = {} /\ ~SweepFilling /\ sweeper.rejecting = {}

SweepReport(r) ==
    /\ SweepDone /\ r \in sweeper.settled
    /\ reports' = [reports EXCEPT ![r] = @ \cup {status[r]}]
    /\ sweeper' = [sweeper EXCEPT !.settled = @ \ {r}]
    /\ UNCHANGED <<ledger, trades, filling, clock, sweepFrame>>

SweepEnd ==
    /\ SweepDone /\ sweeper.settled = {}
    /\ sweeper' = NotSweeping
    /\ UNCHANGED <<ledger, trades, filling, reports, clock, sweepFrame>>

-----------------------------------------------------------------------------
(* Environment *)

(* The API process dies while it handles the request or a cancel, or while *)
(* it sweeps; an open transaction is rolled back.                          *)
CrashRequest(r) ==
    /\ crashes < MaxCrashes /\ pc[r] \notin Over \cup {"new"}
    /\ crashes' = crashes + 1
    /\ Goto(r, "crashed")
    /\ Forget(r)
    /\ filling' = IF pc[r] = "filling" THEN [filling EXCEPT ![r] = NoFill] ELSE filling
    /\ UNCHANGED <<ledger, trades, idem, cancelling, sweeper, reports, clock>>

CrashCancel(r) ==
    /\ crashes < MaxCrashes /\ r \in cancelling
    /\ crashes' = crashes + 1
    /\ cancelling' = cancelling \ {r}
    /\ UNCHANGED <<ledger, trades, idem, pc, seen, filling, sweeper, reports, clock>>

CrashSweep ==
    /\ crashes < MaxCrashes /\ sweeper.on
    /\ crashes' = crashes + 1
    /\ sweeper' = NotSweeping
    /\ filling' = [r \in Requests |-> IF filling[r].by = "sweeper" THEN NoFill ELSE filling[r]]
    /\ UNCHANGED <<ledger, trades, idem, pc, seen, cancelling, reports, clock>>

-----------------------------------------------------------------------------
Handle(r) ==
    \/ Observe(r) \/ Admit(r) \/ RefuseUnadmitted(r) \/ ReserveKey(r) \/ Place(r)
    \/ PlaceFails(r) \/ ReleaseKey(r) \/ StartFill(r) \/ Expire(r) \/ Convert(r)
    \/ Accept(r) \/ FinishFill(r) \/ Reject(r) \/ Report(r) \/ CompleteKey(r)

SweepStep ==
    \/ SweepEnd
    \/ \E r \in Requests : \/ SweepConvert(r) \/ SweepFillStart(r) \/ SweepSkip(r)
                            \/ SweepFillFinish(r) \/ SweepReject(r) \/ SweepReport(r)

Next ==
    \/ \E r \in Requests : \/ Handle(r) \/ Cancel(r) \/ CancelReport(r)
                            \/ CrashRequest(r) \/ CrashCancel(r)
    \/ SweepStart \/ SweepStep
    \/ CrashSweep

Spec == Init /\ [][Next]_vars

(* A request that was received is handled to its end and a sweep or a      *)
(* cancel that was begun is finished, unless the process crashes.          *)
Fairness ==
    /\ \A r \in Requests : WF_vars(pc[r] # "new" /\ Handle(r)) /\ WF_vars(CancelReport(r))
    /\ WF_vars(SweepStep)

FairSpec == Spec /\ Fairness

-----------------------------------------------------------------------------
(* Properties *)

(* Every variable has its type. *)
TypeOK ==
    /\ cash \in Nat /\ reserved \in Nat /\ position \in Nat
    /\ status       \in [Requests -> Statuses]
    /\ order_type   \in [Requests -> OrderTypes]
    /\ filled_price \in [Requests -> Nat]
    /\ filled_at    \in [Requests -> Nat]
    /\ held_cash    \in [Requests -> Nat]
    /\ idem         \in [Keys -> {"free", "open", "done"}]
    /\ pc           \in [Requests -> Locations]
    /\ seen         \in [Requests -> [price : Nat, live : BOOLEAN, held : Nat]]
    /\ filling      \in [Requests -> [by : {"none", "request", "sweeper"}, price : Nat,
                                      stamp : Nat]]
    /\ sweeper      \in [on : BOOLEAN, price : Nat, todo : SUBSET Requests,
                         rejecting : SUBSET Requests, settled : SUBSET Requests]
    /\ cancelling \subseteq Requests
    /\ reports      \in [Requests -> SUBSET Statuses]
    /\ clock \in Nat /\ crashes \in 0..MaxCrashes

(* The paper account is a cash account without margin: whatever the        *)
(* interleaving of placements, fills, cancels and sweeps, the cash covers  *)
(* what is reserved and neither is ever negative.                          *)
NeverOverdrawn == 0 <= reserved /\ reserved <= cash

(* The reserved cash is exactly what the open orders reserved: nothing is  *)
(* released twice and nothing is left behind by a closed order. So         *)
(* _released never needs its floor at zero.                                *)
ReservedIsOpenOrders == reserved = SumFunctionOnSet(held_cash, OpenOrders)

(* The cash is the initial cash moved by the filled orders, each once. *)
Spent == [r \in Requests |-> SignedQty(r) * filled_price[r]]

CashIsFills == cash = InitialCash - SumFunctionOnSet(Spent, Filled)

(* The positions projection is that of the filled orders at all times. *)
PositionIsFills == position = HeldQuantity(Filled, filled_at)

(* Of all requests with one idempotency key at most one creates an order,  *)
(* and a replayed answer belongs to an order that exists.                  *)
OneOrderPerKey ==
    \A k \in Keys :
        LET same == {r \in Requests : Key(r) = k}
            made == {r \in same : status[r] # "none"}
        IN /\ Cardinality(made) <= 1
           /\ (\E r \in same : pc[r] = "replayed") => made # {}

(* The order may cost more than it reserved: a stop order gaps through its *)
(* trigger, or a limit in fractions of a cent lies below the cent to which *)
(* the fill price is rounded.                                              *)
MayOverrun(r) ==
    \/ Order[r].type = "stop"
    \/ /\ Order[r].type \in {"limit", "stop_limit"}
       /\ Order[r].limit >= Dollar /\ Order[r].limit % Cent # 0

(* No other buy is rejected for want of cash. fill_order's comment knows   *)
(* the stop orders only ("possible only when a stop order gaps through its *)
(* trigger").                                                              *)
OnlyOverrunsRejected ==
    \A r \in Requests : status[r] = "REJECTED" /\ Order[r].side = "buy" => MayOverrun(r)

(* The three rules of the reservations *)
ReservationsHold == NeverOverdrawn /\ ReservedIsOpenOrders /\ OnlyOverrunsRejected

(* Cash and position are what the filled orders, each counted once, make   *)
(* of the account.                                                         *)
LedgerIsFills == CashIsFills /\ PositionIsFills

(* An order that is filled, rejected, expired or cancelled stays that way. *)
FinalIsFinal ==
    [][\A r \in Requests : status[r] \notin OPEN_STATUSES \cup {"none"} =>
          status'[r] = status[r] /\ filled_price'[r] = filled_price[r]]_vars

(* Unless a process crashes, the end of every order is audited, whoever    *)
(* filled or closed it: its request, the sweeper or a cancel.              *)
EndsAreReported ==
    \A r \in Requests : status[r] \notin OPEN_STATUSES \cup {"none"} ~>
                           status[r] \in reports[r] \/ crashes > 0

(* Unless a process crashes, a reserved idempotency key is completed or    *)
(* released.                                                               *)
KeysResolve == \A k \in Keys : idem[k] = "open" ~> idem[k] # "open" \/ crashes > 0

(* Without a crash nothing that a request began is left hanging: the end   *)
(* of its order is reported and its key settled.                           *)
RequestsResolve == EndsAreReported /\ KeysResolve

(* "order is still being placed; retry the cancel" (cancel_order): an      *)
(* order is PENDING for a while only.                                      *)
PendingIsTransient == \A r \in Requests : status[r] = "PENDING" ~> status[r] # "PENDING"

(* A sell credits its full proceeds, so it must take its full quantity off *)
(* the position: no shares are left that were sold.                        *)
NoPhantomShares == position = MapThenSumSet(SignedQty, Filled)

-----------------------------------------------------------------------------
(* The inductive invariant *)

(* The order row is where its request has brought it. *)
RowInv(r) ==
    /\ pc[r] \in {"new", "observed", "admitted", "keyed", "releasing", "refused", "replayed"} =>
          status[r] = "none"
    /\ pc[r] \in {"placed", "converted", "filling", "rejecting"} => status[r] = "PENDING"
    /\ pc[r] \in {"settled", "reported", "done"} => status[r] \notin {"none", "PENDING"}
    /\ \/ order_type[r] = Order[r].type
       \/ Order[r].type = "stop_limit" /\ order_type[r] = "limit"
    /\ status[r] = "ACCEPTED" \/ pc[r] = "converted" => order_type[r] # "market"
    /\ pc[r] \in {"observed", "admitted", "keyed", "placed"} =>
          seen[r].live \/ Order[r].type # "market"

(* What an order holds is what will be released for it. *)
HoldInv(r) ==
    /\ status[r] # "none" /\ (Order[r].side = "sell" \/ Order[r].type # "market") =>
          held_cash[r] = Reservation(r, Order[r].type, 0)
    /\ pc[r] = "placed" => held_cash[r] = Reservation(r, Order[r].type, seen[r].price)

(* An order that cannot overrun fills within its reservation, so only the  *)
(* others, and sells, are rejected.                                        *)
FillInv(r) ==
    /\ filling[r].by = "request" <=> pc[r] = "filling"
    /\ filling[r].by = "sweeper" => status[r] = "ACCEPTED"
    /\ filling[r].by # "none" /\ Order[r].side = "buy" /\ ~MayOverrun(r) => Cost(r) <= held_cash[r]
    /\ pc[r] = "rejecting" \/ r \in sweeper.rejecting => Order[r].side = "sell" \/ MayOverrun(r)
    /\ r \in sweeper.todo \cup sweeper.rejecting => status[r] \notin {"none", "PENDING"}
    /\ filling[r].stamp <= clock /\ filled_at[r] <= clock

OrdersInv == \A r \in Requests : RowInv(r) /\ HoldInv(r) /\ FillInv(r)

(* The request has its key: it is past the reservation of the key and has  *)
(* not given it back, or it made an order.                                 *)
Claims(r) ==
    \/ pc[r] \in {"keyed", "placed", "converted", "filling", "rejecting", "settled", "reported",
                  "releasing"}
    \/ status[r] # "none"

KeysInv ==
    /\ \A r, q \in Requests : Key(r) \in Keys /\ Key(r) = Key(q) /\ Claims(r) /\ Claims(q) => r = q
    /\ \A r \in Requests : Claims(r) /\ Key(r) \in Keys => idem[Key(r)] # "free"
    /\ \A k \in Keys : idem[k] = "done" => \E q \in Requests : Key(q) = k /\ status[q] # "none"
    /\ \A r \in Requests : pc[r] = "replayed" =>
          \E q \in Requests : Key(q) = Key(r) /\ status[q] # "none"

BrokerInv ==
    /\ TypeOK /\ OrdersInv /\ KeysInv
    /\ ReservationsHold /\ LedgerIsFills
=============================================================================

--------------------------- MODULE EventSimulator ---------------------------
(***************************************************************************)
(* The event-driven simulator, run_event_backtest of                       *)
(* backend/services/event_simulator.py, bar by bar: borrow, the fills of   *)
(* the orders staged at the bar before, signals, orders, mark to market.   *)
(* Money and shares are whole numbers and divisions round down, as in      *)
(* Backtest. A signal has a direction; its strength is modelled as full,   *)
(* or none for a flat one.                                                 *)
(*                                                                         *)
(* sim   the state of a run: Portfolio (short is its allow_short), the     *)
(*       orders pending and the calls the momentum strategy has counted    *)
(***************************************************************************)
EXTENDS Backtest

CONSTANTS Fraction,     \* FixedFractionalSizer: 1/Fraction of equity
          Impact,       \* spread and market impact, per share
          Band,         \* MeanReversionStrategy's n_std, squared
          Rebalance     \* the momentum strategy acts on every 5th call

SimStrategies == {"ma_crossover", "momentum", "mean_reversion"}

NewSim(short) ==
    [short |-> short, cash |-> Capital, positions |-> [a \in Assets |-> 0], pending |-> << >>,
     equity |-> Capital, calls |-> 0,
     commission |-> 0, slippage |-> 0, borrow |-> 0, fills |-> << >>]

Abs(n) == High(n, -n)

-----------------------------------------------------------------------------
(* Strategies: on_market for one ticker, given the closes so far *)

(* MACrossoverStrategy: the series prepared from the whole arrays *)
CrossoverSignals(data, bar, a) ==
    LET s == MaCrossover(data[a], bar, Fast, Slow)
    IN CASE s > 0 -> <<[asset |-> a, direction |-> 1]>>
         [] s < 0 -> <<[asset |-> a, direction |-> -1]>>
         [] OTHER -> << >>

(* MomentumStrategy: the ranking of all tickers, top third long, bottom    *)
(* third short, the others flat                                            *)
MomentumSignals(data, bar) ==
    LET scored == IF bar >= Lookback THEN Assets ELSE {}
        past(a) == data[a][bar - Lookback + 1]
        better(a, b) == LET x == data[a][bar] * past(b)
                            y == data[b][bar] * past(a)
                        IN x > y \/ (x = y /\ a < b)
        ranked == SetToSortSeq(scored, better)
        third  == Len(ranked) \div 3
    IN [i \in DOMAIN ranked |->
           [asset |-> ranked[i],
            direction |-> IF i <= third THEN 1 ELSE IF i > Len(ranked) - third THEN -1 ELSE 0]]

(* MeanReversionStrategy: outside the bands of n_std deviations, or flat   *)
(* within half a deviation                                                 *)
ReversionSignals(data, bar, a) ==
    LET n   == Lookback
        sum == SumTo(data[a], bar, n)
        dev(c) == n * c - sum
        d   == dev(data[a][bar])
        var == FoldLeft(LAMBDA v, c : v + dev(c) * dev(c), 0, SubSeq(data[a], bar - n + 1, bar))
    IN CASE bar < n -> << >>
         [] OTHER -> CASE var = 0 -> << >>
                       [] d * d * n > Band * var -> <<[asset |-> a, direction |-> IF d < 0 THEN 1 ELSE -1]>>
                       [] 4 * d * d * n < var -> <<[asset |-> a, direction |-> 0]>>
                       [] OTHER -> << >>

(* strategy.on_market for every ticker in turn *)
Signals(kind, sim, data, bar) ==
    FlattenSeq([a \in 1..Cardinality(Assets) |->
        CASE kind = "ma_crossover"   -> CrossoverSignals(data, bar, a)
          [] kind = "mean_reversion" -> ReversionSignals(data, bar, a)
          [] kind = "momentum"       ->
                IF (sim.calls + a) % Rebalance = 0 THEN MomentumSignals(data, bar) ELSE << >>])

-----------------------------------------------------------------------------
(* Fills *)

(* TransactionCostModel.compute_fill at the bar's price *)
ComputeFill(qty, price) ==
    LET at == IF qty > 0 THEN price + Impact ELSE price - Impact
    IN [qty |-> qty, price |-> at,
        commission |-> High((Abs(qty) * at * FeePct) \div 100, MinFee),
        slippage |-> Abs(qty) * Impact,
        borrow |-> IF qty < 0 THEN (Abs(qty) * at) \div BorrowRate ELSE 0]

(* Deducts the slippage that the price already holds (mutant of            *)
(* ProcessFill).                                                           *)
ProcessFillTwice(sim, a, bar, close, f) ==
    [sim EXCEPT !.positions[a] = @ + f.qty,
                !.cash = @ - f.qty * f.price - f.commission - f.slippage - f.borrow,
                !.commission = @ + f.commission, !.slippage = @ + f.slippage,
                !.borrow = @ + f.borrow,
                !.fills = Append(@, [bar |-> bar, asset |-> a, qty |-> f.qty, close |-> close])]

(* Portfolio.process_fill *)
ProcessFill(sim, a, bar, close, f) ==
    [sim EXCEPT !.positions[a] = @ + f.qty,
                !.cash = @ - f.qty * f.price - f.commission - f.borrow,
                !.commission = @ + f.commission, !.slippage = @ + f.slippage,
                !.borrow = @ + f.borrow,
                !.fills = Append(@, [bar |-> bar, asset |-> a, qty |-> f.qty, close |-> close])]

(* The gross exposure after the order, before it is cut to what is held *)
Projected(sim, data, bar, order) ==
    SumAssets(LAMBDA a : Abs(sim.positions[a] + (IF a = order.asset THEN order.qty ELSE 0))
                         * data[a][bar])

(* leverage_limit, by default *)
Leverage(short) == IF short THEN 2 ELSE 1

(* One pending order: skipped over the leverage limit; without shorts a    *)
(* sell only flattens.                                                     *)
FillOrder(sim, data, bar, order) ==
    LET close == data[order.asset][bar]
        held  == sim.positions[order.asset]
        qty   == IF order.qty < 0 /\ ~sim.short /\ held + order.qty < 0 THEN -held ELSE order.qty
    IN IF Projected(sim, data, bar, order) > Leverage(sim.short) * High(sim.equity, 0) \/ qty = 0 THEN sim
       ELSE ProcessFill(sim, order.asset, bar, close, ComputeFill(qty, close))

(* Portfolio.accrue_borrow on every open short *)
AccrueBorrow(sim, data, bar) ==
    LET cost == SumAssets(LAMBDA a :
                    IF sim.positions[a] < 0 THEN (-sim.positions[a] * data[a][bar]) \div BorrowRate ELSE 0)
    IN [sim EXCEPT !.cash = @ - cost, !.borrow = @ + cost]

(* FixedFractionalSizer.size: a flat signal has no strength. *)
Size(signal, price, equity) ==
    LET shares == Abs(equity) \div (Fraction * price)
    IN signal.direction * (IF equity < 0 THEN -shares ELSE shares)

(* An order for each signal; one that sizes to nothing is dropped before   *)
(* the branch that would turn a flat signal into a liquidation.            *)
StageOrders(sim, signals, data, bar) ==
    LET order(s) == [asset |-> s.asset, signalled |-> bar,
                     qty |-> Size(s, data[s.asset][bar], sim.equity)]
    IN SelectSeq([i \in DOMAIN signals |-> order(signals[i])], LAMBDA o : o.qty # 0)

(* One pass of the main event loop *)
SimulateBar(sim, kind, data, bar) ==
    LET accrued == AccrueBorrow(sim, data, bar)
        filled  == FoldLeft(LAMBDA s, o : FillOrder(s, data, bar, o), accrued, accrued.pending)
        signals == Signals(kind, filled, data, bar)
    IN [filled EXCEPT
           !.calls = @ + Cardinality(Assets),
           !.pending = StageOrders(filled, signals, data, bar),
           !.equity = filled.cash + SumAssets(LAMBDA a : filled.positions[a] * data[a][bar])]
=============================================================================

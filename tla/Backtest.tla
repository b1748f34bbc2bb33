------------------------------ MODULE Backtest ------------------------------
(***************************************************************************)
(* The portfolio backtester of backend/services/backtest_service.py with   *)
(* the fills of backend/services/execution_model.py, bar by bar. Money,    *)
(* prices and shares are whole numbers, divisions round down, and a cost   *)
(* model is a cost per share. Assets are numbers, in the order of their    *)
(* tickers; a run is told them in any order (listing).                     *)
(*                                                                         *)
(* data   asset |-> its closes                                             *)
(* book   the state of a run; its short is allow_short_selling             *)
(***************************************************************************)
EXTENDS StrategySignals, FiniteSets

CONSTANTS Assets,
          Capital,         \* initial_capital
          Delay,           \* execution_delay_bars
          WarmupMargin,    \* the bars _start_bar adds to the slow window
          HalfSpread, Slippage,
          FeePct, MinFee, MaxFeePct, \* CommissionModel
          Volume, Participation,     \* shares a day, and the share of them a bar may take
          BorrowRate,      \* a short pays 1/BorrowRate of its value a day
          PositionPct      \* PositionSizer: the most of equity in one name

Low(a, b)  == IF a < b THEN a ELSE b
High(a, b) == IF a > b THEN a ELSE b

-----------------------------------------------------------------------------
(* execution_model.py *)

(* CommissionModel.compute *)
Commission(qty, price) ==
    Low(High(MinFee, (qty * price * FeePct) \div 100), (qty * price * MaxFeePct) \div 100)

(* PositionSizer.compute_shares, equal weight *)
ComputeShares(equity, price, nAssets) ==
    IF equity <= 0 THEN 0
    ELSE Low(equity \div nAssets, (equity * PositionPct) \div 100) \div price

(* _pre_trade_liquidity: what moved up to the decision bar widens costs. *)
DailyVol(close, decision) ==
    IF decision > 2 /\ \E t \in 2..decision : close[t] # close[t - 1] THEN 1 ELSE 0

NoFill == [qty |-> 0, price |-> 0, fee |-> 0, friction |-> 0]

(* SpreadModel.estimate_spread and SlippageModel.compute: costs per share, *)
(* wider when the asset has moved                                          *)
HalfSpreadAt(vol) == HalfSpread + vol

SlippageAt(vol) == Slippage + vol

(* SlippageModel.can_fill_fully and partial_fill_qty *)
PartialFill(qty) == Low(qty, Volume \div Participation)

(* ExecutionSimulator.execute_order: without short selling only what is    *)
(* held is sold; the volume limits a fill, then the cash limits a buy.     *)
ExecuteOrder(side, desired, price, vol, cash, held, short) ==
    LET owned   == IF side = "sell" /\ ~short THEN Low(desired, High(0, held)) ELSE desired
        liquid  == PartialFill(owned)
        cost    == HalfSpreadAt(vol) + SlippageAt(vol)
        at      == IF side = "buy" THEN price + cost ELSE High(price - cost, price \div 2)
        qty     == IF side = "buy" THEN Low(liquid, cash \div at) ELSE liquid
    IN IF qty < 1 THEN NoFill
       ELSE [qty |-> qty, price |-> at, fee |-> Commission(qty, at), friction |-> qty * cost]

(* BorrowCostModel.daily_cost *)
DailyBorrowCost(shares, price) == IF shares < 0 THEN (-shares * price) \div BorrowRate ELSE 0

-----------------------------------------------------------------------------
(* BacktestEngine *)

SumAssets(F(_)) == FoldLeft(LAMBDA a, t : a + F(t), 0, SetToSeq(Assets))

NewBook(short) ==
    [short |-> short, capital |-> Capital, positions |-> [a \in Assets |-> 0], trades |-> << >>,
     fees |-> 0, friction |-> 0, borrow |-> 0, net |-> << >>, gross |-> << >>]

(* _start_bar *)
StartBar(kind) == 1 + High(Slow + WarmupMargin, WarmupBars(kind, Fast, Slow) - 1 + Delay)

(* A filled order: cash, position, accumulators and the trade log *)
Settle(book, a, side, bar, close, fill) ==
    LET sign == IF side = "buy" THEN 1 ELSE -1
    IN IF fill.qty = 0 THEN book
       ELSE [book EXCEPT !.capital = @ - sign * fill.qty * fill.price - fill.fee,
                         !.positions[a] = @ + sign * fill.qty,
                         !.fees = @ + fill.fee,
                         !.friction = @ + fill.friction,
                         !.trades = Append(@, [bar |-> bar, asset |-> a, qty |-> sign * fill.qty,
                                               price |-> fill.price, close |-> close])]

(* Every trade may spend the initial capital (mutant of Trade). *)
TradeOfCapital(book, a, side, desired, bar, close, vol) ==
    Settle(book, a, side, bar, close,
           ExecuteOrder(side, desired, close, vol, Capital, book.positions[a], book.short))

(* An order is executed with the cash the trades before it left. *)
Trade(book, a, side, desired, bar, close, vol) ==
    Settle(book, a, side, bar, close,
           ExecuteOrder(side, desired, close, vol, book.capital, book.positions[a], book.short))

(* A buy closes a short, then goes long; a sell closes the long and, when  *)
(* it is strong and shorts are allowed, goes short.                        *)
TakeSignal(book, a, signal, bar, data, equity) ==
    LET close  == data[a][bar]
        vol    == DailyVol(data[a], bar - Delay)
        held   == book.positions[a]
        shares == ComputeShares(equity, close, Cardinality(Assets))
        closed == IF held < 0 THEN Trade(book, a, "buy", -held, bar, close, vol)
                  ELSE IF signal < 0 THEN Trade(book, a, "sell", held, bar, close, vol)
                  ELSE book
    IN CASE signal > 0 -> Trade(closed, a, "buy", shares, bar, close, vol)
         [] signal = -2 /\ book.short -> Trade(closed, a, "sell", shares, bar, close, vol)
         [] OTHER -> closed

TickerOrder(listing) == SetToSortSeq({listing[i] : i \in DOMAIN listing}, LAMBDA a, b : a < b)

(* Exits settle before entries, each group in ticker order; equity is      *)
(* marked at the decision bar.                                             *)
SettleBar(book, kind, data, listing, bar, fast, slow) ==
    LET decision == bar - Delay
        equity   == book.capital + SumAssets(LAMBDA a : book.positions[a] * data[a][decision])
        signal(a) == SignalAt(kind, data[a], decision, 1, fast, slow)
        exits    == SelectSeq(TickerOrder(listing),
                              LAMBDA a : signal(a) < 0 /\ book.positions[a] > 0)
        entries  == SelectSeq(TickerOrder(listing),
                              LAMBDA a : signal(a) > 0 /\ book.positions[a] <= 0)
    IN FoldLeft(LAMBDA b, a : TakeSignal(b, a, signal(a), bar, data, equity), book, exits \o entries)

(* Borrow is charged, then the portfolio is marked to market; the gross    *)
(* curve adds the costs back.                                              *)
MarkBar(book, data, bar) ==
    LET cost == SumAssets(LAMBDA a : DailyBorrowCost(book.positions[a], data[a][bar]))
        value == book.capital - cost + SumAssets(LAMBDA a : book.positions[a] * data[a][bar])
        borrow == book.borrow + cost
    IN [book EXCEPT !.capital = @ - cost, !.borrow = borrow,
                    !.net = Append(@, value),
                    !.gross = Append(@, value + book.fees + book.friction + borrow)]

(* _run_strategy: one bar of it *)
RunBar(book, kind, data, listing, bar, fast, slow) ==
    MarkBar(SettleBar(book, kind, data, listing, bar, fast, slow), data, bar)

(* _run_strategy, over the bars first..last. The liquidation at the end    *)
(* changes nothing that is returned.                                       *)
RunStrategy(kind, short, data, listing, first, last, fast, slow) ==
    FoldLeft(LAMBDA b, bar : RunBar(b, kind, data, listing, bar, fast, slow),
             NewBook(short), [i \in 1..High(0, last - first + 1) |-> first + i - 1])

-----------------------------------------------------------------------------
(* Walk-forward validation, from backend/services/walk_forward.py: folds   *)
(* of a training and a test window, the windows of the moving averages     *)
(* chosen on the one and evaluated on the other by the backtester.         *)

CONSTANTS FastRange, SlowRange,          \* the search ranges, as sequences
          TrainBars, TestBars, StepBars  \* lengths of the windows and the slide

(* WalkForwardEngine.run: the windows of each fold, [start, end) *)
Folds(windowType, nBars) ==
    LET train(k) == TrainBars + k * StepBars
    IN {[train_start |-> IF windowType = "rolling" THEN k * StepBars ELSE 0,
         train_end |-> train(k), test_start |-> train(k), test_end |-> train(k) + TestBars] :
            k \in {i \in 0..nBars : train(i) + TestBars <= nBars}}

(* _parameter_grid: the slow window longer than the fast one *)
ParameterGrid ==
    FlattenSeq([i \in DOMAIN FastRange |->
        SelectSeq([j \in DOMAIN SlowRange |-> <<FastRange[i], SlowRange[j]>>],
                  LAMBDA p : p[2] > p[1])])

(* _evaluate on [start, end): each window starts flat with fresh capital,  *)
(* signals may read closes before it, nothing at or after its end.         *)
Evaluate(data, listing, start, end, p) ==
    LET first == High(start, WarmupBars("ma_crossover", p[1], p[2]) - 1 + Delay)
        held  == [a \in DOMAIN data |-> SubSeq(data[a], 1, end)]
    IN IF end - first < 2 THEN << >>
       ELSE RunStrategy("ma_crossover", FALSE, held, listing, first + 1, end, p[1], p[2]).net

(* The objective of the search; the Sharpe ratio of the curve is modelled  *)
(* by the equity it ends with.                                             *)
Score(curve) == IF curve = << >> THEN Capital ELSE Last(curve)

(* _run_fold, the search: the first of the best on the training window *)
BestParameters(data, listing, fold) ==
    LET better(best, p) ==
            LET score == Score(Evaluate(data, listing, fold.train_start, fold.train_end, p))
            IN IF score > best.score THEN [windows |-> p, score |-> score] ELSE best
    IN FoldLeft(better, [windows |-> ParameterGrid[1], score |-> -1], ParameterGrid).windows

(* _run_fold: the chosen windows, and their curve out of sample *)
RunFold(data, listing, fold) ==
    LET best == BestParameters(data, listing, fold)
    IN [best |-> best, oos |-> Evaluate(data, listing, fold.test_start, fold.test_end, best)]
=============================================================================

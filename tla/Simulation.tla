----------------------------- MODULE Simulation -----------------------------
(***************************************************************************)
(* The engines that simulate a strategy on historical closes: the          *)
(* backtester and walk-forward validation (Backtest) and the event-driven  *)
(* simulator (EventSimulator). A behaviour is a pair of runs               *)
(* of one engine, bar by bar (fold by fold), on closes that are the same   *)
(* up to a bar, the cut, and different after it; the second run is told    *)
(* its assets in another order.                                            *)
(***************************************************************************)
EXTENDS EventSimulator

CONSTANTS Prices,
          Bars, FoldBars   \* closes of a run, and of a walk-forward run

VARIABLES engine,   \* "backtest", "events" or "folds"
          kind,     \* the strategy, or the window type of the folds
          paths,    \* the closes of the two runs
          cut,
          bar,      \* the next bar, or fold
          runs      \* the two runs, or their results by fold

simulationVars == <<engine, kind, paths, cut, bar, runs>>

(* The opposite close, so that every bar after the cut differs *)
Mirror(price) == CHOOSE p \in Prices : p # price /\ \A q \in Prices \ {price} : p <= q

Diverging(path, at) ==
    [a \in Assets |-> [t \in DOMAIN path[a] |-> IF t <= at THEN path[a][t] ELSE Mirror(path[a][t])]]

Listings == <<SetToSortSeq(Assets, LAMBDA a, b : a < b), SetToSortSeq(Assets, LAMBDA a, b : a > b)>>

FoldsInOrder(windowType) ==
    SetToSortSeq(Folds(windowType, FoldBars), LAMBDA f, g : f.test_start < g.test_start)

(* In a walk-forward run the assets move together, which keeps it small. *)
Closes(e) ==
    IF e = "folds" THEN {[a \in Assets |-> c] : c \in [1..FoldBars -> Prices]}
    ELSE [Assets -> [1..Bars -> Prices]]

(* Folds: where the last training window ends, and where its test does *)
Cuts(e) == IF e = "folds" THEN {FoldBars - 2, FoldBars} ELSE {Bars - 1, Bars}

SimulationInit ==
    /\ \/ engine = "backtest" /\ kind \in StrategyType
          /\ \E short \in BOOLEAN : runs = [i \in 1..2 |-> NewBook(short)]
          /\ bar = StartBar(kind)
       \/ engine = "events" /\ kind \in SimStrategies
          /\ \E short \in BOOLEAN : runs = [i \in 1..2 |-> NewSim(short)]
          /\ bar = 1
       \/ engine = "folds" /\ kind \in {"rolling", "expanding"}
          /\ runs = [i \in 1..2 |-> << >>] /\ bar = 1
    /\ \E path \in Closes(engine) :
          /\ cut \in Cuts(engine)
          /\ paths = <<path, Diverging(path, cut)>>

Advances(F(_)) ==
    /\ runs' = <<F(1), F(2)>>
    /\ bar' = bar + 1
    /\ UNCHANGED <<engine, kind, paths, cut>>

BacktestBar ==
    /\ engine = "backtest" /\ bar <= Bars
    /\ Advances(LAMBDA i : RunBar(runs[i], kind, paths[i], Listings[i], bar, Fast, Slow))

SimulatorBar ==
    /\ engine = "events" /\ bar <= Bars
    /\ Advances(LAMBDA i : SimulateBar(runs[i], kind, paths[i], bar))

WalkForwardFold ==
    /\ engine = "folds" /\ bar <= Len(FoldsInOrder(kind))
    /\ Advances(LAMBDA i : Append(runs[i], RunFold(paths[i], Listings[i], FoldsInOrder(kind)[bar])))

SimulationNext == BacktestBar \/ SimulatorBar \/ WalkForwardFold

-----------------------------------------------------------------------------
(* Properties *)

(* No engine looks ahead: up to the last bar the two runs have in common   *)
(* they hold, trade, pay and stage the same, although signals are computed *)
(* from the whole arrays before the first bar, and although one of them    *)
(* was told its assets in another order, which must not decide "which one  *)
(* is capped" when cash runs out (backtest_service). A fold's windows are  *)
(* chosen from the closes before its test window, which is evaluated on    *)
(* none at or after its end (walk_forward).                                *)
DecidedByThePast ==
    IF engine = "folds"
    THEN \A f \in DOMAIN runs[1] :
            LET fold == FoldsInOrder(kind)[f]
            IN /\ fold.train_end <= cut => runs[1][f].best = runs[2][f].best
               /\ fold.test_end <= cut => runs[1][f] = runs[2][f]
    ELSE bar - 1 <= cut => runs[1] = runs[2]

(* A trade follows the signal that the closes before its bar give alone,   *)
(* although the signals were computed from all of them; the simulator      *)
(* trades the same crossover as the backtester: "a strategy validated in   *)
(* one engine is the same strategy in the others" (strategy_signals).      *)
TradesFollowSignals ==
    engine = "backtest" \/ (engine = "events" /\ kind = "ma_crossover") =>
        \A i \in 1..2 :
            LET log == IF engine = "events" THEN runs[i].fills ELSE runs[i].trades
            IN \A n \in DOMAIN log :
                  LET known  == SubSeq(paths[i][log[n].asset], 1, log[n].bar - Delay)
                      signal == LatestSignal(kind, known)
                  IN (signal > 0 /\ log[n].qty > 0) \/ (signal < 0 /\ log[n].qty < 0)

(* No engine looks ahead or trades another signal than its strategy's. *)
NoLookAhead == DecidedByThePast /\ TradesFollowSignals

(* The equity the trades of a log would have without any cost *)
Frictionless(log, data, at) ==
    LET worth(n) == log[n].qty * (data[log[n].asset][at] - log[n].close)
    IN FoldLeft(LAMBDA sum, n : sum + worth(n), Capital, [n \in DOMAIN log |-> n])

(* Every cost is charged once: the equity with all reported costs added    *)
(* back is what the same trades would have made without any. "Execution    *)
(* impact is embedded in fill_price" (event_simulator), and the gross      *)
(* curve of the backtester ignores transaction costs.                      *)
CostsAreCountedOnce ==
    \A i \in 1..2 :
        LET r == runs[i]
        IN /\ engine = "backtest" /\ r.gross # << >> =>
                 Last(r.gross) = Frictionless(r.trades, paths[i], bar - 1)
           /\ engine = "events" /\ bar > 1 =>
                 r.equity + r.commission + r.slippage + r.borrow
                     = Frictionless(r.fills, paths[i], bar - 1)

(* Without short selling no run ever holds a negative position, however    *)
(* many sells of an asset a bar brings, and the backtester spends no cash  *)
(* it does not have, fees aside, also when several entries and exits       *)
(* share a bar.                                                            *)
NeverOverspends ==
    engine # "folds" =>
        \A i \in {k \in 1..2 : ~runs[k].short} :
            /\ \A a \in Assets : runs[i].positions[a] >= 0
            /\ engine = "backtest" => runs[i].capital + runs[i].fees >= 0
=============================================================================

-------------------------- MODULE StrategySignals --------------------------
(***************************************************************************)
(* The signals of the built-in strategies, from                            *)
(* backend/services/strategy_signals.py. Closes are positive integers and  *)
(* averages are compared without dividing; bar t of the code is element    *)
(* t + 1. A signal is modelled by what the engines tell apart: 1 buy,      *)
(* 0 hold, -1 sell, -2 sell with a strength above one half.                *)
(***************************************************************************)
EXTENDS Integers, Sequences, SequencesExt

CONSTANTS Fast, Slow,           \* moving-average windows
          Lookback,             \* of momentum, mean reversion and sba
          EntryPct, ExitPct,    \* momentum thresholds, in percent up and down
          EntryZ                \* mr_entry_zscore, squared

StrategyType == {"ma_crossover", "momentum", "mean_reversion", "sba_signal"}

(* The sum of the n closes that end at bar t *)
SumTo(close, t, n) == FoldLeft(LAMBDA a, c : a + c, 0, SubSeq(close, t - n + 1, t))

(* warmup_bars: closes needed before the first signal *)
WarmupBars(kind, fast, slow) ==
    IF kind = "ma_crossover" THEN (IF fast > slow THEN fast ELSE slow) + 1 ELSE Lookback + 1

(* The slow average from one bar later (mutant of AverageGap). *)
AverageGapAhead(close, t, fast, slow) ==
    slow * SumTo(close, t, fast)
        - fast * SumTo(close, IF t < Len(close) THEN t + 1 ELSE t, slow)

(* _rolling_mean: the fast average minus the slow one, times both windows *)
AverageGap(close, t, fast, slow) ==
    slow * SumTo(close, t, fast) - fast * SumTo(close, t, slow)

(* ma_crossover_series at bar t *)
MaCrossover(close, t, fast, slow) ==
    LET prev == AverageGap(close, t - 1, fast, slow)
        cur  == AverageGap(close, t, fast, slow)
    IN CASE t < WarmupBars("ma_crossover", fast, slow) -> 0
         [] OTHER -> CASE prev <= 0 /\ cur > 0 -> 1
                       [] prev >= 0 /\ cur < 0 -> -2
                       [] OTHER -> 0

(* _momentum_series: the change over the lookback against the thresholds;  *)
(* below -10% its strength exceeds one half.                               *)
Momentum(close, t) ==
    LET base == close[t - Lookback]
        gain == 100 * (close[t] - base)
    IN CASE t <= Lookback -> 0
         [] OTHER -> CASE gain > EntryPct * base -> 1
                       [] gain < -10 * base /\ gain < -(ExitPct * base) -> -2
                       [] gain < -(ExitPct * base) -> -1
                       [] OTHER -> 0

(* _mean_reversion_series: the z-score of the close in the window that     *)
(* ends with it, squared to stay with integers; buy below the entry score, *)
(* sell above 0, strongly above 1.5; no signal where nothing moved.          *)
MeanReversion(close, t) ==
    LET n   == Lookback
        sum == SumTo(close, t, n)
        dev(c) == n * c - sum
        d   == dev(close[t])
        spread == FoldLeft(LAMBDA a, c : a + dev(c) * dev(c), 0, SubSeq(close, t - n + 1, t))
    IN CASE n < 2 \/ t <= n -> 0
         [] OTHER -> CASE spread = 0 -> 0
                       [] d < 0 /\ d * d * (n - 1) > EntryZ * spread -> 1
                       [] d > 0 /\ 4 * d * d * (n - 1) > 9 * spread -> -2
                       [] d > 0 -> -1
                       [] OTHER -> 0

(* _sba_series from bar `start` on: the momentum feature of the closes so  *)
(* far, squashed, against the thresholds (3% and -3% of change).           *)
Sba(close, t, start) ==
    LET base == close[t - Lookback]
        gain == 100 * (close[t] - base)
    IN CASE t <= Lookback \/ t < start -> 0
         [] OTHER -> CASE gain > 3 * base -> 1
                       [] gain < -11 * base -> -2
                       [] gain < -3 * base -> -1
                       [] OTHER -> 0

(* signal_series: element t *)
SignalAt(kind, close, t, start, fast, slow) ==
    CASE kind = "ma_crossover"   -> MaCrossover(close, t, fast, slow)
      [] kind = "momentum"       -> Momentum(close, t)
      [] kind = "mean_reversion" -> MeanReversion(close, t)
      [] kind = "sba_signal"     -> Sba(close, t, start)

(* latest_signal: the series of the closes so far, from its last bar on *)
LatestSignal(kind, close) ==
    IF close = << >> THEN 0 ELSE SignalAt(kind, close, Len(close), Len(close), Fast, Slow)
=============================================================================

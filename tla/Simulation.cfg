INIT SimulationInit
NEXT SimulationNext
CONSTANTS
    Assets = {1, 2}
    Prices = {8, 12}
    Bars = 6
    FoldBars = 11
    Fast = 1
    Slow = 2
    Lookback = 3
    EntryPct = 5
    ExitPct = 2
    EntryZ = 1
    Capital = 120
    Delay = 1
    WarmupMargin = 1
    HalfSpread = 0
    Slippage = 1
    FeePct = 5
    MinFee = 1
    MaxFeePct = 50
    Volume = 60
    Participation = 10
    BorrowRate = 10
    PositionPct = 100
    FastRange <- Fasts
    SlowRange <- Slows
    TrainBars = 5
    TestBars = 2
    StepBars = 4
    Fraction = 2
    Impact = 1
    Band = 1
    Rebalance = 3
INVARIANTS
    NoLookAhead
    CostsAreCountedOnce
    NeverOverspends
CHECK_DEADLOCK FALSE

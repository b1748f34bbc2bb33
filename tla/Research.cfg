SPECIFICATION ResearchSpec
CONSTANTS
    p1 = p1
    p2 = p2
    backtest = backtest
    replay = replay
    aapl = aapl
    gone = gone
    Nobody = Nobody
    Requests = {1, 2, 3, 4}
    Processes = {p1, p2}
    ProcessOf <- Served
    Works = {backtest, replay}
    WorkOf <- Asked
    Shared = {replay}
    ActiveLimit = 2
    Exps = {x1}
    Jobs = {j1, j2, j3}
    Users = {owner, op}
    Operators = {op}
    Inputs = {good, losing, foreign}
    Executable = {good, losing}
    Profitable = {good, foreign}
    MaxUpgrades = 1
    MaxRestarts = 1
    None = None
    Symbols = {aapl, gone}
    FamilyOf <- Families
    LastTraded <- Lasts
    ExDates <- Pays
    Holders = {1, 2}
    Tasks = {1, 2}
    Period = 2
    Margin = 2
    FirstDay = 4
    MaxDay = 5
    MaxRevisions = 1
    MaxDamage = 1
    Keys = {1, 2}
    Floats = {0}
    NegZero = NegZero
    NaN = NaN
    Null = Null
    Strings <- Labels
    Width = 2
    MaxRows = 2
INVARIANTS
    AdmissionLimits
    ValidatedIsReproduced
    RerunSeesTheSame
    ResultsAreRepeatable
    SameDataSameName
PROPERTIES
    AdmissionEnds
    RecordsAreFinal
CHECK_DEADLOCK FALSE

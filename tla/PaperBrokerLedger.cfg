SPECIFICATION Spec
CONSTANTS
    k1 = k1
    NoKey = NoKey
    Keys = {k1}
    Requests = {1, 2, 3}
    Order <- Buys
    Prices = {1000, 1006, 2000}
    InitialCash = 2012
    CapPercent = 100
    MaxCrashes = 1
INVARIANTS
    ReservationsHold
    LedgerIsFills
PROPERTIES
    FinalIsFinal
VIEW Unaudited
CHECK_DEADLOCK FALSE

SPECIFICATION Spec
CONSTANTS
    k1 = k1
    NoKey = NoKey
    Keys = {k1}
    Requests = {1, 2, 3, 4}
    Order <- TwoSells
    Prices = {1}
    InitialCash = 4
    CapPercent = 100
    MaxCrashes = 0
INVARIANT
    NoPhantomShares
CHECK_DEADLOCK FALSE

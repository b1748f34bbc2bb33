SPECIFICATION FairSpec
CONSTANTS
    k1 = k1
    NoKey = NoKey
    Keys = {k1}
    Requests = {1, 2, 3}
    Order <- RoundTrip
    Prices = {1, 2}
    InitialCash = 4
    CapPercent = 100
    MaxCrashes = 1
INVARIANT
    OneOrderPerKey
PROPERTY
    RequestsResolve
CHECK_DEADLOCK FALSE

SPECIFICATION FairSpec
CONSTANTS
    k1 = k1
    NoKey = NoKey
    Keys = {k1}
    Requests = {1}
    Order <- OneBuy
    Prices = {1, 2, 3}
    InitialCash = 4
    CapPercent = 100
    MaxCrashes = 1
PROPERTY
    PendingIsTransient
CHECK_DEADLOCK FALSE

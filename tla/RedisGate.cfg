SPECIFICATION Spec
CONSTANTS
    everything = everything
    asset = asset
    Processes = {p1, p2}
    Switches = {everything, asset}
    Orders = {1}
    Subject <- StoppedBy
    MaxCalls = 3
    MaxFaults = 2
    Tabs = {t1, t2}
    MaxPerUser = 1
    CounterTTL = 2
    Copies = {c1, c2, c3, c4}
    MaxRequests = 2
    RateLimit = 2
    RateWindow = 2
    ClockWindow = 1
    NonceTTL = 4
    MaxStall = 1
    HelloThreads = {h1, h2}
    Nonces = {n1, n2}
    MaxSessions = 1
    SessionLife = 2
    MaxHellos = 4
    MaxLives = 1
INVARIANTS
    EngagedStopsOrders
    NoncesAreUsedOnce
    RateIsKept
    SlotsWithinLimit
SYMMETRY Alike
CHECK_DEADLOCK FALSE

SPECIFICATION VenueSpec
CONSTANTS
    Offers <- SomeOffers
    FeedEvents <- SomeEvents
    Latencies = {0, 1}
    InitialCash = 4
    InitialPosition = 1
    MaxOrders = 2
    MaxEvents = 3
    MaxTime = 1
    SnapshotInterval = 1
    WarmupEvents = 0
    CancelAfter = 1
    OrderQuantity = 2
    Prices <- AroundADollar
    Readers = {r1, r2}
    Quoted = {1, 2}
    LockOf <- OneLock
    CacheTTL = 2
    FailureTTL = 2
    PruneAt = 1
    MaxQuoteAge = 1
    MaxClock = 3
INVARIANTS
    OrdersAreCovered
    QueueAheadIsTrue
    OrdersAreAccountedFor
    PricesAreHonest
    ReplayHoldsOneLot
CHECK_DEADLOCK FALSE

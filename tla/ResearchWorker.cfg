SPECIFICATION FairSpec
CONSTANTS
    NoWorker = NoWorker
    Jobs = {1}
    Workers = {w1, w2}
    MaxAttempts = 2
    RecycleAfter = 2
    Mortal = {w2}
    Stoppable = {w2}
    MaxFaults = 1
INVARIANTS
    FenceIsExact
    ResultsAreSound
PROPERTIES
    ImplementsLifecycle
    EveryJobEnds
    StopsWhenTold

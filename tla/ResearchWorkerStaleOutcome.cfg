SPECIFICATION Spec
CONSTANTS
    NoWorker = NoWorker
    Jobs = {1, 2}
    Workers = {w1}
    MaxAttempts = 2
    RecycleAfter = 2
    Mortal = {}
    Stoppable = {}
    MaxFaults = 1
INVARIANT
    ResultBelongsToJob

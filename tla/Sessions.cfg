SPECIFICATION Spec
CONSTANTS
    Users = {alice}
    Processes = {p1, p2}
    Addresses = {home}
    Requests = {r1, r2}
    MaxAttempts = 2
    FailWindow = 2
    LockoutSeconds = 2
    RefreshSeconds = 1
    AbsoluteSeconds = 1
    JwtSeconds = 1
    MaxTokens = 3
    MaxNow = 4
    MaxStarts = 5
INVARIANTS
    OneHeadPerFamily
    EndedStaysEnded
    LifetimeIsAbsolute
    GuessesBounded
PROPERTIES
    EveryRequestEnds
CHECK_DEADLOCK FALSE

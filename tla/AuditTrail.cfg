SPECIFICATION TrailSpec
CONSTANTS
    p1 = p1
    p2 = p2
    t1 = t1
    t2 = t2
    t3 = t3
    t4 = t4
    c1 = c1
    c2 = c2
    Nobody = Nobody
    Threads = {t1, t2, t3, t4}
    Processes = {p1, p2}
    ProcessOf <- ThreeAndOne
    Bad = {t2}
    BatchMax = 2
    MaxFaults = 2
    Absent = Absent
    Signers = {t1, t2, t3}
    Servers = {p1, p2}
    ServerOf <- TwoAndOne
    MaxKeys = 4
    NoHead = NoHead
    Checks = {c1, c2}
    MaxLinks = 2
    MaxEdits = 2
    MaxReports = 2
    setup = setup
    admin = admin
    upgrader = upgrader
    web = web
    reader = reader
    worker = worker
    Starters = {setup, admin, upgrader, web, reader, worker}
    HeadOf <- Heads
    LoginOf <- Logins
    RoleOf <- Roles
    MaxBootCrashes = 1
    Unheld = Unheld
INVARIANTS
    SchemaIsWhole
    ChainIsLinear
    AppendsAreHonest
    SignaturesResolve
    AlarmIsHeard
PROPERTY
    EveryAppendReturns
CHECK_DEADLOCK FALSE

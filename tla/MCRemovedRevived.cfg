SPECIFICATION SupSpec
CONSTANTS
    Conns = {c1, c2, c3}
    Clients = {k1, k2}
    Tasks = {t1, s1}
    s1 = s1
    SupTask <- MCSupTask
    NoConn = NoConn
    NoClient = NoClient
    NoTask = NoTask
    NoName = NoName
    Names = {a}
    Lazy = {a}
    Pinned = {}
    MaxLive = 0
    MaxConcurrency = 1
    FailureThreshold = 2
    EscalationAfter = 2
    FastRetries = 1
    Ops = {"boot_fail", "fail", "reload"}
VIEW View
CHECK_DEADLOCK FALSE
INVARIANT RemovedStaysDown

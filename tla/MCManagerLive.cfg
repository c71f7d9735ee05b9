SPECIFICATION FairSpec
CONSTANTS
    Conns = {c1, c2}
    Clients = {k1, k2}
    Tasks = {t1, t2}
    NoConn = NoConn
    NoClient = NoClient
    NoTask = NoTask
    NoName = NoName
    Names = {a}
    Lazy = {a}
    Pinned = {}
    MaxLive = 0
    MaxConcurrency = 1
    Ops = {"route", "reap", "stop", "reload", "fail", "drain_timeout"}
CHECK_DEADLOCK FALSE
PROPERTY OperationsEnd

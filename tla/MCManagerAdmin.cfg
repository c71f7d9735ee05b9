SPECIFICATION Spec
CONSTANTS
    Conns = {c1, c2, c3}
    Clients = {k1, k2}
    Tasks = {t1, t2}
    NoConn = NoConn
    NoClient = NoClient
    NoTask = NoTask
    NoName = NoName
    Names = {a}
    Lazy = {a}
    Pinned = {}
    MaxLive = 0
    MaxConcurrency = 1
    Ops = {"python311", "route", "reap", "warm", "reconnect", "reload", "stop", "fail", "boot_fail", "auth", "timeout", "drain_timeout"}
SYMMETRY Symmetry
VIEW View
CHECK_DEADLOCK FALSE
INVARIANTS UpHasOutbound NoLostWakeup OneAttempt RegistryCurrent LockHolderProgress

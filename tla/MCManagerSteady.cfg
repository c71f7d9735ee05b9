SPECIFICATION Spec
CONSTANTS
    Conns = {c1, c2, c3, c4, c5}
    Clients = {k1, k2, k3, k4, k5}
    Tasks = {t1, t2, t3}
    NoConn = NoConn
    NoClient = NoClient
    NoTask = NoTask
    NoName = NoName
    Names = {a, b}
    Lazy = {a}
    Pinned = {b}
    MaxLive = 0
    MaxConcurrency = 1
    Ops = {"route", "read", "reap", "fail", "boot_fail"}
SYMMETRY Symmetry
VIEW View
CHECK_DEADLOCK FALSE
INVARIANTS NoOrphan NoCallCut LiveTracked
PROPERTY StaysDiscoverable

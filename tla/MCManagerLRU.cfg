SPECIFICATION Spec
CONSTANTS
    Conns = {c1, c2, c3, c4}
    Clients = {k1, k2, k3, k4}
    Tasks = {t1, t2}
    NoConn = NoConn
    NoClient = NoClient
    NoTask = NoTask
    NoName = NoName
    Names = {a, b, p}
    Lazy = {a}
    Pinned = {p}
    MaxLive = 1
    MaxConcurrency = 1
    Ops = {"route", "stop", "reap"}
SYMMETRY Symmetry
VIEW View
CHECK_DEADLOCK FALSE
INVARIANTS PinnedStaysUp

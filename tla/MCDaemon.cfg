SPECIFICATION DaemonSpec
CONSTANTS
    Pids = {p, q, r}
    Clients = {c}
    NoPid = NoPid
CHECK_DEADLOCK FALSE
INVARIANTS ServingNamed LoneStartBinds
PROPERTY StartsEnd

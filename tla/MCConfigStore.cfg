SPECIFICATION FilesSpec
CONSTANTS
    Servers = {a, b}
    Torn = Torn
    NoBackup = NoBackup
    Procs = {p, q}
    SnapshotMin = 1
    GuardMin = 1
    MaxSnapshots = 2
    MaxSeconds = 1
    MaxCommands = 4
SYMMETRY Symmetry
CHECK_DEADLOCK FALSE
INVARIANTS TornRecoverable RegisterRecoverable
PROPERTIES ImplementsConfigFile SnapshottedFirst ForeignEntriesKept

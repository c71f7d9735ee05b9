SPECIFICATION CallSpec
CONSTANTS
    Calls = {a, b, c}
    StreamIds = {a, b, c}
    StreamOf <- MCStreamOf
    Readers = {r1}
    NoStream = NoStream
    MaxEvents = 2
    MaxStreams = 2
    MaxLog = 5
SYMMETRY Symmetry
CHECK_DEADLOCK FALSE
INVARIANTS ReplayExact OwnerOrNothing AtMostOnce
PROPERTY FreshKept

SPECIFICATION FrontSpec
CONSTANTS
    Sids = {s, t, u}
    StdioSid = s
    NoSid = NoSid
    Requests = {p}
    MaxSessions = 2
    Timeout = 1
    MaxChanges = 2
    MaxLines = 2
    PipeSize = 1
INVARIANTS KeptWhileUsed
PROPERTIES ServedWhileFresh RefusedOnlyWhenFull ComesToKnow StopsWithClient

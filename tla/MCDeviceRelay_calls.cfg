CONSTANTS
    p1 = p1
    p2 = p2
    x = x
    y = y
    Callers = {p1, p2}
    Links = {1, 2}
    Sessions = {1, 2}
    Chats = {x}
    DialAttempts = 1
    NudgeCap = 1
    MaxCalls = 1
    MaxInputs = 2
    MaxFaults = 1
    NoLink = NoLink
    NoSession = NoSession
    NoCaller = NoCaller
SPECIFICATION Spec
CHECK_DEADLOCK FALSE
INVARIANTS
    TypeOK
    NoLeakedConn
    CallsAttended
PROPERTIES
    OnlyTakeoverHangs
    NudgeOpens

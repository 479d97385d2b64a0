CONSTANTS
    a = a
    b = b
    c1 = c1
    c2 = c2
    p1 = p1
    p2 = p2
    Chats = {a}
    Hosted = {a}
    Callers = {p1, p2}
    Runners = {p1}
    Handles = {1, 2}
    Commands = {c1}
    ChatOf <- ChatOfCommand
    Cap = 0
    MaxPurges = 1
    NoHandle = NoHandle
    NoChat = NoChat
    NoCommand = NoCommand
SPECIFICATION Spec
CHECK_DEADLOCK FALSE
INVARIANTS
    TypeOK
    LossNeedsRace
    TwiceNeedsRace
    PurgedStaysGone
CONSTRAINT Unraced
PROPERTY PendingIsDrained

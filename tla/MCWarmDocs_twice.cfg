CONSTANTS
    a = a
    b = b
    c1 = c1
    c2 = c2
    p1 = p1
    p2 = p2
    Chats = {a, b}
    Hosted = {a}
    Callers = {p1, p2}
    Runners = {}
    Handles = {1, 2, 3}
    Commands = {c1}
    ChatOf <- ChatOfCommand
    Cap = 1
    MaxPurges = 0
    NoHandle = NoHandle
    NoChat = NoChat
    NoCommand = NoCommand
SPECIFICATION Spec
CHECK_DEADLOCK FALSE
INVARIANT TakenOnce

CONSTANTS
    u1 = u1
    f1 = f1
    w1 = w1
    Users = {u1}
    Foreign = {f1}
    Watchers = {w1}
    MaxSegments = 1
    MaxEvents = 2
    MaxAttaches = 0
    ResetFloor = 2
    NoEntry = NoEntry
    Task = Task
SPECIFICATION Spec
CHECK_DEADLOCK FALSE
INVARIANT WriterKeepsToItsEntry

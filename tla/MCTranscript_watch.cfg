CONSTANTS
    u1 = u1
    f1 = f1
    w1 = w1
    Users = {u1}
    Foreign = {f1}
    Watchers = {w1}
    MaxSegments = 1
    MaxEvents = 2
    MaxAttaches = 1
    ResetFloor = 2
    NoEntry = NoEntry
    Task = Task
CONSTRAINT InPlace
SPECIFICATION Spec
CHECK_DEADLOCK FALSE
INVARIANTS
    TypeOK
    SegmentsWhole
    FramesReplay
    StaleNeedsOverlap
PROPERTY WatchersSettle

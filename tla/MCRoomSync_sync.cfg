CONSTANTS
    a = a
    b = b
    Clients = {a, b}
    Writers = {a}
    MaxWrites = 2
    Fits = 1
    MaxFaults = 2
    ReplayLimit = 2
SPECIFICATION Spec
CHECK_DEADLOCK FALSE
INVARIANTS
    TypeOK
    QuietMeansEqual
PROPERTIES
    RecordedBackupGrows
    ImplementsShared
    Converges

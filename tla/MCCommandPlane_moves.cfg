CONSTANTS
    d1 = d1
    d2 = d2
    c1 = c1
    c2 = c2
    Devices = {d1, d2}
    Composers = {d1, d2}
    Commands = {c1}
    QueuedKinds = {"run", "steer"}
    NoHost = NoHost
    NoCommand = NoCommand
    NoMessage = NoMessage
    InitialHost = NoHost
    Skew <- NoSkew
    TTL = 2
    MaxTime = 0
    MaxCrashes = 1
    Mortal = {d1}
    MaxRows = 2
    MaxAssistant = 0
    MaxPosition = 1
SPECIFICATION Spec
CHECK_DEADLOCK FALSE
INVARIANTS
    TypeOK
    AtMostOnce
    OutcomesAreBacked

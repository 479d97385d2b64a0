CONSTANTS
    d1 = d1
    d2 = d2
    c1 = c1
    c2 = c2
    Devices = {d1, d2}
    Composers = {d1, d2}
    Commands = {c1, c2}
    QueuedKinds = {"steer"}
    NoHost = NoHost
    NoCommand = NoCommand
    NoMessage = NoMessage
    InitialHost = d1
    Skew <- Skewed
    TTL = 2
    MaxTime = 2
    MaxCrashes = 1
    Mortal = {d1}
    MaxRows = 1
    MaxAssistant = 0
    MaxPosition = 2
SPECIFICATION Spec
SYMMETRY Symmetry
CHECK_DEADLOCK FALSE
INVARIANTS
    OutcomesAgree
    LastSteerSurvives

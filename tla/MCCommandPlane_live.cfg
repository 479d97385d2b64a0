CONSTANTS
    d1 = d1
    d2 = d2
    c1 = c1
    c2 = c2
    Devices = {d1, d2}
    Composers = {d2}
    Commands = {c1, c2}
    QueuedKinds = {"respondInput", "interrupt"}
    NoHost = NoHost
    NoCommand = NoCommand
    NoMessage = NoMessage
    InitialHost = d1
    Skew <- NoSkew
    TTL = 2
    MaxTime = 0
    MaxCrashes = 1
    Mortal = {d1}
    MaxRows = 1
    MaxAssistant = 2
    MaxPosition = 2
SPECIFICATION FairSpec
CHECK_DEADLOCK FALSE
PROPERTIES
    CommandsSettle
    ImplementsPromise

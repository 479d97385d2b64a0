CONSTANTS
    MaxTurns = 4
    MaxPrompts = 2
    MaxAutoResume = 1
    MaxCrashes = 3
    Ages = TRUE
SPECIFICATION FairSpec
CHECK_DEADLOCK FALSE
INVARIANTS
    TypeOK
    RevivalBudget
    OrphanHidesBehindDone
    TwiceNeedsSweep
PROPERTIES
    PickedUp
    StaleIsStamped

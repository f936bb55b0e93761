SPECIFICATION FairSpec
CONSTANTS
    Values = {"AM", "SAM", "USB"}
    Found <- MCFound
    Knobs <- MCKnobs
    WAIT_ON_MODE = 2
    MaxChanges = 2
    MaxLosses = 1
    MaxPresses = 1
CHECK_DEADLOCK FALSE
INVARIANTS
    TypeOK
    SliceAgrees
    ListAlive
    NoDeadlock
PROPERTIES
    CloseEnds
    ModeFollows

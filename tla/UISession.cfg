\* Windows opened and closed, processes that quit or die, one spurious wakeup.
SPECIFICATION FairSpec
CONSTANTS
    MaxSessions = 2
    MaxSpurious = 1
    MayCrash = TRUE
INVARIANTS
    NothingOutlivesItsMemory
    OnlyEarlyCloseAborts
PROPERTIES
    CloseEnds
    ChildGetsOn
CHECK_DEADLOCK FALSE

\* Every order of handing over, answering, missing, dying and shutting down.
SPECIFICATION FairSpec
CONSTANTS
    BlockSizes = {2}
    EventCounts = {1}
    MaxRuns = 2
    MaxSends = 1
    MaxSpurious = 1
    MayCrash = TRUE
INVARIANTS
    NoReadAhead
    LockStep
PROPERTIES
    ImplementsRoundTrip
    RunReturns
    ThreadEnds
CHECK_DEADLOCK FALSE

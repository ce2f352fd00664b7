\* Activation, use and deletion on every platform, with every failure.
SPECIFICATION FairSpec
CONSTANTS
    Platforms = {"linux", "apple", "windows"}
    MayFail = TRUE
    MayCrash = TRUE
INVARIANTS
    MemoryOutlivesItsUsers
    OpensItsMemory
PROPERTIES
    ActivateEnds
    DeleteEnds
    NoOrphan
CHECK_DEADLOCK FALSE

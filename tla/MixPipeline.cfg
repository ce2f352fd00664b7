\* One block size, three blocks to the ring.
SPECIFICATION Spec
CONSTANTS
    Size = 6
    BlockSizes = {2}
    MaxFrames = 26
INVARIANTS
    DelayIsWholeRings
    DelayIsExact
PROPERTY
    Settles
CHECK_DEADLOCK FALSE

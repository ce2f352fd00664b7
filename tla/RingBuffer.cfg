\* Blocks that fit, that fill the ring, and that go round it.
SPECIFICATION RingSpec
CONSTANTS
    Size = 4
    Blocks = {0, 1, 2, 3, 4, 6}
    MaxStream = 17
INVARIANT
    HoldsLatest
PROPERTY
    ReadsNext
CHECK_DEADLOCK FALSE

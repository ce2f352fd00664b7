SPECIFICATION Spec
CONSTANTS
    Size = 2
    Calls <- MCCalls
    BlockSizes = {2}
    DefaultFrameSize = 1
    FrameModulus = 8
    MaxSends = 3
    MaxElapsed = 2
INVARIANTS
    HeardAsSent
    FramesFitBlock
CHECK_DEADLOCK FALSE

\* Two threads of the host call at the same time.
SPECIFICATION FairSpec
CONSTANTS
    Callers = {c, d}
    Values = {big}
    OversizedValues = {big}
    OversizedReplies = {big}
    NoValue = NoValue
    MaxCalls = 2
    MaxSpurious = 1
    MayCrash = TRUE
INVARIANT
    RepliesAccounted
PROPERTIES
    HandledInOrder
    CallReturns
    RequestHandled
CHECK_DEADLOCK FALSE

\* One thread of the host calls, as StateStore requires.
SPECIFICATION Spec
CONSTANTS
    Callers = {c}
    Values = {v, w, big}
    OversizedValues = {big}
    OversizedReplies = {big}
    NoValue = NoValue
    MaxCalls = 4
    MaxSpurious = 0
    MayCrash = TRUE
INVARIANTS
    OwnReply
    OnlyTimeoutsAbort
PROPERTY
    ImplementsStateStore
CHECK_DEADLOCK FALSE

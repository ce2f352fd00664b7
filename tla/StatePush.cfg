\* Updates against timeouts, lost notifies, teardown and death.
SPECIFICATION PushFairSpec
CONSTANTS
    MaxUpdates = 3
    MaxSpurious = 1
    MayCrash = TRUE
INVARIANTS
    DeliveredInOrder
    NoSilentLoss
PROPERTIES
    LastArrives
    ThreadsEnd
CHECK_DEADLOCK FALSE

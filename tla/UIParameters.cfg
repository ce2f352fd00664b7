\* The UI process starts and sets parameters while the host polls.
SPECIFICATION ForwardFairSpec
CONSTANTS
    Counts = {0, 2, 3}
    MAX_PARAMS = 2
    Values = {0, 1, 2}
    Default = 1
    MaxWrites = 3
INVARIANT
    ForwardedInOrder
PROPERTY
    HostCatchesUp

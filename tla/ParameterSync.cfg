\* Host and scripts against process(); one parameter the region does not hold.
SPECIFICATION FairSpec
CONSTANTS
    Count = 2
    MAX_PARAMS = 1
    Values = {0, 1, 2}
    Default = 1
    MaxHostWrites = 2
    MaxScriptWrites = 2
INVARIANTS
    DefaultsBeforeHost
    ScriptsAreTold
PROPERTIES
    NoEcho
    CopiesAgree

SPECIFICATION Spec
CONSTANTS
    Scripts <- MCScripts
    Invalid = Invalid
    NotAnArray = NotAnArray
    Empty = Empty
    NoNumber = NoNumber
    Garbled = Garbled
    Numbered = Numbered
INVARIANTS
    HostKnowsScript
    ChannelsMatchPorts

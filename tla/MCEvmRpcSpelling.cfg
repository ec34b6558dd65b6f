SPECIFICATION Spec
CONSTANTS
    Spellings = {"A", "B"}
    Keys = {"a"}
    Norm <- OneKey
    Adapters = 1
    IncludeInternal = FALSE
    MaxTries = 1
    Failing = {}
    MaxBlocks = 1
    MaxTouches = 1
INVARIANT NothingMissed
CHECK_DEADLOCK FALSE

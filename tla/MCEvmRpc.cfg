SPECIFICATION FairSpec
CONSTANTS
    Spellings = {"A"}
    Keys = {"a"}
    Norm <- OneKey
    Adapters = 2
    IncludeInternal = TRUE
    MaxTries = 3
    Failing = {"logs", "trace", "debug", "scan"}
    MaxBlocks = 2
    MaxTouches = 2
INVARIANTS TypeOK NothingMissed
PROPERTIES NewsArrives ScansSettle
CHECK_DEADLOCK FALSE

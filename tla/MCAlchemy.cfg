SPECIFICATION Spec
CONSTANTS
    a1 = a1
    a2 = a2
    h1 = h1
    h2 = h2
    Addrs = {a1, a2}
    Hooks = {h1, h2}
    Failing = {"fetch", "delete"}
    Losing = {}
    Overtaking = TRUE
    BothLists = {"kept", "dropped"}
    MaxCalls = 5
    MaxFailures = 2
    MaxRetry = 2
INVARIANTS
    TypeOK
    NoStrandedChange
    Synced
    Coverage
CHECK_DEADLOCK FALSE

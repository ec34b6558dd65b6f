SPECIFICATION Spec
CONSTANTS
    a1 = a1
    a2 = a2
    h1 = h1
    h2 = h2
    Addrs = {a1, a2}
    Hooks = {h1, h2}
    Failing = {"create"}
    Losing = {}
    Overtaking = TRUE
    BothLists = {"kept"}
    MaxCalls = 4
    MaxFailures = 1
    MaxRetry = 2
INVARIANT Synced
CHECK_DEADLOCK FALSE

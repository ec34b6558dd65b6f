SPECIFICATION Spec
CONSTANTS
    a1 = a1
    a2 = a2
    h1 = h1
    h2 = h2
    Addrs = {a1, a2}
    Hooks = {h1, h2}
    Failing = {"fetch"}
    Losing = {}
    Overtaking = TRUE
    BothLists = {"kept", "dropped"}
    MaxCalls = 4
    MaxFailures = 1
    MaxRetry = 2
PROPERTY SubscriptionsLand
CHECK_DEADLOCK FALSE

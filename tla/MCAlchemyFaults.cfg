SPECIFICATION Spec
CONSTANTS
    a1 = a1
    a2 = a2
    h1 = h1
    h2 = h2
    Addrs = {a1, a2}
    Hooks = {h1, h2}
    Failing = {"create", "update"}
    Losing = {"update"}
    Overtaking = FALSE
    BothLists = {"kept", "dropped"}
    MaxCalls = 4
    MaxFailures = 3
    MaxRetry = 2
INVARIANTS
    Synced
    OneWebhook
PROPERTIES
    BackoffIsKept
    SubscriptionsLand
CHECK_DEADLOCK FALSE

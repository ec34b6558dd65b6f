SPECIFICATION Spec
CONSTANTS
    w1 = w1
    w2 = w2
    a1 = a1
    Workers = {w1, w2}
    Addrs = {a1}
    Activities = {}
    MaxHooks = 2
    MaxLeft = 1
    MaxLate = 1
    MaxCalls = 3
    MaxDeaths = 0
    MaxEvents = 5
    MaxFailures = 0
INVARIANT
    SubscribedIsServed
CHECK_DEADLOCK FALSE

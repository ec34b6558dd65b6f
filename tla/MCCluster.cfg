SPECIFICATION Spec
CONSTANTS
    w1 = w1
    w2 = w2
    a1 = a1
    Workers = {w1, w2}
    Addrs = {a1}
    Activities = {1, 2}
    MaxHooks = 2
    MaxLeft = 1
    MaxLate = 1
    MaxCalls = 3
    MaxDeaths = 1
    MaxEvents = 4
    MaxFailures = 1
INVARIANTS
    TypeOK
    HeardOnce
    NobodySkipped
    OneUserIsServed
PROPERTIES
    RefusesOnlyStrangers
    RequestsArrive
CHECK_DEADLOCK FALSE

SPECIFICATION Spec
CONSTANTS
    Protocols = {"change", "blockbook"}
    ClientCalls = 2
    ServerCalls = 1
    MaxCalls <- MCMaxCalls
    MaxNotices = 1
    MaxMisfits = 1
    MaxEvents = 2
INVARIANTS
    TypeOK
    NoCallForgotten
    OwnOutcome
PROPERTIES
    ImplementsRemoteCalls
    CallsSettle
    QuietUnlessMisfit
CHECK_DEADLOCK FALSE

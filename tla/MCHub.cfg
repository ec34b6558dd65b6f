SPECIFICATION Spec
CONSTANTS
    s1 = s1
    s2 = s2
    a1 = a1
    a2 = a2
    b1 = b1
    x1 = x1
    c1 = c1
    c2 = c2
    c3 = c3
    Sockets = {s1, s2}
    Addresses = {a1, b1, x1}
    Calls = {c1, c2, c3}
    Plugins <- MCPlugins
    Supported <- MCSupported
    Scanning <- MCScanning
    Failing <- MCFailing
    PluginOf <- MCPluginOf
    Active = {a1}
    MaxItems = 2
    MaxLost = 1
    Patient = {s1}
SYMMETRY MCSymmetry
INVARIANTS
    TypeOK
    NoDanglingSocket
    HubPluginAgree
    NothingUnwanted
    BelievedIsSubscribed
    NeverSilentlyBehind
PROPERTY ImplementsSubscriptions
CHECK_DEADLOCK FALSE

SPECIFICATION Spec
CONSTANTS
    s1 = s1
    s2 = s2
    a1 = a1
    a2 = a2
    b1 = b1
    x1 = x1
    c1 = c1
    c2 = c2
    c3 = c3
    Sockets = {s1, s2}
    Addresses = {a1, b1}
    Calls = {c1, c2, c3}
    Plugins <- MCPlugins
    Supported <- MCSupported
    Scanning <- MCScanning
    Failing <- MCFailing
    PluginOf <- MCPluginOf
    Active = {a1, b1}
    MaxItems = 2
    MaxLost = 0
    Patient = {}
INVARIANT EveryBeliefIsTrue
CHECK_DEADLOCK FALSE

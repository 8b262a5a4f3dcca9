SPECIFICATION Spec
CONSTANTS
    a1 = a1
    Addrs = {a1}
    s1 = s1
    s2 = s2
    Servers = {s1, s2}
    NoServer = NoServer
    Reporting = {s1}
    Strategies = {"leastLoad", "sticky"}
    Rate = 1
    BanThreshold = 2
    BanDuration = 2
    Window = 1
    CheckInterval = 1
    UnhealthyThreshold = 2
    MaxRelays = 1
    MaxConns = 3
    MaxTime = 4
INVARIANTS
    ActiveRelaysForward

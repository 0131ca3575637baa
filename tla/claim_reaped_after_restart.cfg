SPECIFICATION FairSpec
CONSTANTS
    Clients = {c1}
    Versions = {v1}
    Catalog = {v1}
    Workers = {w1}
    Reapers = {r1}
    LoopDevs = {l1, l2}
    None = None
    MaxRequests = 1
    MaxFaults = 0
    MaxCrashes = 1
    MaxReboots = 0
    MaxRollbacks = 0
PROPERTIES ReapedAfterRestart

SPECIFICATION CalmSpec
CONSTANTS
    Clients = {c1}
    Versions = {v1, v2}
    Catalog = {v1}
    Workers = {w1, w2}
    Reapers = {r1}
    LoopDevs = {l1, l2, l3}
    None = None
    MaxRequests = 1
    MaxFaults = 1
    MaxCrashes = 1
    MaxReboots = 0
    MaxRollbacks = 1
SYMMETRY Symmetry
INVARIANTS SessionInvariant
 

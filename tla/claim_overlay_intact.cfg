SPECIFICATION Spec
CONSTANTS
    Clients = {c1}
    Versions = {v1}
    Catalog = {v1}
    Workers = {w1}
    Reapers = {r1}
    LoopDevs = {l1, l2, l3, l4}
    None = None
    MaxRequests = 1
    MaxFaults = 0
    MaxCrashes = 0
    MaxReboots = 0
    MaxRollbacks = 0
SYMMETRY Symmetry
INVARIANTS BootedOverlayIntact

SPECIFICATION Spec
CONSTANTS
    Profiles = {p1, p2}
    Users = {u1, u2}
    Clients = {c1}
    Dirs = {p1, p2}
    DirOf <- OwnDirs
    None = None
    MaxVersion = 2
    MaxUpdates = 2
    MaxWrites = 1
    MaxFaults = 0
    MaxRestarts = 1
SYMMETRY Symmetry
INVARIANTS WriterHoldsLock

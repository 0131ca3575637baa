SPECIFICATION KeptRunning
CONSTANTS
    Macs = {m1, m2}
    PoolSize = 2
    OfferTimeout = 1
    LeaseTime = 2
    MaxXid = 2
    None = None
SYMMETRY Symmetry
INVARIANTS NoSharedAddress

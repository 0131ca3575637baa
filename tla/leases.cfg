SPECIFICATION Spec
CONSTANTS
    Macs = {m1, m2}
    PoolSize = 1
    OfferTimeout = 1
    LeaseTime = 2
    MaxXid = 2
    None = None
SYMMETRY Symmetry
INVARIANTS TypeOK AddressesExclusive LeaseInvariant
PROPERTIES ImplementsLeases

SPECIFICATION FairSpec
CONSTANTS
    Blocks = 3
    MaxRetransmits = 3
    None = None
    MaxRrqs = 2
INVARIANTS TypeOK NeverAhead   TransferInvariant
PROPERTIES DoneMeansDelivered TimersRunDown 
CHECK_DEADLOCK FALSE

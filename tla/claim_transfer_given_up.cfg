SPECIFICATION FairSpec
CONSTANTS
    Blocks = 2
    MaxRetransmits = 3
    None = None
    MaxRrqs = 1
PROPERTIES TransferGivenUp
CHECK_DEADLOCK FALSE

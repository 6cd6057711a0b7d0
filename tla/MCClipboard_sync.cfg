SPECIFICATION FairSpec
CONSTANTS
    Phones = {"p","q"}
    Texts = {"s","t","u"}
    Long = {"u"}
    Empty = "empty"
    SubLimit = 1
    MaxCopies = 2
    MaxFaults = 1
INVARIANTS TypeOK Agreement PcReachesAll
PROPERTIES Settles
CHECK_DEADLOCK FALSE

SPECIFICATION FairSpec
CONSTANTS
    Sizes = {1, 2}
    LossLimit = 2
    Quarter = 8
    Past = 0
    MaxRecvBuffer = 4
    Direction = "PhoneToPc"
    MaxMsgs = 2
    MaxLosses = 2
    Patient = TRUE
INVARIANTS
    ToleratesLosses
    LoopAgrees
PROPERTIES
    AllAcknowledged
CHECK_DEADLOCK FALSE

SPECIFICATION FairSpec
CONSTANTS
    Sizes = {1, 2}
    LossLimit = 1
    Quarter = 8
    Past = 30
    MaxRecvBuffer = 1
    Direction = "PcToPhone"
    MaxMsgs = 2
    MaxLosses = 3
    Patient = FALSE
INVARIANTS
    ChannelInv
    OverrunNeedsBacklog
    RingAgrees
PROPERTIES
    ImplementsFifo
    DeliveredOrNoticed
CHECK_DEADLOCK FALSE

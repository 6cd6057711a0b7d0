SPECIFICATION FairSpec
CONSTANTS
    Addrs = {"u"}
    Phones <- MCPhones
    Ids <- MCIds
    SerialNo <- MCSerialNo
    KindOf <- MCKindOf
    ServiceNames = {}
    Homes <- MCHomes
    None = None
    MaxAttempts = 2
    MayFail = FALSE
    MaxChanges = 2
    MaxCalls = 2
    MaxSessions = 2
PROPERTIES VanishedStopped
CHECK_DEADLOCK FALSE

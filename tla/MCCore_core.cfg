SPECIFICATION FairSpec
CONSTANTS
    Addrs = {"u", "j"}
    Phones <- MCPhones
    Ids <- MCIds
    SerialNo <- MCSerialNo
    KindOf <- MCKindOf
    ServiceNames = {}
    Homes <- MCHomes
    None = None
    MaxAttempts = 2
    MayFail = TRUE
    MaxChanges = 2
    MaxCalls = 2
    MaxSessions = 2
INVARIANTS RegistryInv NoStray
CHECK_DEADLOCK FALSE
PROPERTIES DeadNoticed GoneStopped CoreReturns RingMoves

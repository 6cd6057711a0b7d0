SPECIFICATION FairSpec
CONSTANTS
    p1 = p1
    Peers = {p1}
    MaxMiss = 2
    MaxClients = 2
    MaxOutages = 1
INVARIANTS
    SameClient
    NoZombie
    NoEarlyExit
PROPERTIES
    ServerExits
    EndpointRegistered
CHECK_DEADLOCK FALSE

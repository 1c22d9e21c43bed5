SPECIFICATION FairSpec
CONSTANTS
    Clients = {local, c1}
    LocalClient = local
    BUFFSIZE = 1
    MaxOutput = 2
    Faults = {}
INVARIANTS
    IdleMeansCaughtUp
PROPERTIES
    ServingNeverFails
    OutputDelivered
    ShutdownEnds

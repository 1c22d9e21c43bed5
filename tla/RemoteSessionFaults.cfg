SPECIFICATION Spec
CONSTANTS
    Clients = {local, c1}
    LocalClient = local
    BUFFSIZE = 2
    MaxOutput = 1
    Faults = {"diskfull", "tempread", "zeroread", "fatal"}
INVARIANTS
    TypeOK
    OverlappedExclusive
    HandshakeHalfDuplex
    ChainFlagAgrees
    FlagsMatchList
    FreedOnlyChildWrite

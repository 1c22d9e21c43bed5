SPECIFICATION FairSpec
CONSTANTS
    Servers = {s1, s2}
    NoServer = NoServer
    Transports = 2
    AgeLimit = 1
    MaxOnAir = 2
    MaxWrites = 2
    MaxFailures = 1
INVARIANTS
    TypeOK
    FoundOnce
    SendingIsPending
PROPERTIES
    ForgottenWasSilent
    GoneIsForgotten
CHECK_DEADLOCK FALSE

SPECIFICATION FairSpec
CONSTANTS
    Servers = {s1, s2}
    OnePipe = {o1}
    TwoPipe = {t1, t2}
    NoClient = NoClient
    NoServer = NoServer
    CONNECT_COUNT = 2
    May = {"slow", "oom", "crowd", "rush"}
INVARIANTS
    TypeOK
    InstancesKept
PROPERTIES
    OutComesBack
CHECK_DEADLOCK FALSE

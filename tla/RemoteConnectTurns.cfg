SPECIFICATION Spec
CONSTANTS
    Servers = {s1, s2, s3}
    OnePipe = {o1, o2}
    TwoPipe = {t1, t2}
    NoClient = NoClient
    NoServer = NoServer
    CONNECT_COUNT = 3
    May = {}
INVARIANTS
    OldestAlike
    Welcomed
CHECK_DEADLOCK FALSE

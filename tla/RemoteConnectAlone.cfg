SPECIFICATION Spec
CONSTANTS
    Servers = {s1}
    OnePipe = {o1}
    TwoPipe = {t1, t2, t3}
    NoClient = NoClient
    NoServer = NoServer
    CONNECT_COUNT = 3
    May = {"die", "crowd"}
INVARIANTS
    Paired
    Welcomed
PROPERTIES
    OutKept
CHECK_DEADLOCK FALSE

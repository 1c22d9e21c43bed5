SPECIFICATION FairSpec
CONSTANTS
    Lines = {"print"}
    MaxBreaks = 2
    MaxPrints = 0
    MaxAsks = 1
    MaxBreakIns = 0
    MaxResyncs = 1
    MaxFaults = 1
    MaxLine = 3
    Early = FALSE
PROPERTIES
    AsksAreAnswered
    BreaksAreSeen
    GoIsHeard
    SyncEnds
CHECK_DEADLOCK FALSE

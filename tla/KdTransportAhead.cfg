SPECIFICATION Spec
CONSTANTS
    Lines = {"file"}
    MaxBreaks = 1
    MaxPrints = 1
    MaxAsks = 0
    MaxBreakIns = 0
    MaxResyncs = 0
    MaxFaults = 1
    MaxLine = 3
    Early = FALSE
INVARIANTS
    StoredIsKept
CHECK_DEADLOCK FALSE

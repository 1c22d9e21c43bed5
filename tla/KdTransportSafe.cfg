SPECIFICATION Spec
CONSTANTS
    Lines = {"print", "file"}
    MaxBreaks = 2
    MaxPrints = 2
    MaxAsks = 2
    MaxBreakIns = 1
    MaxResyncs = 0
    MaxFaults = 2
    MaxLine = 3
    Early = FALSE
INVARIANTS
    TypeOK
PROPERTIES
    DialogueSpec
CHECK_DEADLOCK FALSE

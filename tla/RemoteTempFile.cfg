SPECIFICATION Spec
CONSTANTS
    MaxMessages = 3
    MaxLen = 2
    Writers = {"main", "child", "ctrlc"}
    Hole = Hole
    DiskFull = TRUE
INVARIANTS
    SeenWhole
    NoGap
PROPERTIES
    LogSpec
CHECK_DEADLOCK FALSE

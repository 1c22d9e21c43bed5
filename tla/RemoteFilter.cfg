SPECIFICATION FairSpec
CONSTANTS
  BUFFSIZE = 6
  IdLen = 2
  Bodies = {1, 5}
  Texts = {1, 3}
  MaxAppends = 3
INVARIANTS TypeOK NoOverflow InOrder NothingLost OwnHidden
PROPERTY ComesToRest
CHECK_DEADLOCK FALSE

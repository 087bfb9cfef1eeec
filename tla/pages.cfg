SPECIFICATION FairSpec
CONSTANTS
  Loop = {outer, inner}
  MaxItem = 3
  Limit = 2
  Start = 0
INVARIANTS InOrder Complete
PROPERTY Terminates
CHECK_DEADLOCK FALSE

SPECIFICATION FairSpec
CONSTANTS
  Modes = {"watch", "wait", "invites"}
  MaxVersion = 5
  MaxTicket = 2
  MaxWire = 1
INVARIANTS TypeOK ReportsAreTrue
PROPERTIES CatchesUp MatchArrives RemovalEnds
CHECK_DEADLOCK FALSE

SPECIFICATION FairSpec
CONSTANTS
  Modes = {"wait"}
  MaxVersion = 4
  MaxTicket = 1
  MaxWire = 1
PROPERTY FailureReturned
CHECK_DEADLOCK FALSE

SPECIFICATION FairSpec
CONSTANTS
  Waiter = {w1}
  P2P = {}
  Ticket = {t1}
  Nil = Nil
  Buffer = 2
  Cancels = {}
  Running = {w1}
PROPERTY DropEndsForwarder
CHECK_DEADLOCK FALSE

SPECIFICATION FairSpec
CONSTANTS
  Waiter = {w1, w2}
  P2P = {w1}
  Ticket = {t1, t2}
  Nil = Nil
  Buffer = 1
  Cancels = {w1}
  Running = {w1}
INVARIANTS TypeOK OutcomeIsTrue GivingUpLeavesQueue
PROPERTIES ImplementsWait SettledEndsWait CancelEndsForwarder
CHECK_DEADLOCK FALSE

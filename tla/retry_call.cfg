SPECIFICATION FairCallSpec
CONSTANTS
  MaxAttempts = 3
  BaseDelay = 1
  MaxDelay = 3
  Budget = 6
  MaxRetryAfter = 4
INVARIANTS TypeOK AtMostOnce FailureIsTrue RetryAfterHonoured ServerWaitFits ConflictIsTrue
PROPERTIES ImplementsUpdate CallReturns
CHECK_DEADLOCK FALSE

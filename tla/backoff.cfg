SPECIFICATION Spec
CONSTANTS
  MaxInt = 15
  MaxAttempt = 7
INVARIANTS NeverOverflows Exponential
CHECK_DEADLOCK FALSE

SPECIFICATION Spec
CONSTANTS
  TTL = {12, 15}
  RetryMin = 2
  RetryMax = 7
  Latency = 1
  MaxRetryAfter = 9
INVARIANTS HeldWhileGranted HonoursRetryAfter RecoversInTime
CHECK_DEADLOCK FALSE

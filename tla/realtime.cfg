SPECIFICATION FairSpec
CONSTANTS
  Reader = {r1, hook}
  Hook = hook
  Closer = {c1, c2}
  Socket = {k1, k2, k3, k4}
  Nil = Nil
  MaxAttempts = 2
INVARIANTS TypeOK NoLeak ReadsCurrent DialBudget
PROPERTY CloseReleasesReaders

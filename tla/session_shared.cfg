SPECIFICATION FairSpec
CONSTANTS
  Caller = {c1, c2}
  Session = {s1, s2, o}
  Offline = {o}
  Nil = Nil
  Persist = FALSE
  MaxCrash = 0
INVARIANTS TypeOK RotationFromCurrent JustifiedRefresh FreshRetry NoReplay
PROPERTIES ImplementsChain CallsReturn

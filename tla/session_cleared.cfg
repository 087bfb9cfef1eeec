SPECIFICATION Spec
CONSTANTS
  Caller = {c1, c2}
  Session = {s1, s2, o}
  Offline = {o}
  Nil = Nil
  Persist = TRUE
  MaxCrash = 0
INVARIANT ClearedOnDisk

SPECIFICATION Spec
CONSTANTS
  Caller = {c1}
  Session = {s1, s2, s3, o}
  Offline = {o}
  Nil = Nil
  Persist = TRUE
  MaxCrash = 2
SYMMETRY Symmetry
INVARIANT StoreLag

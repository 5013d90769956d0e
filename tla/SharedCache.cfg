SPECIFICATION FairSpec
CONSTANTS
  p1 = p1
  p2 = p2
  Procs = {p1, p2}
  Users = {p1}
  MaxMishaps = 2
INVARIANT TypeOK
PROPERTIES LostForCause Forgotten KeepsFresh
CHECK_DEADLOCK FALSE

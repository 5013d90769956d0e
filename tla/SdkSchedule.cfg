SPECIFICATION Spec
CONSTANTS
  Callers = {c1, c2}
  Aids = {a1}
  NoAid = NoAid
  NoToken = NoToken
  Free = Free
  Ops <- CheckOnly
  Seals <- GoodAndBad
  Expiries <- OneExpiry
  Grace = 6
  RenewAfter = 2
  RenewRetry = 1
  MaxAge = 40
  ChainEnd = 90
  DiskFaults = FALSE
  StartTime = 3
  MaxTime = 6
  MaxCalls = 4
  MaxAttempts = 4
  MaxCrashes = 0
INVARIANTS SingleFlight
PROPERTIES RetrySpacing CacheNeverRegresses FlagNotOutdated
SYMMETRY CallerSymmetry

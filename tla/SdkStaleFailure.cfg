SPECIFICATION Spec
CONSTANTS
  Callers = {c1, c2}
  Aids = {a1}
  NoAid = NoAid
  NoToken = NoToken
  Free = Free
  Ops <- CheckAndRenew
  Seals <- GoodOnly
  Expiries <- OneExpiry
  Grace = 6
  RenewAfter = 2
  RenewRetry = 1
  MaxAge = 40
  ChainEnd = 90
  DiskFaults = FALSE
  StartTime = 3
  MaxTime = 5
  MaxCalls = 3
  MaxAttempts = 2
  MaxCrashes = 0
PROPERTY FlagNotOutdated

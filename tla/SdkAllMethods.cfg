SPECIFICATION Spec
CONSTANTS
  Callers = {c1, c2}
  Aids = {a1}
  NoAid = NoAid
  NoToken = NoToken
  Free = Free
  Ops <- AllOpsUsed
  Seals <- GoodAndForeign
  Expiries <- OneExpiry
  Grace = 6
  RenewAfter = 1
  RenewRetry = 1
  MaxAge = 40
  ChainEnd = 90
  DiskFaults = TRUE
  StartTime = 2
  MaxTime = 3
  MaxCalls = 3
  MaxAttempts = 2
  MaxCrashes = 0
INVARIANTS TypeOK LockHeldByWriter InFlightOwned
PROPERTIES FollowsServer OnlyRenewRevives
SYMMETRY CallerSymmetry

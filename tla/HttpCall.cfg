SPECIFICATION FairSpec
CONSTANTS
  MaxRequests = 2
  MaxTime = 4
  Timeout = 1
  AbandonAfter = 1
INVARIANTS TypeOK ReturnsInTime
PROPERTIES NetworkMeansNoAnswer ServesRequests EveryCallReturns
CHECK_DEADLOCK FALSE

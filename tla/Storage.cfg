SPECIFICATION Spec
CONSTANTS
  p1 = p1
  p2 = p2
  p3 = p3
  t1 = t1
  t2 = t2
  t3 = t3
  Processes <- TwoProcesses
  Threads <- ThreeThreads
  ProcessOf <- SharedProcess
  Pids = {1, 2}
  PidsUnique = TRUE
  DiskFaults = TRUE
  MaxSaves = 3
  MaxCrashes = 1
INVARIANTS TypeOK OwnTemporary
PROPERTIES ReadersSeeVersions

SPECIFICATION Spec
CONSTANTS
  p1 = p1
  p2 = p2
  p3 = p3
  t1 = t1
  t2 = t2
  t3 = t3
  Processes <- ThreeProcesses
  Threads <- ThreeThreads
  ProcessOf <- OneEach
  Pids = {1}
  PidsUnique = FALSE
  DiskFaults = FALSE
  MaxSaves = 3
  MaxCrashes = 0
INVARIANT NeverHalfWritten

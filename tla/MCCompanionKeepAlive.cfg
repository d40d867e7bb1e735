SPECIFICATION Spec
CONSTANTS
  MaxRuns = 2
  MaxInstances = 0
  MaxSessions = 0
  Workloads <- MCServerOnly
  SyncStoppers <- MCStoppers
  c1 = c1
  c2 = c2
  None = None
CHECK_DEADLOCK FALSE
INVARIANTS
  ServerKeepsAppAlive

SPECIFICATION Spec
CONSTANTS
  MaxRuns = 2
  MaxInstances = 2
  MaxSessions = 3
  Workloads <- MCWorkloads
  SyncStoppers <- MCStoppers
  c1 = c1
  c2 = c2
  None = None
CHECK_DEADLOCK FALSE
INVARIANTS
  ForegroundHasReason
  InstancesTracked

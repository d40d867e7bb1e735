SPECIFICATION FairSpec
CONSTANTS
  MaxRuns = 2
  MaxClients = 3
  Stoppers = {s1}
  StopReqs = {h1}
  Restarts = {g1}
  Workloads <- Requests
  h1 = h1
  g1 = g1
  User = User
  None = None
CHECK_DEADLOCK FALSE
INVARIANTS
  PortIsFree
  NoOrphanClient
  EndsOnlyWhenAsked
PROPERTIES
  StopTerminates
  DeadListenerEndsRun
  ControllerPromise

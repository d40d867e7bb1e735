SPECIFICATION Spec
CONSTANTS
  h1 = h1
  h2 = h2
  None = None
  Handlers <- MCHandlers
  MaxDownloads = 4
  Workloads <- MCWorkloads
CHECK_DEADLOCK FALSE
INVARIANTS
  RetryHasNewToken

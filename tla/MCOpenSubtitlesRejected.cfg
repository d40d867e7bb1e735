SPECIFICATION Spec
CONSTANTS
  h1 = h1
  h2 = h2
  None = None
  Handlers <- MCHandlers
  MaxDownloads = 3
  Workloads <- MCWorkloads
CHECK_DEADLOCK FALSE
PROPERTIES
  NoLoginAfterRejection

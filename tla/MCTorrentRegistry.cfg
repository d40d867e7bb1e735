SPECIFICATION FairSpec
CONSTANTS
  x1 = x1
  x2 = x2
  long = long
  a1 = a1
  a2 = a2
  r1 = r1
  None = None
  Hashes <- MCHashes
  Oversized <- MCOversized
  Adders <- MCAdders
  Removers <- MCRemovers
  MaxAdds = 3
  Workloads <- MCWorkloads
CHECK_DEADLOCK FALSE
INVARIANTS
  ActiveIsLive
  NoOrphanTorrent
  AnswersRequest
  ListensWhileOpen
PROPERTIES
  AddReturns

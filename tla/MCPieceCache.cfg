SPECIFICATION FairSpec
CONSTANTS
  t1 = t1
  t2 = t2
  p1 = p1
  p2 = p2
  q1 = q1
  u1 = u1
  u2 = u2
  u3 = u3
  None = None
  Capacity = 3
  Torrents <- MCTorrents
  Pieces <- MCPieces
  TorrentOf <- MCTorrentOf
  SizeOf <- MCSizeOf
  Buffers <- MCBuffers
INVARIANTS
  LruMatchesEntries
  NoSharedBuffer
  WithinCapacity
  AccountingExact
  ServedIsVerified
PROPERTIES
  OnlyLateMarkLosesPiece
  PlaybackKeepsBuffers
  LockIsReleased

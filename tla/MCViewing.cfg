SPECIFICATION FairSpec
CONSTANTS
  none = none
  film = film
  series = series
  other = other
  number = number
  None = None
  Torrents <- MCTorrents
  VideosOf <- MCVideosOf
  MaxVideos = 2
  ImdbOf <- MCImdbOf
  MaxSaved = 2
  Duration = 2
  MaxChoices = 2
  MaxChains = 1
  MaxDeletions = 2
  Workloads <- MCWorkloads
CHECK_DEADLOCK FALSE
INVARIANTS
  SubtitleFitsVideo
  TorrentReleased
PROPERTIES
  ResumePointKept
  NeverStuck

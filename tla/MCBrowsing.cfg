SPECIFICATION Spec
CONSTANTS
  W = 2
  Discover = {"films", "shows"}
  Trending = {"films", "shows"}
  Texts = {"both", "many", "neither"}
  Pages <- MCPages
  Kind <- MCKind
  Found <- MCFound
  FirstList = "films"
  Dummies <- MCDummies
  Id <- MCId
  Favourites = "favourites"
  ShowTitles <- MCShowTitles
  ShowEpisodes <- MCEpisodes
  MaxSe = 2
  MaxEe = 3
  Hidden = Hidden
  None = None
  MaxLists = 2
  Liked = {"f7"}
  Opened <- MCOpened
  MaxPages = 1
  MaxSettings = 1
INVARIANTS
  CursorShowsPosition
  PagesInOrder
  RowsDrawn
  AsksForAired
  PageFitsList
  SettingsKept
PROPERTIES
  WaitEnds
  NeverTrapped
CHECK_DEADLOCK FALSE

SPECIFICATION Spec
CONSTANTS
  W = 2
  Discover = {"films", "shows"}
  Trending = {"films", "shows"}
  Texts = {"both"}
  Pages <- MCPages
  Kind <- MCKind
  Found <- MCFound
  FirstList = "films"
  Dummies <- MCDummies
  Id <- MCId
  Favourites = "favourites"
  ShowTitles <- MCShowTitles
  ShowEpisodes <- MCEpisodes
  MaxSe = 2
  MaxEe = 3
  Hidden = Hidden
  None = None
  MaxLists = 2
  Liked = {}
  Opened <- MCOpened
  MaxPages = 0
  MaxSettings = 0
INVARIANT
  PartialRowIsFetched
CHECK_DEADLOCK FALSE

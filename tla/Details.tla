------------------------------- MODULE Details -------------------------------
(***************************************************************************)
(* The details page (InfoPage.js): it shows the title the user has chosen  *)
(* on the main page, lets them choose a season and an episode of a show,   *)
(* and has the server search for torrents, whose list HostsMenu opens.     *)
(*                                                                         *)
(* Requests are answered while the user presses keys; each has a 25 s      *)
(* timer.  The key gate is the page's own waiting, and two exits through   *)
(* it, inforeturn and nohostreturn.  Texts and pictures are left out; the  *)
(* number of boxes a row shows, which the code derives from the width of   *)
(* the labels, is a constant.  SERVER_OK is taken to be true: nothing is   *)
(* listed before it is.                                                    *)
(***************************************************************************)
EXTENDS BoxRow, FiniteSets

CONSTANTS
  Titles,    \* what can be chosen on the main page
  Shows,     \* those that have a first_air_date
  Episodes,  \* what the server knows of each show: a set of [season, number, aired]
  None

Airings == {"past", "future", "none"}    \* against ptoday; "none" is an empty airdate

\* Assumed where the module is instantiated (Browsing).
DetailsAssumption ==
  /\ Shows \subseteq Titles /\ None \notin Titles
  /\ MaxSe \in Nat /\ MaxSe >= 2
  /\ MaxEe \in Nat /\ MaxEe >= 2
  /\ \A t \in Shows : /\ IsFiniteSet(Episodes[t])
                      /\ Episodes[t] \subseteq [season : Nat, number : Nat \ {0}, aired : Airings]

NaN == -1    \* parseInt of an arrow

VARIABLES
  scene,        \* which scene has the focus
  title,        \* wrapData[position]
  waiting, inforeturn, nohostreturn,
  ssindex,      \* 2: the button, 1: the episodes, 0: the seasons
  fetch,        \* what the page waits for to be complete
  searches,     \* requests for torrents without an answer
  torrents      \* torrenturls: which title, season and episode each is for
VARIABLES
  episodeobject,
  seasonsave, seasonMark,      \* the seasons of the boxes and the class of the chosen box
  episodesave, episodeMark
VARIABLES
  raced         \* auxiliary: the page was left during a search

pageVars == <<waiting, inforeturn, nohostreturn, ssindex>>
rowVars == <<episodeobject, seasonRow, seasonsave, seasonMark, episodeRow, episodesave, episodeMark>>
searchVars == <<searches, torrents>>

PageInit ==
  /\ title = None
  /\ waiting = FALSE /\ inforeturn = FALSE /\ nohostreturn = FALSE /\ ssindex = 2
  /\ fetch = "none" /\ searches = {} /\ torrents = {}
  /\ episodeobject = {}
  /\ seasonRow = NoRow /\ seasonsave = << >> /\ seasonMark = "none"
  /\ episodeRow = NoRow /\ episodesave = << >> /\ episodeMark = "none"
  /\ raced = FALSE

Init == PageInit /\ scene = "Main"

-----------------------------------------------------------------------------
(* The episodes of a show *)

Lowest(S) == CHOOSE n \in S : \A m \in S : n <= m
Highest(S) == CHOOSE n \in S : \A m \in S : n >= m
Ascending(S) ==
    [i \in 1 .. Cardinality(S) |-> CHOOSE n \in S : Cardinality({m \in S : m <= n}) = i]

Seasons(entries) == {e.season : e \in entries}
Numbers(entries, s) == {e.number : e \in {x \in entries : x.season = s}}
FirstOf(entries, s) ==
    CHOOSE e \in entries : e.season = s /\ e.number = Lowest(Numbers(entries, s))

\* The entries with an airdate, sorted, with the number 0 before the first episode of
\* each season and the season 0 before all: a search for the whole of it.
Listed(entries) ==
    LET dated == {e \in entries : e.aired # "none"}
    IN  {[season |-> 0, number |-> 0, aired |-> "past"]}
          \cup {[season |-> s, number |-> 0, aired |-> FirstOf(dated, s).aired]
                    : s \in Seasons(dated) \ {0}}
          \cup dated

Starts(listed, s) == FirstOf(listed, s).aired = "past"

\* The season boxes end before the first season that has not begun.
BoxedSeasons(listed) ==
    {s \in Seasons(listed) : \A r \in Seasons(listed) : r <= s => Starts(listed, r)}

\* seasoncount when the boxes have been made
LastSeason(listed) ==
    LET ahead == {s \in Seasons(listed) : ~Starts(listed, s)}
    IN  IF ahead = {} THEN Highest(Seasons(listed)) ELSE Lowest(ahead) - 1

\* Mutant: episodes that are still to come have boxes, too.
BoxedEpisodes_All(listed, s) == {e.number : e \in {x \in listed : x.season = s}}

BoxedEpisodes(listed, s) ==
    {e.number : e \in {x \in listed : x.season = s /\ x.aired = "past"}}

\* The label of the chosen box read back as a number.
Value(row, save) ==
    IF row.text[row.at] >= 0 THEN save[row.text[row.at] + 1] ELSE NaN

MarkedSeason == IF seasonMark = "selected" THEN Value(seasonRow, seasonsave) ELSE 0
MarkedEpisode == IF episodeMark = "selected" THEN Value(episodeRow, episodesave) ELSE 0

BoxEpisodes(listed, s) ==
    LET numbers == BoxedEpisodes(listed, s)
    IN  /\ episodesave' = Ascending(numbers)
        /\ episodeRow' = IF numbers = {} THEN NoRow ELSE NewRow(Cardinality(numbers), MaxEe)
        /\ episodeMark' = IF numbers = {} THEN "none" ELSE "selected"

-----------------------------------------------------------------------------
(* Opening the page and completing it *)

\* ENTER on the main page, for the title t it has chosen.
Show(t) ==
    /\ scene' = "InfoPage"
    /\ title' = t
    /\ waiting' = TRUE /\ inforeturn' = FALSE /\ nohostreturn' = FALSE
    /\ fetch' = IF t \in Shows THEN "serie" ELSE "movie"
    /\ seasonsave' = << >> /\ episodesave' = << >>
    /\ UNCHANGED <<ssindex, searchVars, episodeobject, seasonRow, seasonMark, episodeRow,
                   episodeMark, raced>>

\* The page is made visible 200 ms later.
MovieAnswered ==
    /\ fetch = "movie"
    /\ fetch' = "drawing"
    /\ UNCHANGED <<scene, title, pageVars, searchVars, rowVars, raced>>

Drawn ==
    /\ fetch \in {"drawing", "overdue"}
    /\ fetch' = "none"
    /\ waiting' = FALSE
    /\ UNCHANGED <<scene, title, inforeturn, nohostreturn, ssindex, searchVars, rowVars, raced>>

SerieAnswered ==
    /\ fetch = "serie"
    /\ fetch' = "episodes"
    /\ inforeturn' = FALSE /\ waiting' = TRUE
    /\ UNCHANGED <<scene, title, nohostreturn, ssindex, searchVars, rowVars, raced>>

\* If the season chosen has no episode, the handler fails at its last line but a few, and
\* leaves the page to the timer.  A show without episodes is a 404.
EpisodesAnswered ==
    LET listed  == Listed(Episodes[title])
        seasons == BoxedSeasons(listed)
        fails   == BoxedEpisodes(listed, LastSeason(listed)) = {}
    IN  /\ fetch = "episodes"
        /\ seasonsave' = Ascending(seasons)
        /\ seasonRow' = NewRow(Cardinality(seasons), MaxSe)
        /\ seasonMark' = "selected"
        /\ BoxEpisodes(listed, LastSeason(listed))
        /\ fetch' = IF fails THEN "dead" ELSE "none"
        /\ waiting' = fails
        /\ episodeobject' = IF fails THEN episodeobject ELSE listed
        /\ UNCHANGED <<scene, title, inforeturn, nohostreturn, ssindex, searchVars, raced>>

Fetching == {"movie", "serie", "episodes"}

\* Another status than 200 and 404, 0 among them: the handler does nothing.
FetchFails ==
    /\ fetch \in Fetching
    /\ fetch' = "dead"
    /\ UNCHANGED <<scene, title, pageVars, searchVars, rowVars, raced>>

\* Mutant: the timer is cleared by any answer.
FetchTimesOut_Cleared ==
    /\ fetch \in Fetching \cup {"drawing"}
    /\ fetch' = IF fetch = "drawing" THEN "overdue" ELSE "none"
    /\ inforeturn' = TRUE
    /\ UNCHANGED <<scene, title, waiting, nohostreturn, ssindex, searchVars, rowVars, raced>>

\* The 25 s timer of the request the page waits for.
FetchTimesOut ==
    /\ fetch \in Fetching \cup {"dead", "drawing"}
    /\ fetch' = IF fetch = "drawing" THEN "overdue" ELSE "none"
    /\ inforeturn' = TRUE
    /\ UNCHANGED <<scene, title, waiting, nohostreturn, ssindex, searchVars, rowVars, raced>>

-----------------------------------------------------------------------------
(* Keys *)

\* handleHide, which empties the menu of seasons and episodes.
HidePage ==
    /\ scene' = "Main"
    /\ ssindex' = 2
    /\ seasonRow' = NoRow /\ seasonMark' = "none"
    /\ episodeRow' = NoRow /\ episodeMark' = "none"
    /\ raced' = (raced \/ searches # {})
    /\ UNCHANGED <<title, fetch, searchVars, episodeobject, seasonsave, episodesave>>

Return ==
    /\ scene = "InfoPage"
    /\ \/ /\ ~waiting
          /\ HidePage
          /\ UNCHANGED <<waiting, inforeturn, nohostreturn>>
       \/ /\ waiting /\ inforeturn
          /\ HidePage
          /\ waiting' = FALSE /\ inforeturn' = FALSE
          /\ UNCHANGED nohostreturn
       \/ /\ waiting /\ ~inforeturn /\ nohostreturn
          /\ waiting' = FALSE /\ nohostreturn' = FALSE
          /\ UNCHANGED <<scene, title, inforeturn, ssindex, fetch, searchVars, rowVars, raced>>

KeysWork == scene = "InfoPage" /\ ~waiting

\* The chosen episode: the class is only changed where it is the expected one.
MarkEpisode(from, to) == episodeMark' = IF episodeMark = from THEN to ELSE episodeMark
MarkSeason(from, to) == seasonMark' = IF seasonMark = from THEN to ELSE seasonMark

ToButton ==
    /\ MarkEpisode("active", "selected")
    /\ ssindex' = 2
    /\ UNCHANGED <<scene, title, waiting, inforeturn, nohostreturn, fetch, searchVars, raced,
                   episodeobject, seasonRow, seasonsave, seasonMark, episodeRow, episodesave>>

ToEpisodes(seasonFrom, seasonTo) ==
    /\ MarkEpisode("selected", "active")
    /\ MarkSeason(seasonFrom, seasonTo)
    /\ ssindex' = 1
    /\ UNCHANGED <<scene, title, waiting, inforeturn, nohostreturn, fetch, searchVars, raced,
                   episodeobject, seasonRow, seasonsave, episodeRow, episodesave>>

ToSeasons ==
    /\ MarkEpisode("active", "selected")
    /\ MarkSeason("selected", "active")
    /\ ssindex' = 0
    /\ UNCHANGED <<scene, title, waiting, inforeturn, nohostreturn, fetch, searchVars, raced,
                   episodeobject, seasonRow, seasonsave, episodeRow, episodesave>>

Up ==
    /\ KeysWork
    /\ \/ ssindex = 2 /\ episodeRow # NoRow /\ ToEpisodes("none", "none")
       \/ ssindex = 1 /\ ToSeasons

Down ==
    /\ KeysWork
    /\ \/ ssindex = 1 /\ ToButton
       \/ ssindex = 0 /\ ToEpisodes("active", "selected")

\* RIGHT and LEFT move in the row of ssindex.  Another season has other episodes.
MoveEpisode(Moved(_, _)) ==
    /\ ssindex = 1 /\ episodeMark = "active"
    /\ episodeRow' = Moved(episodeRow, MaxEe)
    /\ UNCHANGED <<scene, title, pageVars, fetch, searchVars, episodeobject, seasonRow,
                   seasonsave, seasonMark, episodesave, episodeMark, raced>>

MoveSeason(Moved(_, _)) ==
    /\ ssindex = 0 /\ seasonMark = "active" /\ seasonRow.n > 1
    /\ seasonRow' = Moved(seasonRow, MaxSe)
    /\ BoxEpisodes(episodeobject, Value(Moved(seasonRow, MaxSe), seasonsave))
    /\ UNCHANGED <<scene, title, pageVars, fetch, searchVars, episodeobject, seasonsave,
                   seasonMark, raced>>

Right == KeysWork /\ (MoveEpisode(MovedRight) \/ MoveSeason(MovedRight))
Left  == KeysWork /\ (MoveEpisode(MovedLeft) \/ MoveSeason(MovedLeft))

-----------------------------------------------------------------------------
(* Searching for torrents *)

\* Mutant: what has been found before stays in the list.
Search_KeepsTorrents ==
    LET show == seasonRow # NoRow
    IN  /\ waiting' = TRUE
        /\ searches' = searches \cup
              {[title   |-> title,
                season  |-> IF show THEN MarkedSeason ELSE 0,
                episode |-> IF show THEN MarkedEpisode ELSE 0,
                route   |-> IF show THEN "tmdb" ELSE "query"]}
        /\ UNCHANGED <<scene, title, inforeturn, nohostreturn, ssindex, fetch, torrents, rowVars,
                       raced>>

\* A show is first searched for by its number at TMDB, a film by its title.
Search ==
    LET show == seasonRow # NoRow
    IN  /\ waiting' = TRUE
        /\ torrents' = {}
        /\ searches' = searches \cup
              {[title   |-> title,
                season  |-> IF show THEN MarkedSeason ELSE 0,
                episode |-> IF show THEN MarkedEpisode ELSE 0,
                route   |-> IF show THEN "tmdb" ELSE "query"]}
        /\ UNCHANGED <<scene, title, inforeturn, nohostreturn, ssindex, fetch, rowVars, raced>>

Enter ==
    /\ KeysWork
    /\ \/ ssindex = 1 /\ ToButton
       \/ ssindex = 0 /\ ToEpisodes("active", "selected")
       \/ ssindex = 2 /\ Search

\* The list opens wherever the user is by now.
TorrentsFound(s) ==
    /\ searches' = searches \ {s}
    /\ torrents' = torrents \cup {<<s.title, s.season, s.episode>>}
    /\ waiting' = FALSE
    /\ scene' = "HostsMenu"
    /\ UNCHANGED <<title, inforeturn, nohostreturn, ssindex, fetch, rowVars, raced>>

\* 404 for the number at TMDB: once more with the title.
SearchAgain(s) ==
    /\ s.route = "tmdb"
    /\ searches' = (searches \ {s}) \cup {[s EXCEPT !.route = "query"]}
    /\ UNCHANGED <<scene, title, pageVars, fetch, torrents, rowVars, raced>>

\* Any other status, and the 25 s timer, whose abort runs the handler too.
NothingFound(s) ==
    /\ searches' = searches \ {s}
    /\ waiting' = TRUE /\ nohostreturn' = TRUE
    /\ UNCHANGED <<scene, title, inforeturn, ssindex, fetch, torrents, rowVars, raced>>

SearchEnds == \E s \in searches : TorrentsFound(s) \/ SearchAgain(s) \/ NothingFound(s)
SearchTimesOut == \E s \in searches : NothingFound(s)

\* External: HostsMenu gives the focus back.
LeaveHosts ==
    /\ scene = "HostsMenu"
    /\ scene' = "InfoPage"
    /\ UNCHANGED <<title, pageVars, fetch, searchVars, rowVars, raced>>

-----------------------------------------------------------------------------
PageStep ==
    \/ MovieAnswered \/ Drawn \/ SerieAnswered \/ EpisodesAnswered
    \/ FetchFails \/ FetchTimesOut
    \/ SearchEnds
KeyStep == Return \/ Up \/ Down \/ Right \/ Left \/ Enter

-----------------------------------------------------------------------------
(* Properties *)

\* What is searched for is an episode that has been aired, a season that has begun or
\* the whole show; the page reads it back out of the labels of two rows it redraws.
AsksForAired ==
    \A s \in searches : s.title \in Shows =>
        [season |-> s.season, number |-> s.episode, aired |-> "past"]
            \in Listed(Episodes[s.title])

\* The list of torrents belongs to the title the page shows and to the season and the
\* episode that are marked, unless the page was left during a search.
ListOfShownTitle ==
    scene = "HostsMenu" /\ ~raced =>
        torrents = {IF title \in Shows THEN <<title, MarkedSeason, MarkedEpisode>>
                                       ELSE <<title, 0, 0>>}

\* A page that waits comes to an end of it or can be left, whatever becomes of the
\* requests, a handler that fails among them.
NeverTrapped == scene = "InfoPage" /\ waiting ~> ~waiting \/ inforeturn \/ nohostreturn
=============================================================================

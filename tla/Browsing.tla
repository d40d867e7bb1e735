------------------------------ MODULE Browsing ------------------------------
(***************************************************************************)
(* The widget up to the list of torrents: the start, the main page, the    *)
(* menus over it, the settings and the details page.  They share the scene *)
(* manager's focus, the list of titles and the position in it, and each    *)
(* takes up callbacks while another has the focus.                         *)
(*                                                                         *)
(* The menus keep nothing the model tells apart: MainMenu stands for       *)
(* itself, for SearchPage and for the receiver page opened from it,        *)
(* SortMenu for itself and for GenresMenu.  EXIT ends the widget in every  *)
(* scene; the initial states range over what it leaves behind.             *)
(***************************************************************************)
EXTENDS WidgetStart, BoxRow

CONSTANTS
  Trending,     \* the lists of the main menu
  Kind,         \* of each discover list: "movie" or "tv"
  ShowTitles, ShowEpisodes, None,    \* of Details
  Opened,       \* bound: whose details page is opened on which tour
  MaxPages,     \* bound: details pages opened
  MaxSettings   \* bound: visits to the settings

\* Bound: a user who walks over the lists has settings of this version and leaves them.
Tours == {"lists", "settings"}

VARIABLES
  scene,
  saveSettings, localData, wanted, defaulted,
  title, pageWaiting, inforeturn, nohostreturn, ssindex, fetch, searches, torrents,
  episodeobject, seasonsave, seasonMark, episodesave, episodeMark, raced,
  tour,         \* bound: what the user is about
  visits        \* bound: [pages, settings]

S == INSTANCE Settings
D == INSTANCE Details WITH waiting <- pageWaiting, Shows <- ShowTitles, Episodes <- ShowEpisodes,
                           Titles <- DOMAIN Id

ASSUME BrowsingAssumption ==
  /\ D!DetailsAssumption
  /\ Kind \in [Discover -> {"movie", "tv"}] /\ Trending \subseteq Discover
  /\ MaxPages \in Nat /\ MaxSettings \in Nat

settingVars == <<saveSettings, localData, wanted, defaulted>>
mainAll == <<mainVars, start>>
detailVars == <<title, pageWaiting, inforeturn, nohostreturn, ssindex, fetch, searches, torrents,
                episodeobject, seasonRow, seasonsave, seasonMark, episodeRow, episodesave,
                episodeMark, raced>>
vars == <<mainAll, scene, settingVars, detailVars, tour, visits>>

Init ==
  /\ StartInit
  /\ S!SettingsInit
  /\ D!Init
  /\ favdata = << >>
  /\ tour \in Tours
  /\ tour = "lists" => localData = S!Defaults
  /\ visits = [pages |-> 0, settings |-> 0]

\* SceneMain.initialize loads the settings before it starts the server.
LoadSettings ==
    /\ saveSettings = S!NoData
    /\ S!CreateOrLoadTemp
    /\ UNCHANGED <<mainAll, scene, detailVars, tour, visits>>

Loaded == saveSettings # S!NoData

-----------------------------------------------------------------------------
(* Callbacks and timers, whatever scene has the focus *)

mainOnly == <<scene, settingVars, detailVars, tour, visits>>

MainCallback ==
    /\ Loaded
    /\ \/ \E r \in requests : Answered(r) \/ RequestFails(r) \/ RequestTimesOut(r) \/ ServerChecked(r)
       \/ \E g \in grids : GridShown(g, start # "none")
       \/ GridRotates \/ GridReleased \/ FavouriteSaved
    /\ UNCHANGED <<start, mainOnly>>

StartCallback == Loaded /\ StartSteps /\ UNCHANGED mainOnly

PageCallback == Loaded /\ D!PageStep /\ UNCHANGED <<mainAll, settingVars, tour, visits>>

-----------------------------------------------------------------------------
(* Keys of the main page *)

OnMain == Loaded /\ scene = "Main"

\* Bound: the lists are walked over until a page is left.
Walks == OnMain /\ tour = "lists" /\ visits.pages = 0

MainKey ==
    /\ Walks
    /\ \/ DownKey \/ UpKey \/ RightKey \/ LeftKey
       \/ SaveFavourite \/ RemoveFavourite \/ RemoveAllFavourites
       \/ ReturnKey \/ TryAgain
    /\ UNCHANGED <<start, mainOnly>>

LookAgainKey == OnMain /\ LookAgain /\ UNCHANGED mainOnly

Focus(s) ==
    /\ scene' = s
    /\ UNCHANGED <<mainAll, settingVars, detailVars, tour, visits>>

\* TOOLS and BLUE; RED and GREEN in a discover list; TOOLS over a list that does not load.
OpenMainMenu == OnMain /\ KeysWork /\ Focus("MainMenu")
OpenSortMenu == Walks /\ KeysWork /\ querytype \in Discover /\ Focus("SortMenu")
OpenReceiver ==
    /\ OnMain /\ ~searcherror /\ waiting /\ justexit /\ ~noTryAgain /\ isrunning
    /\ Focus("ReceiverPage")

\* ENTER.  Bound: a search or a timer that outlives its page is not followed into the next one.
OpenPage ==
    /\ OnMain /\ KeysWork
    /\ visits.pages < MaxPages /\ fetch = "none" /\ ~raced
    /\ Has(position) /\ Item(position) \in Opened[tour]
    /\ D!Show(Item(position))
    /\ visits' = [visits EXCEPT !.pages = @ + 1]
    /\ UNCHANGED <<mainAll, settingVars, tour>>

-----------------------------------------------------------------------------
(* Keys of the menus and the settings *)

Back == Loaded /\ scene \in {"MainMenu", "SortMenu", "ReceiverPage"} /\ Focus("Main")

\* Bound: the lists are chosen before a page is left.
Chooses == Loaded /\ tour = "lists" /\ lists < MaxLists /\ visits.pages = 0

ListChosen == scene' = "Main" /\ UNCHANGED <<start, settingVars, detailVars, tour, visits>>

ChooseFromMenu ==
    /\ Chooses /\ scene = "MainMenu"
    /\ \/ \E d \in Trending : ShowDiscover(d) /\ UNCHANGED faverror
       \/ UNCHANGED favdata /\ ShowFavouritesMenu
    /\ ListChosen

SearchFor == Chooses /\ scene = "MainMenu" /\ (\E t \in Texts : ShowSearchMenu(t)) /\ ListChosen

\* By genre or in another order, of the kind that is shown
ChooseSorted ==
    /\ Chooses /\ scene = "SortMenu"
    /\ \E d \in Discover : Kind[d] = Kind[querytype] /\ ShowDiscover(d) /\ UNCHANGED faverror
    /\ ListChosen

OpenSettings ==
    /\ Loaded /\ scene = "MainMenu" /\ tour = "settings" /\ visits.settings < MaxSettings
    /\ S!CreateOrLoadTemp
    /\ scene' = "SettingsPage"
    /\ visits' = [visits EXCEPT !.settings = @ + 1]
    /\ UNCHANGED <<mainAll, detailVars, tour>>

ChangeSetting == S!Choose /\ UNCHANGED <<mainAll, detailVars, tour, visits>>

\* Mutant: what has been chosen stays in memory.
LeaveSettings_KeepsChoice ==
    /\ scene = "SettingsPage"
    /\ scene' = "MainMenu"
    /\ UNCHANGED <<mainAll, settingVars, detailVars, tour, visits>>

\* RETURN drops what has been chosen.
LeaveSettings ==
    /\ scene = "SettingsPage"
    /\ S!CreateOrLoadTemp
    /\ scene' = "MainMenu"
    /\ UNCHANGED <<mainAll, detailVars, tour, visits>>

\* With RestartServer("loud")
KeepSettings ==
    /\ scene = "SettingsPage"
    /\ S!SaveTemp \/ S!RestoreDefaultTemp
    /\ scene' = "Main"
    /\ waiting' = TRUE
    /\ start' = "restarting"
    /\ UNCHANGED <<listVars, gridVars, searcherror, faverror, notExit, isrunning, requests, grids,
                   save, favVars, auxVars, detailVars, tour, visits>>

-----------------------------------------------------------------------------
(* The details page and beyond *)

PageKey == Loaded /\ D!KeyStep /\ UNCHANGED <<mainAll, settingVars, tour, visits>>

LeaveHosts == Loaded /\ D!LeaveHosts /\ UNCHANGED <<mainAll, settingVars, tour, visits>>

\* The player is opened over the list of torrents; the style is set in a menu of its own.
KeepStyle ==
    /\ Loaded /\ scene = "HostsMenu" /\ tour = "settings"
    /\ S!KeepStyle
    /\ UNCHANGED <<mainAll, scene, detailVars, tour, visits>>

-----------------------------------------------------------------------------
Callbacks == MainCallback \/ StartCallback \/ PageCallback
Keys ==
    \/ MainKey \/ LookAgainKey \/ OpenMainMenu \/ OpenSortMenu \/ OpenReceiver \/ OpenPage
    \/ Back \/ ChooseFromMenu \/ SearchFor \/ ChooseSorted \/ OpenSettings \/ ChangeSetting \/ LeaveSettings \/ KeepSettings
    \/ PageKey \/ LeaveHosts \/ KeepStyle

Next == LoadSettings \/ Callbacks \/ Keys

\* Timers fire.  No request has to be answered and no key pressed.
Fairness ==
    /\ WF_vars(LoadSettings)
    /\ WF_vars(Loaded /\ StartTimers /\ UNCHANGED mainOnly)
    /\ WF_vars(Loaded /\ (\E r \in requests : RequestTimesOut(r) \/ ServerChecked(r))
                      /\ UNCHANGED <<start, mainOnly>>)
    /\ WF_vars(Loaded /\ (\E g \in grids : GridShown(g, start # "none"))
                      /\ UNCHANGED <<start, mainOnly>>)
    /\ WF_vars(Loaded /\ (GridRotates \/ GridReleased \/ FavouriteSaved)
                      /\ UNCHANGED <<start, mainOnly>>)
    /\ WF_vars(Loaded /\ (D!FetchTimesOut \/ D!Drawn \/ D!SearchTimesOut)
                      /\ UNCHANGED <<mainAll, settingVars, tour, visits>>)

Spec == Init /\ [][Next]_vars /\ Fairness

-----------------------------------------------------------------------------
(* Properties *)

AsksForAired == D!AsksForAired
NeverTrapped == D!NeverTrapped

\* Settings!SettingsKept, as long as no page was left during its search: such a search takes
\* the focus from the settings, too.
SettingsKept == Loaded /\ ~raced => S!SettingsKept

\* The details page and the list of torrents over it are those of the title in the position
\* of the main page, which InfoPage.js and HostsMenu.js go on reading, while pages of the
\* list shown arrive, fail and time out, and the torrents those of the season and episode
\* that are marked.  Excepted are a page that was left during its search and, for the title,
\* a main page that an answer for another list has changed or whose grid was shown again to a
\* user already on it: the one moves other titles to the position, the other opens the keys
\* in the middle of a scroll, which moves the position afterwards.
PageFitsList ==
    /\ scene \in {"InfoPage", "HostsMenu"} /\ InStep /\ ~raced =>
          Has(position) /\ Item(position) = title
    /\ D!ListOfShownTitle

\* Whatever the server does, the main page comes to take keys again or offers a way out,
\* unless the second half of a search has had no answer (Main.js, the 20 s timer).
WaitEnds == waiting /\ ~lost ~> ~waiting \/ justexit \/ lost
=============================================================================

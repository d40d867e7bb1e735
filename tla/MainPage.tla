------------------------------- MODULE MainPage -------------------------------
(***************************************************************************)
(* The main page (Main.js): a list of titles, loaded from the server page  *)
(* by page, and a grid of cards the user walks over.  Every callback works *)
(* on the same global variables, whichever list it was asked for.          *)
(*                                                                         *)
(* A list is a discover list, a search or the favourites.  Two titles with *)
(* the same poster count as one, so a title stands for its poster.  Three  *)
(* rows of cards exist, of which two are shown; the third is filled and    *)
(* moved in when the grid scrolls.  A row has W cards (5 in the code).     *)
(***************************************************************************)
EXTENDS Integers, FiniteSets, SequencesExt

CONSTANTS
  W,            \* cards in a row
  Discover,     \* the lists /tmdbdiscover serves, by type, genre and sort
  Texts,        \* what is searched for
  Pages,        \* titles on each page of a discover list
  Found,        \* films and shows found for a text, and how many pages there are
  FirstList,    \* ShowMoviesMenu('all', 'trending')
  Dummies,      \* the two titles made up for a text that finds no show
  Id,           \* of each title: films and shows are numbered apart, made up titles are 0
  Favourites,   \* the name of the list of favourites
  MaxLists,     \* bound: lists the user opens
  Liked,        \* bound: what becomes a favourite
  Hidden        \* no title: a card that is not visible

ASSUME GridAssumption == W \in Nat \ {0} /\ MaxLists \in Nat \ {0} /\ FirstList \in Discover

\* A discover list and a search are told apart; what the server serves, and what is made up,
\* are lists of titles.
ASSUME ListsAssumption ==
  /\ Discover \cap Texts = {}
  /\ \A d \in Discover : \A p \in DOMAIN Pages[d] : Pages[d][p] \in Seq(DOMAIN Id)
  /\ \A t \in Texts : /\ Found[t].films \in Seq(DOMAIN Id) /\ Found[t].shows \in Seq(DOMAIN Id)
                     /\ Dummies[t] \in Seq(DOMAIN Id)

Slots == 0 .. 3 * W - 1     \* the cards by their id, "moviecards0" and so on
Shown == 0 .. 2 * W - 1

VARIABLES
  querytype,      \* the list shown
  wrapData, position,
  page, totalpages, tmdbPagePending,
  cards,          \* the title each card shows
  selected,       \* the cards of class mc_selected
  scroll          \* the timer of the scrolling grid
VARIABLES
  waiting, searcherror, faverror,
  justexit, isrunning, noTryAgain, findserver,
  requests,       \* GetMovieInfo: requests whose 20 s timer matters
  grids,          \* ShowTmdbGrid: timers of 700 ms
  save,           \* save_wrapData and the others
  favdata,        \* favdata.json
  favsaving       \* SaveFavouritesToLocal: a timer of 500 ms
VARIABLES
  lists,          \* bound: how many lists have been opened
  list,           \* auxiliary: which of them is shown
  got,            \* auxiliary: pages received for it
  late,           \* auxiliary: a callback of another list has changed this one
  regrid,         \* auxiliary: the grid was shown again to a user already on it
  skipped,        \* auxiliary: a page was answered with nothing, or failed before its timer
  undrawn,        \* auxiliary: titles were added to a row that had scrolled into view unfilled
  lost            \* auxiliary: the last request of a search failed and none found a title

listVars == <<querytype, wrapData, position, page, totalpages, tmdbPagePending>>
gridVars == <<cards, selected, scroll>>
screenVars == <<waiting, searcherror, faverror, justexit, isrunning, noTryAgain, findserver>>
favVars == <<favdata, favsaving>>
auxVars == <<lists, list, got, late, regrid, skipped, undrawn, lost>>
mainVars == <<listVars, gridVars, screenVars, requests, grids, save, favVars, auxVars>>

NoScroll == [step |-> "none"]
Blank == [s \in Slots |-> Hidden]

\* wrapData[i] # undefined
Has(i) == 0 <= i /\ i < Len(wrapData)
Item(i) == wrapData[i + 1]

-----------------------------------------------------------------------------
(* GetMovieInfo *)

Request(type, pg) == [list |-> list, name |-> querytype, type |-> type, page |-> pg, state |-> "sent"]
IsSearch(r) == r.name \in Texts
IsPage(r)   == r.type = "silent" /\ ~IsSearch(r)

\* What a sequence has in the places I, in their order.
Picked(seq, I) ==
    [k \in 1 .. Cardinality(I) |-> seq[CHOOSE i \in I : Cardinality({j \in I : j <= i}) = k]]

\* Titles are taken over in their order, one for each poster.
Kept(data, titles) ==
    data \o Picked(titles, {i \in DOMAIN titles : /\ titles[i] \notin Range(data)
                                                /\ \A j \in 1 .. i - 1 : titles[j] # titles[i]})

\* What there is to find, and on how many pages.  The server knows no list of favourites.
Titled(r) ==
    CASE r.name \in Discover -> IF r.page \in DOMAIN Pages[r.name] THEN Pages[r.name][r.page] ELSE << >>
      [] IsSearch(r)         -> IF r.type = "first" THEN Found[r.name].films ELSE Found[r.name].shows
      [] OTHER               -> << >>
PagesOf(r) == IF IsSearch(r) THEN Found[r.name].pages ELSE Len(Pages[r.name])

\* The first cards show what is taken over first; the grid is shown once it is full, and
\* after each answer that leaves it unfilled.
Take(titles, r) ==
    LET data == Kept(wrapData, titles)
    IN  /\ wrapData' = data
        /\ cards' = [s \in Slots |-> IF s \in Shown /\ ~Has(s) /\ s < Len(data)
                                     THEN data[s + 1] ELSE cards[s]]
        /\ grids' = IF titles # << >> /\ Len(wrapData) < 2 * W
                    THEN grids \cup {[list |-> r.list, type |-> r.type, page |-> r.page]} ELSE grids

\* The last row has scrolled in, or does, with fewer titles than cards.  Its cards are drawn
\* by the scroll only, those of the first two rows by Take as well.
UnfilledInView ==
    /\ Len(wrapData) > 2 * W /\ Len(wrapData) % W # 0
    /\ Last(wrapData) \in Range(cards)

\* An answer of 200 or of 404, which the server also gives if TMDB gives it nothing.  A
\* search goes on with the shows, and makes two titles up if it finds none.
Answered(r) ==
    /\ r.state = "sent"
    /\ \E titles \in {Titled(r), << >>} :
          LET next == CASE IsSearch(r) /\ r.type = "first" -> {[r EXCEPT !.type = "silent"]}
                        [] ~IsSearch(r) /\ r.type = "first" /\ titles = << >>
                                                           -> {[r EXCEPT !.state = "checking"]}
                        [] OTHER                           -> {}
          IN  /\ requests' = (requests \ {r}) \cup next
              /\ Take(IF titles = << >> /\ IsSearch(r) /\ r.type = "silent" THEN Dummies[r.name]
                      ELSE titles, r)
              /\ totalpages' = IF titles = << >> THEN totalpages ELSE PagesOf(r)
              /\ got' = IF r.list = list THEN got \cup {r.page} ELSE got
              /\ skipped' = (skipped \/ (IsPage(r) /\ titles # Titled(r)))
              /\ undrawn' = (undrawn \/ (UnfilledInView /\ wrapData' # wrapData))
    /\ tmdbPagePending' = IF IsPage(r) THEN FALSE ELSE tmdbPagePending
    /\ justexit' = IF IsSearch(r) /\ r.type = "first" THEN FALSE ELSE justexit
    /\ late' = (late \/ r.list # list)
    /\ UNCHANGED <<querytype, position, page, selected, scroll, waiting, searcherror, faverror,
                   isrunning, noTryAgain, findserver, save, favVars, lists, list, regrid, lost>>

\* No connection, or another status.  The timer is still to come.
RequestFails(r) ==
    /\ r.state = "sent"
    /\ requests' = (requests \ {r}) \cup {[r EXCEPT !.state = "failed"]}
    /\ tmdbPagePending' = IF IsPage(r) THEN FALSE ELSE tmdbPagePending
    /\ skipped' = (skipped \/ IsPage(r))
    /\ late' = (late \/ r.list # list)
    /\ UNCHANGED <<querytype, wrapData, position, page, totalpages, gridVars, screenVars, grids,
                   save, favVars, lists, list, got, regrid, undrawn, lost>>

\* Mutant: a page that has not come counts as loaded.
RequestTimesOut_KeepsPage(r) ==
    /\ r.state \in {"sent", "failed"}
    /\ requests' = (requests \ {r})
         \cup (IF r.type = "first" THEN {[r EXCEPT !.state = "checking"]} ELSE {})
    /\ tmdbPagePending' = IF IsPage(r) THEN FALSE ELSE tmdbPagePending
    /\ late' = (late \/ r.list # list)
    /\ lost' = (lost \/ (r.type = "silent" /\ IsSearch(r) /\ wrapData = << >>))
    /\ UNCHANGED <<querytype, wrapData, position, page, totalpages, gridVars, screenVars, grids,
                   save, favVars, lists, list, got, regrid, skipped, undrawn>>

\* Mutant: a failed request has the server not asked for.
RequestTimesOut_IfSent(r) ==
    /\ r.state \in {"sent", "failed"}
    /\ requests' = (requests \ {r})
         \cup (IF r.type = "first" /\ r.state = "sent" THEN {[r EXCEPT !.state = "checking"]} ELSE {})
    /\ IF IsPage(r)
       THEN /\ tmdbPagePending' = FALSE
            /\ page' = IF page = r.page THEN r.page - 1 ELSE page
       ELSE UNCHANGED <<tmdbPagePending, page>>
    /\ late' = (late \/ r.list # list)
    /\ lost' = (lost \/ (r.type = "silent" /\ IsSearch(r) /\ wrapData = << >>))
    /\ UNCHANGED <<querytype, wrapData, position, totalpages, gridVars, screenVars, grids, save,
                   favVars, lists, list, got, regrid, skipped, undrawn>>

\* The 20 s timer.  It gives a page back that has not come, and asks whether the server
\* still runs if it is the first.
RequestTimesOut(r) ==
    /\ r.state \in {"sent", "failed"}
    /\ requests' = (requests \ {r})
         \cup (IF r.type = "first" THEN {[r EXCEPT !.state = "checking"]} ELSE {})
    /\ IF IsPage(r)
       THEN /\ tmdbPagePending' = FALSE
            /\ page' = IF page = r.page THEN r.page - 1 ELSE page
       ELSE UNCHANGED <<tmdbPagePending, page>>
    /\ late' = (late \/ r.list # list)
    /\ lost' = (lost \/ (r.type = "silent" /\ IsSearch(r) /\ wrapData = << >>))
    /\ UNCHANGED <<querytype, wrapData, position, totalpages, gridVars, screenVars, grids, save,
                   favVars, lists, list, got, regrid, skipped, undrawn>>

\* IsTheServerStillRunning: an answer, or 2 s without one.
ServerChecked(r) ==
    /\ r.state = "checking"
    /\ requests' = requests \ {r}
    /\ isrunning' \in BOOLEAN
    /\ justexit' = TRUE
    /\ UNCHANGED <<listVars, gridVars, waiting, searcherror, faverror, noTryAgain, findserver,
                   grids, save, favVars, auxVars>>

\* ShowTmdbGrid, and the same lines of GeFavouritesInfo.  No other card loses its class.
\* busy: something else has closed the key gate.
GridShown(timer, busy) ==
    /\ grids' = grids \ {timer}
    /\ waiting' = FALSE
    /\ selected' = selected \cup {0}
    /\ late' = (late \/ timer.list # list)
    /\ regrid' = (regrid \/ selected \ {0} # {} \/ scroll # NoScroll \/ favsaving \/ busy)
    /\ UNCHANGED <<listVars, cards, scroll, searcherror, faverror, justexit, isrunning, noTryAgain,
                   findserver, requests, save, favVars, lists, list, got, skipped, undrawn, lost>>

-----------------------------------------------------------------------------
(* Opening a list *)

\* getElementsByClassName('mc_selected')[0]
NoCard == -1
Marked == IF selected = {} THEN {NoCard} ELSE selected

\* What ShowMoviesMenu, ShowShowsMenu, ShowFavouritesMenu and ShowSearchMenu share.
OpenList(name, marked) ==
    /\ lists' = lists + 1 /\ list' = lists + 1 /\ got' = {}
    /\ querytype' = name
    /\ position' = 0 /\ page' = 1 /\ totalpages' = 1
    /\ justexit' = FALSE
    /\ selected' = selected \ {marked}
    /\ UNCHANGED <<scroll, isrunning, noTryAgain, findserver, favsaving, late, regrid, skipped,
                  undrawn, lost>>

AskFirst ==
    /\ wrapData' = << >> /\ cards' = Blank
    /\ waiting' = TRUE /\ searcherror' = FALSE
    /\ requests' = requests \cup
          {[list |-> list', name |-> querytype', type |-> "first", page |-> 1, state |-> "sent"]}
    /\ UNCHANGED grids

SaveList(marked) ==
    save' = [wrapData |-> wrapData, position |-> position, querytype |-> querytype,
             page |-> page, totalpages |-> totalpages, cards |-> cards,
             marked |-> IF marked = NoCard THEN save.marked ELSE marked,
             list |-> list, got |-> got]

\* ShowMoviesMenu, ShowShowsMenu.  faverror is left to the caller.
ShowDiscover(name) ==
    /\ \E marked \in Marked : OpenList(name, marked)
    /\ AskFirst
    /\ tmdbPagePending' = FALSE
    /\ UNCHANGED <<save, favdata>>

ShowSearchMenu(text) ==
    /\ \E marked \in Marked : OpenList(text, marked) /\ SaveList(marked)
    /\ AskFirst
    /\ UNCHANGED <<tmdbPagePending, faverror, favdata>>

\* With GeFavouritesInfo, which reads favdata.json.
ShowFavouritesMenu ==
    LET titles == Kept(<< >>, favdata')
    IN  /\ \E marked \in Marked : OpenList(Favourites, marked) /\ SaveList(marked)
        /\ wrapData' = titles
        /\ cards' = [s \in Slots |-> IF s \in Shown /\ s < Len(titles) THEN titles[s + 1] ELSE Hidden]
        /\ grids' = IF titles = << >> THEN grids
                    ELSE grids \cup {[list |-> list', type |-> "first", page |-> 1]}
        /\ waiting' = (titles # << >>)
        /\ searcherror' = (titles = << >>) /\ faverror' = (titles = << >>)
        /\ UNCHANGED <<tmdbPagePending, requests>>

-----------------------------------------------------------------------------
(* Keys that move over the grid *)

\* Bound: what the user does next to a list that a callback of another has changed, to a
\* grid shown again under them, or to a row with titles no card shows, is not followed.
InStep == ~late /\ ~regrid

KeysWork == ~searcherror /\ ~waiting /\ InStep /\ ~undrawn

\* LoadNextTmdbPage, called by PrefetchTmdbRow if the rows are not buffered ahead.
RowStart == position - (position % W)
LoadsNext ==
    /\ Len(wrapData) < RowStart + 3 * W
    /\ querytype \notin Texts /\ ~tmdbPagePending /\ page < totalpages

PrefetchTmdbRow ==
    IF LoadsNext
    THEN /\ page' = page + 1 /\ tmdbPagePending' = TRUE /\ justexit' = FALSE
         /\ requests' = requests \cup {Request("silent", page + 1)}
    ELSE UNCHANGED <<page, tmdbPagePending, justexit, requests>>

NoPrefetch == UNCHANGED <<page, tmdbPagePending, justexit, requests>>

\* The next row is complete, or there is nothing more to come for it.
NextRowReady(pending, pg) ==
    /\ Has(RowStart + W)
    /\ Has(RowStart + 2 * W - 1) \/ (~pending /\ pg >= totalpages)

\* The third row is filled with the row first .., and comes in 300 ms later.
ScrollGrid(dir, c, first) ==
    /\ position' = IF dir = "down" THEN position + W ELSE position - W
    /\ cards' = [s \in Slots |-> IF s \in Shown THEN cards[s]
                                 ELSE IF Has(first + s - 2 * W) THEN Item(first + s - 2 * W)
                                 ELSE Hidden]
    /\ selected' = selected \ {c}
    /\ waiting' = TRUE
    /\ scroll' = [step |-> "rotate", dir |-> dir, slot |-> c, offset |-> position % W]

keyFrame == <<querytype, wrapData, totalpages, searcherror, faverror, isrunning, noTryAgain,
              findserver, grids, save, favVars, auxVars>>

DownKey ==
    /\ KeysWork
    /\ PrefetchTmdbRow
    /\ \E c \in selected :
          \/ /\ c < W /\ Has(position + W)
             /\ position' = position + W
             /\ selected' = (selected \ {c}) \cup {c + W}
             /\ UNCHANGED <<cards, scroll, waiting>>
          \/ /\ c >= W /\ NextRowReady(tmdbPagePending', page')
             /\ ScrollGrid("down", c, RowStart + W)
          \/ /\ IF c < W THEN ~Has(position + W) ELSE ~NextRowReady(tmdbPagePending', page')
             /\ UNCHANGED <<position, gridVars, waiting>>
    /\ UNCHANGED keyFrame

UpKey ==
    /\ KeysWork
    /\ NoPrefetch
    /\ \E c \in selected :
          \/ /\ c >= W
             /\ position' = position - W
             /\ selected' = (selected \ {c}) \cup {c - W}
             /\ UNCHANGED <<cards, scroll, waiting>>
          \/ /\ c < W /\ Has(RowStart - W)
             /\ ScrollGrid("up", c, RowStart - W)
    /\ UNCHANGED keyFrame

RightKey ==
    /\ KeysWork
    /\ NoPrefetch
    /\ \E c \in selected :
          /\ c \notin {W - 1, 2 * W - 1} /\ Has(position + 1)
          /\ position' = position + 1
          /\ selected' = (selected \ {c}) \cup {c + 1}
    /\ UNCHANGED <<keyFrame, cards, scroll, waiting>>

LeftKey ==
    /\ KeysWork
    /\ NoPrefetch
    /\ \E c \in selected :
          /\ c \notin {0, W}
          /\ position' = position - 1
          /\ selected' = (selected \ {c}) \cup {c - 1}
    /\ UNCHANGED <<keyFrame, cards, scroll, waiting>>

\* After 300 ms: the ids go round by a row, and the card in the place of the one before is
\* chosen, or the first of the row if there is none.
Rotated(s) == IF scroll.dir = "down" THEN (s + 2 * W) % (3 * W) ELSE (s + W) % (3 * W)
ComesFrom(s) == IF scroll.dir = "down" THEN (s + W) % (3 * W) ELSE (s + 2 * W) % (3 * W)

\* Mutant: the position stays when the row has no card in the place of the one before.
GridRotates_KeepsPosition ==
    LET rotated == [s \in Slots |-> IF s \in Shown THEN cards[ComesFrom(s)] ELSE Hidden]
        fits    == rotated[scroll.slot] # Hidden
    IN  /\ scroll.step = "rotate"
        /\ cards' = rotated
        /\ selected' = {Rotated(s) : s \in selected} \cup {IF fits THEN scroll.slot ELSE W}
        /\ scroll' = [step |-> "release"]
        /\ UNCHANGED <<keyFrame, position, page, tmdbPagePending, justexit, requests, waiting>>

GridRotates ==
    LET rotated == [s \in Slots |-> IF s \in Shown THEN cards[ComesFrom(s)] ELSE Hidden]
        fits    == rotated[scroll.slot] # Hidden
    IN  /\ scroll.step = "rotate"
        /\ cards' = rotated
        /\ selected' = {Rotated(s) : s \in selected} \cup {IF fits THEN scroll.slot ELSE W}
        /\ position' = IF fits THEN position ELSE position - scroll.offset
        /\ scroll' = [step |-> "release"]
        /\ UNCHANGED <<keyFrame, page, tmdbPagePending, justexit, requests, waiting>>

\* 200 ms later
GridReleased ==
    /\ scroll.step = "release"
    /\ scroll' = NoScroll
    /\ waiting' = FALSE
    /\ UNCHANGED <<keyFrame, listVars, cards, selected, justexit, requests>>

-----------------------------------------------------------------------------
(* The other keys *)

\* ENTER on an error screen
TryAgain ==
    /\ ~searcherror /\ waiting /\ justexit /\ ~noTryAgain
    /\ justexit' = FALSE
    /\ requests' = requests \cup {Request("first", page)}
    /\ UNCHANGED <<listVars, gridVars, waiting, searcherror, faverror, isrunning, noTryAgain,
                   findserver, grids, save, favVars, auxVars>>

\* RETURN on the message that there are no favourites (the one for a search without a
\* title is never shown).  With no favourite left to go back to, the films are listed.
ReturnKey ==
    /\ searcherror
    /\ IF save.querytype = Favourites /\ faverror
       THEN /\ OpenList(FirstList, IF selected = {} THEN save.marked ELSE CHOOSE c \in selected : TRUE)
            /\ AskFirst
            /\ tmdbPagePending' = FALSE /\ faverror' = FALSE
            /\ UNCHANGED <<save, favdata>>
       ELSE /\ wrapData' = save.wrapData /\ position' = save.position
            /\ querytype' = save.querytype
            /\ page' = save.page /\ totalpages' = save.totalpages
            /\ cards' = save.cards /\ selected' = selected \cup {save.marked}
            /\ list' = save.list /\ got' = save.got
            /\ searcherror' = FALSE /\ waiting' = FALSE
            /\ UNCHANGED <<tmdbPagePending, scroll, faverror, justexit, isrunning, noTryAgain,
                           findserver, requests, grids, save, favVars, lists, late, regrid,
                           skipped, undrawn, lost>>

\* YELLOW: a title becomes a favourite, or is one no longer.
SaveFavourite ==
    /\ KeysWork /\ querytype # Favourites /\ Has(position) /\ Item(position) \in Liked
    /\ favdata' = IF \E f \in Range(favdata) : Id[f] = Id[Item(position)] THEN favdata
                  ELSE Append(favdata, Item(position))
    /\ favsaving' = TRUE
    /\ waiting' = TRUE
    /\ UNCHANGED <<listVars, gridVars, searcherror, faverror, justexit, isrunning, noTryAgain,
                   findserver, requests, grids, save, auxVars>>

FavouriteSaved ==
    /\ favsaving
    /\ favsaving' = FALSE
    /\ waiting' = FALSE
    /\ UNCHANGED <<listVars, gridVars, searcherror, faverror, justexit, isrunning, noTryAgain,
                   findserver, requests, grids, save, favdata, auxVars>>

RemoveFavourite ==
    /\ KeysWork /\ querytype = Favourites /\ Has(position)
    /\ favdata' = Picked(favdata, {i \in DOMAIN favdata : Id[favdata[i]] # Id[Item(position)]})
    /\ ShowFavouritesMenu

\* BLUE
RemoveAllFavourites ==
    /\ KeysWork /\ querytype = Favourites
    /\ favdata' = << >>
    /\ ShowFavouritesMenu

-----------------------------------------------------------------------------
(* Properties *)

\* While keys are taken, one card is selected, it is in view, and it shows the title in the
\* position that ENTER opens and YELLOW keeps, as all cards in view show those around it
\* (Main.js handleKeyDown, which counts the two apart).  Excepted are a list whose page has
\* been skipped and, by KeysWork, what the user does after an answer for another list, after
\* the grid was shown again, and once the last row has grown after it had scrolled in, as
\* with the second half of a search: no card is drawn for the titles added, and RIGHT
\* selects one that is not visible.
CursorShowsPosition ==
    KeysWork /\ ~skipped =>
        \E c \in Shown :
            /\ selected = {c}
            /\ Has(position) /\ c % W = position % W
            /\ \A s \in Shown :
                  LET i == position - c + s IN cards[s] = IF Has(i) THEN Item(i) ELSE Hidden

\* Every page of a discover list up to the one counted last has been taken over or is on its
\* way, and the one that is waited for is on its way: a page whose answer does not come is
\* given back by the 20 s timer, whatever lists are opened meanwhile (LoadNextTmdbPage and
\* GetMovieInfo).  Nothing is said of a list that a callback of another has changed, nor once
\* a page has failed before its timer or been answered with nothing: it counts as loaded.
PagesInOrder ==
    querytype \in Discover /\ wrapData # << >> /\ InStep /\ ~skipped =>
        LET coming == {r \in requests : r.list = list /\ IsPage(r) /\ r.state = "sent"}
        IN  /\ 1 .. page \subseteq got \cup {r.page : r \in coming}
            /\ tmdbPagePending => coming # {}

\* "Next row is only partially loaded.  Release the key gate so navigation stays responsive;
\* the in-flight TMDB page fetch completes the row" (Main.js:2077): where DOWN does not
\* scroll to a row there are titles for, a page is on its way, or DOWN asks for it.
PartialRowIsFetched ==
    KeysWork /\ ~skipped =>
        \A c \in selected :
            c >= W /\ Has(RowStart + W) /\ ~NextRowReady(tmdbPagePending, page) =>
                LoadsNext \/ \E r \in requests : r.list = list /\ r.type = "silent"
=============================================================================

# Verification of White Raven in TLA+

White Raven streams torrents to Samsung Smart TVs. A Go server downloads a torrent and serves the
video over HTTP while it downloads, a widget written in JavaScript runs on the television, and a
companion app (Wails) runs the server on a phone or a PC and installs the widget. This directory
holds TLA+ modules of the parts of that system in which order, concurrency and failure matter, TLC
configurations that check them on small instances, and TLAPS proofs of the invariants that matter
most. Source paths below are relative to the repository.

The repository has no tests. Everything here is translated from the code; the file and the lines a
definition stands for are in the `map` of `PROJECT.json`.

1. [The system](#1-the-system)
2. [What is hard about it](#2-what-is-hard-about-it)
3. [The modules and the code](#3-the-modules-and-the-code)
4. [What TLC checks](#4-what-tlc-checks)
5. [What is proved](#5-what-is-proved)
6. [Where code and promises disagree](#6-where-code-and-promises-disagree)
7. [What is left out](#7-what-is-left-out)
8. [Plan](#8-plan)
9. [Running it](#9-running-it)

## 1. The system

| Part | State it keeps | Operations | Talks to |
|---|---|---|---|
| Piece cache, `server/internal/torrentclient/memorystorage` | LRU list, entry map, recycle list, byte counters; the completion map, under a lock of its own | `write`, `read`, `acquire`, `evictOldest`, `deletePrefix`; `MarkComplete`, `MarkNotComplete`, `Completion`, open and close | called by many goroutines of the BitTorrent library |
| Torrent client and registry, `torrentclient.go`, `helpers.go`, `receiver.go` | `ActiveTorrents`, `receivedTorrent`, the receiver's flags (package variables without locks) | `/add`, `/delete`, `/deleteall`, start, check and stop of the receiver | HTTP handlers of the widget and of the receiver page; the library |
| Controller and HTTP server, `server/runtime/controller.go`, `httpserver.go`, `api/v0/stop.go`, `restart.go` | `quit`, `done`, the lock; `quitSignal` and the client as package variables | `Start`, `Stop`, `Wait`, `Status`, `/stop`, `/restart` | `main.go`, the companion app |
| Site sessions, `server/pkg/torrents/session` | credentials, client with its cookie jar, `authenticated`, `generation` | `Fetch`, `login`, `prepare`, `invalidate` | concurrent searches; nCore and iNSANE |
| OpenSubtitles, `server/pkg/subtitles` | token, expiry, `loginRejected` | search, download, login, invalidate | handlers of `/subtitle`; the service |
| Torrent search, `server/pkg/torrents` and the sources | the merged list of one request | search of all sources in parallel, merge, sort | the sites |
| Streaming and statistics, `fileserver.go`, `api/v0/stats.go`, `types.go` | clients per file, per-torrent statistics | serve a range, count clients, stop a download | AVPlay; the library |
| Companion services, `companion/server_service.go`, `widget_installer.go`, `platform_android.go` | `operation`, Harbrr, App Sync session, reasons of the foreground service | start and stop of the server, Harbrr and App Sync, installation | the Controller, Harbrr (library), Android |
| From list to video, `HostsMenu.js`, `MultiVideo.js`, `ResumeMenu.js` | chosen torrent, requests, timers, list of files, subtitle found | choose, add, list files, search and download a subtitle, resume or start over, leave | the server over XHR, the player page |
| Player page, `PlayerPage.js` | state of the player, buffering, resume times, `tryCount`, timers | keys, callbacks of AVPlay, save of the resume point | AVPlay, the scenes before it |
| Subtitles of a video, `PlayerPage.js`, `playback-tracks.js`, `LoadSubtitle.js`, `SubtitleMenu.js` | two request counters, the current choice, two renderers | default, choose, hide, show, download, select a track | the server, AVPlay |
| Main page, `Main.js` | the list of titles and the position in it, the grid of cards, the page asked for, timers, favourites, the list gone back to | start and reconnect, walk over posters while pages load, search, keep favourites | the server; the menus and pages over it |
| Settings, `Main.js`, `SettingsPage.js`, `DataSelect.js`, `SubtitleStyle.js` | settings in memory and stored ones | load, change, keep, drop, restore | the widget's storage; the start of the server |
| Details page, `InfoPage.js` | two rows of boxes (seasons, episodes), the season and episode marked, the torrents found | show a title, choose a season and an episode, search for torrents | the server, the main page's list, `HostsMenu` |
| Receiver page of the widget, `ReceiverPage.js`, and the page that sends, `receiverpage.go` | flags of what is received and added, long polls, timers | listen, add what was sent, play it, leave | the receiver of the server, `MultiVideo`, the player |
| Other menus, `SubtitleSearch.js`, `AudioMenu.js`, ... | a list and a cursor | choose | the scenes they are opened over |
| Browser runtime, `browser/` | AVPlay and the widget API over a `<video>` element | a second implementation of AVPlay | the widget, in development |

The usual path through it: the widget starts or finds the server and shows the first list of films;
the viewer walks over the posters, opens a title, picks a season and an episode, and has the server
search for torrents; they pick one in `HostsMenu`; the widget sends `/add`; the
server adds the torrent and waits for its metadata; `MultiVideo` offers the files if there are
several; a subtitle is searched and downloaded; `ResumeMenu` asks whether to resume; `PlayerPage`
opens the stream with AVPlay, which makes the library write pieces into the cache and read them
back; on the way out the position is saved and `/deleteall` gives the torrents up. In the companion
app the same server runs in the process of the app, can be started again and again, and is kept
alive by an Android foreground service.

## 2. What is hard about it

- **Goroutines that outlive the call that started them.** `Controller.Start` leaves `wait` and the
  serve goroutine, `StartServer` leaves a waiter, Harbrr and App Sync leave theirs. When the next
  run has begun they still act, on package variables and fields that now belong to it.
- **Shared variables without a lock.** `ActiveTorrents` and `receivedTorrent` are read and written
  by concurrent HTTP handlers between waits of up to 35 seconds.
- **Locks that are given up over a request.** The site session and OpenSubtitles log in under a
  mutex but fetch without it; a refused request is judged after others have renewed the login.
- **A cache whose contents are believed elsewhere.** The library caches the completion it was last
  told; a buffer is recycled between torrents; a piece can be evicted between its hash and its mark.
- **Callbacks against keys.** The widget's requests, timers and AVPlay callbacks come back after
  the viewer has moved on. In the player two counters tell which answer still counts; the main page
  has none, and every callback works on the list, the position and the key gate of the moment.
- **A screen that is the state.** The main page reads which card is selected, and the details page
  which season to ask for, out of the elements it has drawn; grid, labels and variables are moved
  by separate assignments, some of them 300 or 700 ms later.
- **Long polls of a page that comes and goes.** Starts, stops and checks of the receiver of this
  and of earlier openings reach the server in any order and share three flags there.
- **What is saved when.** The position to save depends on how far the start of a video has come:
  the resume point lives in three variables in turn.

The hazards at their lines, with the property that covers each, are listed in `PROJECT.json`.
Smaller ones that no property needs are noted in section 7.

## 3. The modules and the code

| Module | Code | Composition |
|---|---|---|
| `PieceCache` | `memorystorage/storage.go`, `memory.go` | alone; the library is external |
| `Controller` | what `runtime.Controller` promises its callers | abstract specification |
| `ServerLifecycle` | `controller.go`, `httpserver.go`, `stop.go`, `restart.go`, the client's start and stop | implements `Controller` (`current <- quit`) |
| `Companion` | `server_service.go`, `platform_android.go`, App Sync in `widget_installer.go` | uses the actions of `Controller` for the server |
| `TorrentRegistry` | `helpers.go`, `receiver.go`, `torrentclient.go`, `api/v0/add.go`, `delete.go`, `deleteall.go` | the requests of the server; the library is external |
| `ReceiverScene` | `ReceiverPage.js`, `receiverpage.go` | extends `TorrentRegistry` with the widget and the page that call it |
| `AuthenticatedSession` | `pkg/torrents/session/session.go` | alone; the site is external |
| `Downloads` | the attempts of a download in `pkg/subtitles/subtitles.go` | extended by `OpenSubtitles` |
| `OpenSubtitles` | the session of those downloads in `pkg/subtitles/subtitles.go` | `Downloads` and their session; the service is external |
| `PlayerSubtitles` | the subtitles in `PlayerPage.js`, `playback-tracks.js` and the menus | alone |
| `Playback` | `PlayerPage.js`: player, keys, callbacks, resume point | extended by `Viewing` |
| `Viewing` | `HostsMenu.js`, `MultiVideo.js`, `ResumeMenu.js`, their requests to the server | `Playback` and the scenes around it |
| `MainPage` | `Main.js`: lists, grid, keys, favourites | extended by `WidgetStart` |
| `WidgetStart` | `Main.js`: the way to the first list | extended by `Browsing` |
| `BoxRow` | `InfoPage.js`: how a row of boxes scrolls | extended by `Details` and `Browsing` |
| `Details` | `InfoPage.js`: requests, seasons and episodes, search for torrents | part of `Browsing` |
| `Settings` | settings in `Main.js`, `SettingsPage.js`, `DataSelect.js`, `SubtitleStyle.js` | part of `Browsing` |
| `Browsing` | the scenes before the list of torrents, and the menus between them | `WidgetStart`, `Details`, `Settings` over one scene manager |

`MC...` modules give constants their values; `...Proofs` modules hold theorems. Operators named
`X_Something` next to an operator `X` are mutated forms of it that the properties must detect; no
next-state relation uses them.

**PieceCache.** A step is one critical section of `pieceCache.mu`, except that `acquire`'s loop and
the loop of `deletePrefix` take one step per iteration with the lock held (`mu` names the holder),
because the completion map has a lock of its own and changes in between. Buffers have an identity
and each of their blocks the piece whose bytes it holds, so that stale bytes and shared buffers can
be seen. Bytes are counted in blocks. The library writes the blocks it misses, hashes what it wrote
(good only if every byte is right), marks the piece, and keeps its own belief `have`.

**ServerLifecycle.** A run is a successful `Start`; its number stands for its channels, its
`http.Server` and its listener. The quit channel holds one value, modelled by who sent it. `Start`
and `wait` hold the Controller's lock over their steps; `/stop` and `/restart` work without it.
`ServeStarts` is its own step because `Server.Close` only closes a listener `Serve` has registered,
and because the goroutine takes the server from the package variable `httpServer` when it is
scheduled: `server[r]` is that of a later `Start` that failed, number 0, if there was one.
`StopTorrentClient` is three steps of whoever calls it (`StopLoads`, `ClosesClient`,
`ClientStopped`), since `wait` and `/restart` may be in it together.

**Companion.** `operation` is the busy flag of `ServerService` and also where its holder is. The
server is `Controller` through `INSTANCE`, so what the refinement check establishes for the code is
what this module relies on.

**TorrentRegistry and ReceiverScene.** Every access to one of the two package variables is a step
of the request it belongs to. The library finds a torrent by hash, makes one otherwise, and closes
it for good on `Drop`. `ReceiverScene` is the widget's receiver at work on that server: each call
of `/receiver/start`, `/stop` and `/check` is a message of its own that arrives in any order with
the others (`starts`, `stops`, `sleeping`, `due` count those under way), a page may send a magnet
link or a file whenever the receiver is on, and the scene's `/add` is one of the requests of
`TorrentRegistry`. A file is added by its display name (a URI of kind `"name"`), for which the
server takes the file it has kept: this is where the two sides have to agree about `receivedTorrent`.
Times of the code are kept as an order: a check sleeps three seconds in the server before it reads,
a start takes less, and the scene's timers of four seconds outlast such calls.

**AuthenticatedSession, Downloads and OpenSubtitles.** Logins are numbered by the site, so that newer and older
ones can be told apart. The mutex is held between sending a login and its answer.

**PlayerSubtitles.** A pending answer is kept only as long as its counter is current, as the code
drops all others; `choice` records what the viewer asked for last. The browser's player has a
queue and a counter of its own: `switching` is the switch it is about to make, which it makes even
when the widget has moved on without telling it.

**Playback and Viewing.** `Playback` has the player's variables under the code's names, AVPlay as
four variables, one action per key and per callback. `Viewing` adds the scenes before it, the
requests in flight (`adding`, `chains`, `deletions`) and the server's set of torrents. Positions
are counted in steps of more than a second, so that the jump to the resume point, which the code
makes after the first second, is due at position 1. A scene that is hidden keeps its variables, as
in the code; that is what makes a stale `playurl` or `subtitledata` possible at all. `saved` is
`resume.json`: a bounded list of points, found by the link of the torrent or by the IMDb number, so
that torrents of one film share theirs; with one file the first point of the title is taken, and
with it its index.

**MainPage.** A title stands for its poster, as the code drops repeated posters. The grid has three
rows of `W` cards of which two are shown; `cards` is what each shows, `selected` the cards of class
`mc_selected`, and a key that scrolls fills the third row, starts the timer, and the timer rotates
rows, ids and position (`GridRotates`), as the code does. A request carries the list it was asked
for only as an auxiliary: the code takes an answer into whatever list is shown, and so does the
model. `mccount` of the code is the length of `wrapData`. A search asks for films and shows one
after the other and shows two made-up titles when it finds no show; its message that nothing was
found is therefore never reached. `UpdatePosterAndBackdropPath` looks for the poster one level too
high in the answer and changes nothing (`Main.js:1097`); it is left out.

**WidgetStart.** One chain of callbacks and timers from the start of the server to the request for
the first list; `start` is where the chain is. A start in a browser is the same chain from `asking
own` on.

**BoxRow, Details.** The row of boxes is a record of labels, as the page has them: moving the
position swaps labels for arrows at the ends, and the season and episode asked for are read back
out of the labels. A season without episodes makes the handler fail halfway (`EpisodesAnswered`,
`fetch = "dead"`), and the 25 s timer is what is left.

**Settings, Browsing.** `saveSettings` and `localData` are the two copies of the settings; the keys
are taken in two groups by who changes them. `Browsing` puts the scenes together: which has the
focus, which keys it takes, and the callbacks of the others that go on meanwhile. EXIT ends the
widget in every scene and is not followed; the initial states range over what a session leaves
stored, of this or another version.

## 4. What TLC checks

| Run | Instance | Distinct states | What it shows |
|---|---|---|---|
| `piece_cache` | capacity 3 blocks; a torrent with pieces of 2 and 1 blocks, one with a piece of 3; 3 buffers | 285,176 | no buffer has two owners, counters are exact, the budget holds, only verified bytes are served, a completion mark is lost to an eviction in one way only, a playing torrent keeps its buffers, `acquire` ends |
| `server_lifecycle` | 2 runs, a caller of `Stop` and either a `/stop` or `/restart`s one after the other | 59,656 | `Stop` returns, a dead listener ends the run, the port and the client are given up, and callers see a `Controller` |
| `companion` | each service once; server and Harbrr twice; App Sync three times with two callers that stop it | 461,250 | the notification names a reason of the foreground service, a service that has ended is none, no Harbrr instance or session is forgotten |
| `torrent_registry` | one delete and: 3 adds one after the other; 3 by two callers; the receiver's scene opened once with 2 adds, or twice with 1, next to adds of the rest of the widget | 466,553 | `/add` answers with its own torrent and returns; what is open is registered or awaited; the receiver listens while its scene is open and can be left; with the exceptions below |
| `authenticated_session` | 2 callers, 2 accounts, 3 fetches | 167,407 | pages come from the caller's account, two attempts are enough, a new login survives late answers |
| `opensubtitles` | 1 and 2 handlers, 4 downloads | 128,971 | the second attempt has a newer token |
| `player_subtitles` | 2 embedded tracks, 2 files, television and browser | 9,224 | the last choice is what is shown, on a television by one renderer |
| `viewing` | a torrent without videos, a film and a series of two files with one IMDb number, a film without; videos of 2 steps, 2 resume points | 297,112 | torrents are given up, the resume point survives, the subtitle is the video's, nobody waits for ever |
| `browsing` | rows of 2 cards; a list of films of 3 pages (a repeated poster, a page that fills a row), one of shows, 3 searches, one favourite; shows with rows longer than shown and with a gap; the first list and one more, one details page, one visit to the settings | 530,254 | cards, position and selection agree and no page whose answer does not come is skipped, with the exceptions below; the rows of boxes are well drawn, the page asks for what has been aired and lists what it asked for, settings are kept, no loading screen stays |
| `companion_keep_alive`, `opensubtitles_rejected`, `main_search_row` | as above, smaller | | counterexamples, section 6 |

**Bounds and why they are enough.**
`PieceCache` is unbounded in the number of operations; the instance has the three cases of
`acquire` (reuse, allocate, evict until one fits), a short last piece, and a piece as long as the
cache. `MaxRuns = 2` is the least with a goroutine of an earlier run next to a later one, which is
where that code can fail. App Sync needs three sessions: one whose goroutine fails, one that is
published meanwhile, one that is started by the user again. Three `/add` requests are needed for a
torrent that is dropped, one that replaces it, and one that finds either; two of them at a time for
the sharing of `receivedTorrent`. The receiver's scene needs two openings for the calls of the
first to reach the server in the second, and two adds for a torrent that is received after one was
played or given up. Two torrents are needed there to take one for the other; with two, the rest of
the widget adds only when no call of the receiver is under way, with one at any time (`late`).
Three fetches by two callers suffice for one that is
refused with an old login while another renews it and a third replaces the account. In `Viewing`
two choices are the least with a torrent, subtitle or deletion left over from the first;
`MaxDeletions` bounds the deletions pending when the list of files is left, of which there is no
more than one per choice. `Duration = 2` has a start, a position after the jump and an end.
`MaxSaved = 2` (50 in the code) has a point that a third drops.
`Workloads` are sets of sizes: a behaviour draws one member in its initial state and keeps it, so
that a run covers several small combinations of actors instead of their product. They restrict how
much happens, never in which order.

In `Browsing`, rows of 2 cards (5 in the code) with lists of 6 and 4 titles have a row that is full,
one that is partly filled, one that is filled by the next page, and a position on either card; of
the searches, `both` fills the second row with its shows, `many` has films enough for half of a
third row, which can scroll in before the shows are answered, and `neither` finds nothing;
`MaxLists` counts the lists opened, the first included, and two are the least with an answer that
belongs to the list before and a list gone back to. `Liked` is what may become a favourite (a list
of one, whose removal empties it), `Opened` which pages are opened: the rows of `long` scroll at
both ends, `gapped` has the season that fails, `d2` is a made-up title. `tour` draws in the initial
state whether the user walks over lists or visits the settings; a page is opened from either
(`MaxPages`, `MaxSettings`, one each), after which the lists are not walked over again.

`MaxChains = 1` leaves out that two files are prepared at a time, which the code allows (a hazard
in `PROJECT.json`): with `MaxChains = 2` the player can be started over a running video, and the
properties of `Viewing` except `NeverStuck` are about behaviours in which that did not happen
(`~hasty`); the theorems show for any number of chains that nothing else disturbs them.

**Scope stated in the properties.** Some properties hold only under a condition that is part of
them, because the code does not give more; auxiliary variables record that the condition has failed,
and no guard of the model depends on them, except `KeysWork` below and `OpenPage` of `Browsing`: a
search that outlives its page is not followed into the page opened next, nor the last 200 ms of a
film's page. With `MaxPages = 1` the run reaches no such state; the theorems allow any number of pages,
and say nothing of what follows if one is opened then.

- `NoOrphanTorrent`, `ActiveIsLive` and `AnswersRequest` are about one `/add` and one deletion at a
  time, of the widget's receiver too (`Alone`); with two of either the code's races show (of two
  deletions of one hash the second can remove from the map a torrent that was added after the
  first). A check that answers with what was received before its scene was opened again
  (`outdated`) leaves two adds under way, and a file that a page sends during an `/add`, to a
  receiver that was left on (`meddled`), is taken by that one. `AnswersRequest` also excepts the
  `/add` of a URL that finds a file which a page has sent and nobody has added (`foreign`). A stop
  that a start sent later overtakes (`overtaken`) ends `ListensWhileOpen`.
- `AddReturns` excepts the download of a torrent file, which has no timeout, and two errors that
  nothing catches and that leave the receiver's scene waiting (`stuck`): a name that `btoa` cannot
  encode, and a torrent without a video before any with one.
- `NoOrphanClient` is about `/restart`s that overlap neither each other nor the start or end of a
  run (`raced`). If one does, a client can stay open that no variable refers to: `wait` clears the
  variable after the `/restart` has put a new client there.
- `ForegroundHasReason` excepts a session of App Sync that `StopAppSync` took out of the field
  before `StartAppSync` made it a reason (`late`), until the next `StopAppSync`.
- `PortIsFree` excepts the listener of a run that was stopped before its goroutine was scheduled.
- `EndsOnlyWhenAsked` is about the first run of a process: the second can be ended by the serve
  goroutine of the first.
- `ChoiceHonoured` and `OneRenderer` exclude a choice made before the default was selected, which
  the default overrides (`early`, a hazard at `PlayerPage.js:2003`). `ChoiceHonoured` also excludes,
  in the browser, a choice of the track the widget takes for current while its player reads another
  or is about to (`mistaken`, a hazard at `playback-tracks.js:188`): the player is not told, and the
  other track is shown. `OneRenderer` is about televisions: in the browser an answer that only the
  tracks accept leaves both renderers active.
- `ResumePointKept` and `NeverStuck` exclude torrents without a video. `ResumePointKept` lets the
  point change that a torrent of the same IMDb number has for its file of the same index, whose own
  it is, too, and the oldest of a full list go.
- `SubtitleFitsVideo`, `TorrentReleased` and `ResumePointKept` end with a file chosen while another
  was prepared (`hasty`).
- `CursorShowsPosition`, `PagesInOrder`: a callback of another list that has changed this one
  (`late`), a grid shown again under the user (`regrid`), a page that was answered with nothing or
  failed before its timer (`skipped`). Titles are lost or the position no longer fits the cards
  then. `CursorShowsPosition` also excepts a list whose last row grows after it has scrolled in
  (`undrawn`), which the second half of a search can do: `Main.js:1450` draws cards for the first
  two rows only, so nothing shows the titles added, and RIGHT selects a card that is not visible.
  Since no property says anything of a screen in one of these states but `skipped`, the keys
  pressed on it are not followed (`InStep` and `undrawn` in `KeysWork`; callbacks and timers are).
- `WaitEnds`: a search whose second half has had no answer and whose first found nothing (`lost`)
  shows the loading screen for good.
- `PageFitsList`, `SettingsKept`: a details page left during its search (`raced`), whose answer
  takes the focus from any scene; for the title of the first, a main page that is not `InStep` (an
  answer for another list moves other titles to the position; a grid shown again opens the keys in
  the middle of a scroll, which moves the position afterwards); for the style and what the program
  goes by in the second, a session that has run on the defaults in spite of stored settings, after
  an upgrade (`defaulted`). What was chosen on the settings page stays stored in those, too.

**Fairness.** `PieceCache`: whoever holds the lock goes on (Go schedules every runnable goroutine).
`ServerLifecycle`: every goroutine that can go on does, and callers inside `Stop` or `/restart`
return to it; nobody has to start or stop anything, and no listener has to fail or stay.
`ReceiverScene`: a request that has begun goes on, with the timeout of the wait among its steps,
except that the download of a torrent file need never end;
calls that were sent arrive, checks are answered, and timers fire; peers need never deliver
metadata, and the `/add` of the scene may be lost. `Browsing`: timers fire and the settings are
loaded, since JavaScript runs every timer that is due; nobody has to answer a request or to press
a key. `Viewing`: the server handles a request, the widget sees the
answer or its own timer (40 s for `/add`, timers for search and download), and the timer that hides
the page fires; nothing is promised of AVPlay or of the viewer. `Controller` promises that `done`
is closed at last, which the refinement check verifies from the fairness of `wait`. The other
modules have safety properties only.

**Deadlock** is checked where the system never stops (`piece_cache`, `player_subtitles`); the other
runs are bounded by counts of runs, requests or choices, or end when the widget is left, and stop
when these are used up.

**Types.** A `TypeOK` describes the variables of its module. It is a conjunct of the inductive
invariant of every module that section 5 is about; the runs check properties that say more.

## 5. What is proved

All theorems hold for every value of the constants that satisfies the modules' assumptions: any
number of callers, requests, runs, torrents and pieces, in any order. Each invariance proof has the
same layout: an inductive invariant `IInv` in named conjuncts, a lemma per action, `InitInv` and
`StepInv`, the theorem `Invariance`, and the properties as its consequences. Before it was proved,
each `IInv` was checked as an invariant of the module's run. Frame lemmas (`...Frame`) say what a
step preserves that leaves the variables of a conjunct alone.

| Module | Theorem | Property of a run |
|---|---|---|
| `PieceCacheProofs` | `RecencyCorrect`, `BufferExclusive`, `CapacityRespected`, `ServedBytesRight` | `LruMatchesEntries`, `NoSharedBuffer`, `WithinCapacity`, `ServedIsVerified` |
| | `CountersExact` | `AccountingExact` |
| | `NoMarkLeftBehind`, `WarmCacheKeepsBuffers` | `OnlyLateMarkLosesPiece`, `PlaybackKeepsBuffers` (of steps) |
| `ServerLifecycleProofs` | `PortIsFreeForStart`, `ClientEndsWithRun`, `FirstRunEndsForReason` | `PortIsFree`, `NoOrphanClient`, `EndsOnlyWhenAsked` |
| | `ImplementsController` | the safety part of `ControllerPromise` |
| `CompanionProofs` | `NoReasonWithoutService`, `NothingRunsForgotten` | `ForegroundHasReason`, `InstancesTracked` |
| `ReceiverSceneProofs` | `RegisteredIsOpen`, `OpenIsOwned`, `PlaysWhatWasSent`, `OpenSceneListens` | `ActiveIsLive`, `NoOrphanTorrent`, `AnswersRequest`, `ListensWhileOpen` |
| `SessionProofs` | `PagesFromOwnAccount`, `TwoAttemptsAreEnough`, `NewLoginIsKept` | `OwnAccount`, `RefusedWithNewLogin`, `FreshLoginKept` |
| | `RetriesAreNotInVain` | `RetryHasNewToken` |
| | `OneLoginAtATime` | - |
| `PlayerSubtitlesProofs` | `LastChoiceWins`, `RenderersExclude` | `ChoiceHonoured`, `OneRenderer` |
| `ViewingProofs` | `SubtitleOfVideo`, `NothingLeftDownloading` | `SubtitleFitsVideo`, `TorrentReleased` |
| | `PositionKept` | `ResumePointKept` (of steps) |
| `BrowsingProofs` | `RowsStayDrawn`, `OnlyAiredIsSearched`, `SettingsStayKept`, `PageStaysInPlace` | `RowsDrawn`, `AsksForAired`, `SettingsKept`, `PageFitsList` |

**`PieceCacheProofs`** - `TypeCorrect`, `RecencyCorrect`, `BufferExclusive`, `CapacityRespected`,
`ServedBytesRight`, `CountersExact`, `NoMarkLeftBehind`, `WarmCacheKeepsBuffers`, for any number of torrents, pieces, buffers and any capacity of at least one
piece (`ConstantsAssumption`: the code refuses less than 64 MB and drops torrents whose pieces are
longer than a sixth of the memory). None of the properties is inductive. The invariant `IInv` adds:

- `WriterOK`: the writer inside `acquire` adds a piece that is absent, not hashed and not believed
  complete. Without it, `acquire` could overwrite a buffer the piece already had.
- `DeleterOK`: the holder of a deletion names a torrent.
- `HadIsVerified`, `HashedIsVerified`, `CompleteIsHad`: what the library believes, what it has just
  hashed, and what the map says each imply the right bytes. They depend on each other in a circle
  (a good hash becomes a mark, a mark becomes a belief, a belief stops writes), so they are proved
  together.
- `NoSharedBuffer` keeps a write to one piece away from all others, and `LruMatchesEntries` types
  the buffer that an eviction frees.

The list operations rest on lemmas about removing an element of a list of distinct elements and
putting one in front (`RemovalRemoves`, `PushFrontAdds`, `MoveToFrontPermutes`).

`NoMarkLeftBehind` is about steps: a piece comes to be called complete without being there only by
a mark that follows its eviction, and no eviction or deletion leaves a mark behind. It needs one
more invariant, `ClosedOK`: the
storage of a torrent whose buffers are being deleted is closing, and a torrent that is not open has
no piece marked or hashed. Without it, `deletePrefix` could take the buffer of a marked piece. It is
kept apart from `IInv`, on which it rests.

`CountersExact` compares `used` and `recycledLen` with the blocks of the buffers they stand for. A sum
over a set would need induction over the set; the property counts blocks instead (`BlocksOf`, a set
of pairs of a buffer and a block), so that what a step adds or takes away is the cardinality of a
disjoint set (`CountJoins`, `CountLeaves`). Its invariant `CountedOK` adds that the sets are finite and
the buffers of the two lists distinct. `WarmCacheKeepsBuffers` is what
the comment on `pieceCache` claims of a cache that has warmed up. Only one branch of `acquire` and a deletion
shrink what is retained (`OnlyDropShrinks`), and that branch is only taken for a piece longer than
some piece of another torrent (`DropIsForOther`): nothing is resident then, and every buffer left was
made for a shorter piece. By `SizedOK` the torrent's own short piece, if it is the shortest of all, has one such
buffer at most, beside which the piece fits. It rests on `TorrentAssumption`: the pieces of a torrent
have one length, but the last, which may be shorter; the two fit into the capacity together.

**`ServerLifecycleProofs`** - none of the three invariants is inductive, since the Controller, its
goroutines and the callers each see one channel of the run. What links them:

- `ControllerOK`: the fields of the Controller are those of the last run, and the lock is held over a
  start only while nothing runs.
- `RunOK`, `ListenerOK`: the waiter of a run is at work exactly as long as its channel is the
  Controller's, stops it under the lock, and is the one that closes its server; a listener is
  served with the server of its run or with server 0, and as long as it holds the port no later
  `Start` succeeds, so that it never gets the server of a later run.
- `StopsOK`, `ClientOK`: who is inside `StopTorrentClient`, and, as long as no `/restart` overlaps
  anything, that the client that is open is the one in the package variable, closed when `Close`
  has returned and never open where one is started.
- `ChannelsOK`, `FirstRunOK`: nobody holds the channel of a run that has not started, so in the
  first run the serve goroutine can only send to its own, and only about a listener that is closed
  or has failed.

`ImplementsController` maps `quit` to the abstract `current`: initial states map to initial states,
`StartHttp` to `StartRun`, the steps of `wait` to the ends of the abstract run, and every other
step to a stutter. The fairness that `Controller` promises stays with TLC.

**`CompanionProofs`** - `IInv` has a conjunct for each service. `ServerOK`, `HarbrrOK`: a reason of
the foreground service is held only while somebody is left to give it up, the call that stops the
service or a goroutine of one of its runs. `SessionOK`: a session of App Sync that listens is the
published one or is about to be shut down, one whose `Serve` failed does not listen, and one not
published has nothing. `ForegroundOK`: the notification shows one of the reasons. `SyncReasonOK` is proved on top of it: App Sync is a reason while a
session is published or somebody is left to give the reason up, or it became one too late. A service's
conjunct is a frame for the steps of the two others (`ServerFrame`, `HarbrrFrame`, `SyncFrame`).

**`ReceiverSceneProofs`** - about the registry and the scene together, as the two have to agree
about what the server keeps. In every behaviour:

- `CountOK`: torrents are made in order, and there is a number left for each `/add` under way.
- `LibraryOK`, `RequestsOK`: a torrent is registered and found under its own hash; what a request
  has at each of its stages.

With one `/add` and one deletion at a time (`Alone`), `Registry`:

- `RequestFits`, `RequestAlone`: the request works on what its URI names whatever the server has
  kept, unless it took a file that was sent before, and the file kept is then the one it works on;
  nobody else registers that hash or drops the torrent it waits for.
- `RemoverAlone`: what is being removed is dropped and stays registered until then.
- `FileHasOwner`: a file is kept by the server because a page sent it or an `/add` brought it.
- `Live`, `Owned`: a registered torrent is open or being removed; an open one is registered or an
  `/add` has it.

Of the scene, `ScreenOK` relates its flags to the focus, `CallsOK` says that a scene that listens
has a call under way, a receiver that is on or an answer waiting (this is `ListensWhileOpen` made
inductive), `ReceiverOK` that the receiver keeps one thing, `ServedOK` that the scene waits for its
`/add` unless it is hidden, and `FileOK` that a file announced or about to be announced is the one the server has kept:
the link from the page that sends to the `/add` that names the file.

`Registry` is not inductive with two deletions at a time, for the reason section 4 gives.

**`SessionProofs`** is about the two sessions that share no state; it extends `AuthenticatedSession` and
`Downloads`, and takes `OpenSubtitles` by `INSTANCE`, with the variables renamed that have a name in the
other session.

`SessionTypeCorrect`, `PagesFromOwnAccount`, `TwoAttemptsAreEnough`, `NewLoginIsKept`, for any callers,
accounts and number of fetches. The invariant `IInv` relates each call to the session:

- `SessionOK`: a session that counts as authenticated has a login of its own credentials in its
  last jar, and a session with credentials has a client.
- `LockOK`: the mutex is held by exactly the call whose login is out, and the session is that
  call's, without a login, until the answer.
- `RequestOK`: a request goes out with a login of its account, and with the session's own client
  only if the session is still for that account. The last part is what keeps a login that replaces
  another from changing the account of a request already under way: another account gets another
  jar.
- `GenerationOK`: generations only grow, and a call that holds the current one uses the current
  login. This is why `invalidate` with the session's generation hits the login that was refused.
- `RenewalOK`: a call that is about to try again finds no login older than itself.

`RetriesAreNotInVain`, for any handlers and whatever the service does to tokens; what `OpenSubtitles`
assumes of its constants is a hypothesis there. The invariant is `DownloadInv`. `TokensAreOld` bounds
the tokens in use by the logins so far, which makes every renewal a newer token; `RetryOK` then says what a handler finds whose first attempt was refused: no token, or
one newer than the refused. `TokenLockOK` (the mutex is held by the handler whose login is out) also
gives `OneLoginAtATime`.

**`PlayerSubtitlesProofs`** - `LastChoiceWins`, `RenderersExclude`, for any tracks and files, on a
television and in the browser, with the two exceptions of the property. `ChoiceOK` splits the choice by what it is (`TrackChosen`,
`FileChosen`, `HiddenChosen`): it is shown, or the request for it is pending and no other pending
answer would count; in the browser its player reads that track and is not about to leave it.
`EngineOK` ties a pending selection to the switch the player is about to make. `DownloadOK` says that a download that still counts is the choice, `NativeOK`
that a television answers a selection at once, without which a track could be on its way while a
file is shown there, and `DefaultOK` that nothing comes before the default was selected. The last
is where a choice made early is excluded: without `early` the conjunct is false.

**`ViewingProofs`** - `TypeCorrect`, `SubtitleOfVideo`, `NothingLeftDownloading`, `PositionKept`, for any
list of torrents with any number of files, any resume points, a video of any length, and any number of
choices, searches and deletions. Types come first (`TypeInv`), with what they need of the scenes: a torrent whose
files are listed has several, and a page or menu knows the scene it returns to (`CallerKnown`). `Inv`
then holds as long as no file is chosen while another is prepared, and until the widget is left
(`Safe`). A choice made too early falsifies it: `hasty` in the properties is needed. Its conjuncts:

- `PageOK`: the page is shown exactly while it or one of its menus has the focus, and only then AVPlay
  runs or an error waits for its timer. The scenes before it never act on a running video.
- `ChainsOK`, `AddingOK`: there is one search for a subtitle at a time, for the video that is to be
  played, and like the `/add` before it only while a scene waits whose keys are blocked.
- `SubtitleOK`: a subtitle that was loaded is that of the video prepared, asked about or shown.
- `ReleaseOK`: a torrent the server has is used by one of the scenes (`InUse`), or a deletion is out.
- `ResumeOK`: until the video is shown, the position lies unchanged in `savedresumetime`, or in
  `resume` while the menu asks; `resumetime` is of a video that has been shown.
- `KeyOK`: the key under which the position is saved is the video's, from the list to the page; with
  one file only the torrent is, as the index is that of the point found (`Fits`). It
  needs that a list of files is only ever left for the files of the same torrent.

What is stored is followed by `SavesPoint`: a position that is saved is found again under its key, and
the point of no other key changes, unless it is the oldest of a full list. It goes through the list as
`SaveResumeToLocal` does, by cases: overwritten in place (`OverwritesPoint`), or appended, with the rest
shifted by one when the oldest is dropped (`AppendsPoint`). `FoundPoint` is the other half: what
`GetResumeTime` finds first, with its index taken over, is what its new key would find.

One lemma says what each of `PlayMovieUrl`, `Prepare` and `Show` leads to (`PlayKeeps`, `PrepareKeeps`,
`ShowKeeps`), and is used for every way there: an answer to `/add`, a chosen file, the end of a search, the
resume menu.

**`BrowsingProofs`** - `RowsStayDrawn`, `OnlyAiredIsSearched`, `SettingsStayKept`, `PageStaysInPlace`,
for any lists, shows and listings, rows of cards and of boxes of any width, and any number of pages and of visits to the
settings. `RowsDrawn` is not inductive: it does not say for which boxes there are labels, or that there
is a box at all. `RowOK` says that a row is `RowOf(n, f, a, M)`, where the number of boxes, the first
shown and the chosen one determine everything else, and `Inside`, that the chosen box is shown and
never one that carries an arrow. Each move is then a lemma: from such a row it leads to one (`NewRowOK`,
`MovedRightOK`, `MovedLeftOK`, with scrolling and wrapping at both ends).

`AsksForAired` relates the labels to what the server has listed. `AscendingLists` (a finite set of
numbers has the one of each rank), `ListingFinite`, `SeasonsBoxed`, `EpisodesBoxed` and
`LastSeasonBoxed` are about the listing: every season that has a box has begun, has at least one
episode in a box, and its entry 0 has been aired; the season the page opens with is that of the last
box, unless it has no episode. `Boxes` ties the page to it: the rows are those of the title shown
(`SeasonBoxes`), the episodes those of the season chosen (`EpisodeBoxes`), and the class of the chosen
box follows the row the user is in. `Completing` keeps all this from changing under the user: while
the page waits for a part of itself it takes no keys, nothing is searched for, and it stays in view.

`SettingsInv` is about two phases. `Unread`: what an earlier session has left, of this version or
another, before `LoadSettings`. `Read`: both copies have this version, the stored one holds what the
user wants, and they agree but for a choice on the settings page that is not yet kept. It needs of the
details page that only a search that outlived its page (`raced`) takes the focus from another scene.
A session that runs on the defaults after an upgrade (`defaulted`) may differ in the style and in
what is in memory; the theorem says of it that the rest of the settings stays stored.

`PageFitsList` is about two scenes that share `wrapData` and `position` without a word between them,
and its invariant `WholeInv` is about all four parts. `Gate`: of what can open the main page's key gate
or move the position from outside (the scroll of the grid, the timer of a favourite, the way to the
first list) at most one is out, and none while keys are taken, a menu is open or a page is shown; so
whoever opens a page leaves a main page behind that can only grow. `KeptGoesOn` is why it may grow: a
page of titles that arrives late is appended and moves none. `Starting`: while the widget looks for its
server, or has given up, there are no requests, cards or searches, and the main page has the focus;
so a start never comes between. `Searching`: there is one search at a time, for what is marked
(`Asked`), during which no list of torrents is left from before, and nothing changes what is marked
until it has ended. `InPlace` is the property itself.

What it says of the title holds as long as `InStep`, as the property says: a callback of another list
that changes this one (`late`), or a grid shown again under the user (`regrid`), ends what is claimed.
So "late" pages are those of the list shown.

**Assumptions.** `None` is no torrent, hash, URI, caller or file; bounds are natural numbers, of a
least size where there has to be one; a workload's members are of the sets it draws from; the scene
of a workload is one of its adders, or none; lists and searches are told apart and hold titles
(`ListsAssumption`). They are named where the constants are declared, and
every run evaluates them. None of them bounds the size of a behaviour from above: the bounds that
the actions' guards carry may be as large as one likes.

**Checked by TLC only.** Liveness (`LockIsReleased`, `StopTerminates`, `DeadListenerEndsRun`,
`AddReturns`, `NeverStuck`, `WaitEnds`, `NeverTrapped`) and the fairness part of `ControllerPromise`,
for which the installed provers have no rule. Of the safety properties, `CursorShowsPosition` and
`PagesInOrder` of `MainPage`.

## 6. Where code and promises disagree

Each of these is a run of its own whose counterexample TLC finds.

- **The running server can lose its foreground service** (`companion_keep_alive`,
  `companion/server_service.go:129`). The goroutine of an ended run deletes the reason `"server"`
  after the next run has taken it. The service exists to keep the process alive while the app is in
  the background (`WailsForegroundService.java`).
- **Rejected credentials are sent again** (`opensubtitles_rejected`, `subtitles.go:399`).
  Invalidating resets `loginRejected` whatever token it was called for.
- **The last row of a search cannot be reached** (`main_search_row`, `Main.js:1593`).
  `LoadNextTmdbPage` returns at once for a search, while the keys wait for the page that completes
  a row; the comment at `Main.js:2077` says that a request in flight completes it.

Two more behaviours that no doc or comment rules out are hazards in `PROJECT.json`, and the
properties say where they do not reach: `/add` keeps the metainfo it downloads itself in the
variable of the receiver until it returns, and another `/add` with a URL in that time adds the
wrong torrent (`helpers.go:30`); a choice made while the jump to the resume point buffers does not
count, since the request number the default subtitle compares with is read when it is queued
(`PlayerPage.js:2003`).

## 7. What is left out

*In modelled parts.* Status counters nothing reads back (cache); how a site's page is parsed; the
steps of an installation over SSH; the search for subtitles and the conversion of their text; the
bar, volume, 3D, statistics, audio tracks and the poll of the download's progress (`CheckDownload`)
in the player; resume points of other films and episodes, which only take room in the list; how lists are filtered and scrolled and how the
longest video of a torrent is picked by name. `Viewing` takes the server to decide on an `/add`
within the widget's 40 s, as it does for a magnet link (35 s); the download of a torrent file has
no timeout in the code.

In the receiver's scene: the subtitle searched before a video starts (as in `Viewing`); several
pages that send at a time; names that the answer's JSON cannot take. The server is taken to decide
on the scene's `/add` within its 40 s. On the main page: labels, pictures, the
cursors of the menus and of the keyboard; of the start, the addresses looked at. On the details
page: texts, and the widths of the labels from which the code derives how many boxes a row shows.

*Parts not modelled*: torrent search, streaming and statistics, subtitle search page, browser
runtime, widget installer and updater, the front end's delayed save; see the plan. *Parts not worth
modelling*: media information and other stateless handlers, menus without requests, boot code,
build tools.

*Flaws of the code that a property names as its exception.* A run that is stopped before its
goroutine was scheduled keeps the port; a `Start` that fails on it has replaced `httpServer`, and
the goroutine then serves the old listener with a server that nothing closes, while `Status` says
that nothing runs (`httpserver.go:24`, `:45`; `PortIsFree`). A `/restart` during the end of a run or
beside another one leaves a torrent client open that no variable refers to
(`torrentclient.go:176`; `NoOrphanClient`). An App Sync session that is stopped between being
published and becoming a reason keeps the app in the foreground (`widget_installer.go:270`;
`ForegroundHasReason`). Stopping the receiver keeps a torrent file that was sent and not added, and
the next `/add` of a URL adds that one (`receiver.go:50`, `helpers.go:30`; `AnswersRequest`). A
torrent without a video, or a name that `btoa` cannot encode, leaves the receiver's scene in a state
in which RETURN does nothing, and a server that never ends sending a torrent file keeps its `/add`
for ever (`ReceiverPage.js:130`, `:259`, `helpers.go:123`; `AddReturns`). The shows of a search that
arrive after its partial third row has scrolled in are never drawn (`Main.js:1450`;
`CursorShowsPosition`).

*Noticed in the code, too small for a property or outside the models:*
a video paused while it buffers is resumed on a television when the buffering ends
(`PlayerPage.js:713`); a jump that AVPlay refuses leaves it paused (`:521`); the hub's exit saves
an early position (`Main.js:1959`); the 4 s timers of the page are never cancelled
(`PlayerPage.js:167`) and `CheckDownload` can poll twice at a time (`:2047`); `onGetAVPlayError` uses an undeclared
name (`PlayerPage.js:278`); `ActiveTorrents` is a plain map, which the Go runtime may detect as
concurrently written; the timeout handler of `SubtitleSearch.js` uses an unbound `this`; the
index of a path that no file has is -1 and used as one (`api/v0/subtitles.go:128`); `receiverpage.go:39` shares one
`webSocket` variable between pages; the size
taken over from a duplicate is written to the loop's copy and lost (`torrents.go:66`).

## 8. Plan

Done: the modules above, their runs, and the proofs about `PieceCache`, `ServerLifecycle` (and that
it implements `Controller`), `Companion`, `TorrentRegistry` with `ReceiverScene`,
`AuthenticatedSession`, `OpenSubtitles`, `PlayerSubtitles`, `Playback` with `Viewing`, and `Browsing` with
`Details` and `Settings`.

Next in the model, each as a workload of the run it joins where it shares state with one:

1. Torrent search: parallel sources, merge by two keys with removal of duplicates, sort; the
   reference definition is the result for one order of arrival.
2. Streaming: clients per file, the end of a download, statistics after a delete.
3. `SubtitleSearch` in `PlayerSubtitles`; `CheckDownload` and audio tracks in `Playback`.
4. `AVPlay` as a contract: what `Playback` assumes of it as a module, with `browser/player.js`
   (promises over a video element) shown to implement it.
5. Installer: steps and failures of an installation, next to App Sync in `Companion`; the delayed
   save of settings in `main.ts`; the ring of log lines.

Theorems to prove: `CursorShowsPosition` and `PagesInOrder` of `MainPage` for rows of any width.

## 9. Running it

    tlc -workers 2 -config MCViewing.cfg MCViewing
    tlapm PieceCacheProofs.tla

`PROJECT.json` lists the runs with their configurations, the mutated definitions with which each
property must fail, the lines every definition stands for, the hazards and the theorems.

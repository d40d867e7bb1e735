--------------------------- MODULE PlayerSubtitles ---------------------------
(***************************************************************************)
(* The subtitles of a playing video (widget/app/scenes/PlayerPage.js,      *)
(* playback-tracks.js, and the menus that call them).  Text comes from one *)
(* of two renderers: an external file the widget has parsed, driven by the *)
(* playback time, or an embedded track AVPlay delivers.  A default is      *)
(* selected by a zero-delay timer once the video plays; the viewer chooses *)
(* another, or hides it, in menus that stay usable while AVPlay buffers.   *)
(*                                                                         *)
(* Downloads and, in the browser, the selection of an embedded track are   *)
(* answered later.  Two counters tell which answer still counts:           *)
(* Player.subtitleRequest and PlaybackTracks.subtitleRequest.  Here a      *)
(* pending request is kept only as long as its counter is the current one, *)
(* as the code drops the answer of any other.  The browser's player         *)
(* (browser/player.js) queues the switches it is told to make, with a       *)
(* counter of its own, and goes on with one the widget no longer waits for. *)
(***************************************************************************)
EXTENDS Integers

CONSTANTS
  Embedded,   \* how many embedded tracks the video has, numbered from 0
  Files,      \* subtitle files of the search result
  FirstFile,  \* subtitleslist[subtitlepos], which the scenes prefetch
  Hidden,     \* the choice of no subtitle
  None

ASSUME SubtitlesAssumption ==
  /\ Embedded \in Nat
  /\ FirstFile \in Files
  /\ None # Hidden
  /\ {None, Hidden} \cap (Files \cup Int) = {} /\ Files \cap Int = {}

Indices == 0 .. Embedded - 1

VARIABLES
  browser,                  \* WHITE_RAVEN_BROWSER: selections are answered later
  shown,                    \* the page is shown
  isSuccess, isBuffering,   \* Player, as booleans
  defaultSubtitleTimer,     \* "none", "queued", or "superseded" by a later request
  defaultSubtitleSelected,
  subtitleState,            \* an external subtitle has been started
  externalSubtitleURL,
  subtitledata, issubtitle, \* globals: the parsed file, and whether one was loaded
  downloading               \* the file the current request downloads
VARIABLES
  ready,                    \* PlaybackTracks: subtitlesReady()
  subtitleIndex, subtitleActive,
  nativeSubtitleIndex,      \* the track a television plays
  selecting,                \* the track whose selection is pending, or -1
  selectingCurrent          \* ... and Player.subtitleRequest has not moved on
VARIABLES
  switching,                \* browser player: the track it is told to switch to, or -1
  engineTrack,              \* ... session.subtitleId, the track it reads
  engineVisible             \* ... session.subtitleVisible
VARIABLES
  choice,                   \* auxiliary: what the viewer asked for last
  early,                    \* auxiliary: ... before the default was selected
  mistaken                  \* auxiliary: ... and it was taken for what is shown, wrongly

playerVars == <<isSuccess, isBuffering, shown, browser>>
defaultVars == <<defaultSubtitleTimer, defaultSubtitleSelected>>
externalVars == <<subtitleState, externalSubtitleURL, subtitledata, issubtitle>>
tracksVars == <<subtitleIndex, subtitleActive, nativeSubtitleIndex>>
engineVars == <<switching, engineTrack, engineVisible>>
pendingVars == <<downloading, selecting, selectingCurrent, engineVars>>
viewerVars == <<choice, early, mistaken>>
vars == <<playerVars, defaultVars, externalVars, ready, tracksVars, pendingVars, viewerVars>>

\* What is on the screen.
ExternalShown == issubtitle /\ subtitleState = 1 /\ subtitledata # None
EmbeddedShown == subtitleActive
ShownTrack ==
  IF ~subtitleActive \/ (browser /\ ~engineVisible) THEN -1
  ELSE IF browser THEN engineTrack ELSE nativeSubtitleIndex

\* The track a browser's player reads, hidden, as soon as it has loaded the video.
Preloaded == IF browser /\ Embedded > 0 THEN {-1, 0} ELSE {-1}

\* Player.clear, and new PlaybackTracks or none.
Cleared ==
  /\ isSuccess' = FALSE
  /\ defaultSubtitleTimer' = "none"
  /\ defaultSubtitleSelected' = FALSE
  /\ subtitleState' = 0
  /\ externalSubtitleURL' = None
  /\ downloading' = None
  /\ subtitleIndex' = -1
  /\ subtitleActive' = FALSE
  /\ nativeSubtitleIndex' = IF browser THEN -1 ELSE 0
  /\ selecting' = -1
  /\ selectingCurrent' = FALSE
  /\ switching' = -1
  /\ engineTrack' \in Preloaded
  /\ engineVisible' = FALSE
  /\ choice' = None
  /\ early' = FALSE
  /\ mistaken' = FALSE

Init ==
  /\ browser \in BOOLEAN
  /\ shown = FALSE /\ isSuccess = FALSE /\ isBuffering = FALSE /\ ready = FALSE
  /\ defaultSubtitleTimer = "none" /\ defaultSubtitleSelected = FALSE
  /\ subtitleState = 0 /\ externalSubtitleURL = None
  /\ subtitledata = None /\ issubtitle = FALSE
  /\ subtitleIndex = -1 /\ subtitleActive = FALSE
  /\ nativeSubtitleIndex = IF browser THEN -1 ELSE 0
  /\ downloading = None /\ selecting = -1 /\ selectingCurrent = FALSE
  /\ switching = -1 /\ engineTrack \in Preloaded /\ engineVisible = FALSE
  /\ choice = None /\ early = FALSE /\ mistaken = FALSE

-------------------------------------------------------------------------------
(* Requests. *)

\* A request moves Player.subtitleRequest on, which supersedes a queued default.
Superseded(timer) == IF timer = "queued" THEN "superseded" ELSE timer

\* A switch the browser's player has been told to give up, or to make before another,
\* may have changed the track it reads.  (That it does so at once, and not in its turn
\* before the next switch ends, makes no difference: nothing of it is shown meanwhile.)
Overtaken == engineTrack' \in {engineTrack} \cup ({switching} \cap Indices)

\* Player.stopSubtitle: all three counters move on, the embedded text goes.  (That the
\* external text goes too, or is replaced, is up to Hide and DownloadArrives.)
StopSubtitle ==
  /\ defaultSubtitleTimer' = Superseded(defaultSubtitleTimer)
  /\ subtitleActive' = FALSE
  /\ downloading' = None
  /\ selecting' = -1
  /\ selectingCurrent' = FALSE
  /\ switching' = -1
  /\ engineVisible' = FALSE
  /\ Overtaken

\* Mutant: the external subtitle goes on.
PlayerSelected_KeepsState ==
  /\ externalSubtitleURL' = None
  /\ UNCHANGED <<subtitleState, subtitledata, issubtitle>>

\* The selection of track i has succeeded, for the tracks and for the player.
TrackSelected(i) ==
  /\ subtitleIndex' = i
  /\ nativeSubtitleIndex' = IF browser THEN -1 ELSE i
  /\ subtitleActive' = TRUE
PlayerSelected ==
  /\ externalSubtitleURL' = None
  /\ subtitleState' = 0
  /\ UNCHANGED <<subtitledata, issubtitle>>

\* PlaybackTracks.selectSubtitle: a track taken for the one that plays is shown at once,
\* and the player, whatever it is about to switch to, is not told; a television switches
\* or refuses; the browser answers later.
SelectTrack(i) ==
  \/ /\ IF browser THEN subtitleIndex = i /\ subtitleActive ELSE nativeSubtitleIndex = i
     /\ TrackSelected(i)
     /\ PlayerSelected
     /\ selecting' = -1 /\ selectingCurrent' = FALSE
     /\ UNCHANGED engineVars
  \/ /\ ~browser /\ nativeSubtitleIndex # i
     /\ \/ TrackSelected(i) /\ PlayerSelected
        \/ UNCHANGED <<tracksVars, externalVars>>
     /\ selecting' = -1 /\ selectingCurrent' = FALSE
     /\ UNCHANGED engineVars
  \/ /\ browser /\ ~(subtitleIndex = i /\ subtitleActive)
     /\ selecting' = i /\ selectingCurrent' = TRUE
     /\ switching' = i
     /\ Overtaken
     /\ UNCHANGED <<tracksVars, externalVars, engineVisible>>

\* Mutant: the player's counter does not move on, so a download still counts.
SelectEmbedded_KeepsDownload(i) ==
  /\ UNCHANGED downloading
  /\ SelectTrack(i)

\* Player.selectEmbeddedSubtitle.
SelectEmbedded(i) ==
  /\ downloading' = None
  /\ SelectTrack(i)

\* In the browser, track i is the widget's current one while the player reads another
\* or is about to.
Mistakes(i) ==
  /\ browser /\ subtitleIndex = i /\ subtitleActive
  /\ engineTrack # i \/ switching \notin {-1, i}

\* The viewer asks for c, with mistake m; a selection that has failed at once asks for
\* nothing.
Asks(c, m) ==
  /\ choice' = c
  /\ early' = (early \/ ~defaultSubtitleSelected)
  /\ mistaken' = m

-------------------------------------------------------------------------------
(* The page and AVPlay's callbacks. *)

\* handleShow: the scenes have prefetched the first file, or not.
Show ==
  /\ ~shown
  /\ shown' = TRUE
  /\ Cleared
  /\ isBuffering' = TRUE
  /\ ready' = browser
  /\ subtitledata' \in {None, FirstFile}
  /\ issubtitle' = (subtitledata' # None)
  /\ UNCHANGED browser

\* The video is stopped, by the viewer, its end or an error.
Close ==
  /\ shown
  /\ shown' = FALSE
  /\ Cleared
  /\ isBuffering' = FALSE
  /\ subtitledata' = IF issubtitle THEN None ELSE subtitledata
  /\ UNCHANGED <<browser, ready, issubtitle>>

\* selectDefaultSubtitle, given the state after the callback that calls it.
QueueDefault(buffering, tracksReady) ==
  IF ~defaultSubtitleSelected /\ defaultSubtitleTimer = "none" /\ ~buffering /\ tracksReady
  THEN defaultSubtitleTimer' = "queued"
  ELSE UNCHANGED defaultSubtitleTimer

\* A seek, the jump to the resume point on a playback tick, or a stall.
BufferingStarts ==
  /\ shown /\ ~isBuffering
  /\ isBuffering' = TRUE
  /\ ready' = browser
  /\ UNCHANGED <<browser, shown, isSuccess, defaultVars, externalVars, tracksVars, pendingVars, viewerVars>>

BufferingCompletes ==
  /\ shown /\ isBuffering
  /\ isBuffering' = FALSE
  /\ isSuccess' = TRUE
  /\ IF isSuccess THEN UNCHANGED defaultSubtitleTimer ELSE QueueDefault(FALSE, ready)
  /\ UNCHANGED <<browser, shown, defaultSubtitleSelected, externalVars, ready, tracksVars,
                 pendingVars, viewerVars>>

\* oncurrentplaytime.
PlaybackTick ==
  /\ shown /\ isSuccess /\ ~isBuffering
  /\ ready' = TRUE
  /\ QueueDefault(isBuffering, TRUE)
  /\ UNCHANGED <<playerVars, defaultSubtitleSelected, externalVars, tracksVars, pendingVars, viewerVars>>

\* The timer of selectDefaultSubtitle.
DefaultDue == isSuccess /\ ~isBuffering /\ ready /\ ~defaultSubtitleSelected
SelectDefault ==
  /\ defaultSubtitleTimer = "queued" /\ DefaultDue
  /\ defaultSubtitleTimer' = "none"
  /\ defaultSubtitleSelected' = TRUE
  /\ \/ /\ issubtitle /\ subtitledata # None
        /\ externalSubtitleURL' = FirstFile
        /\ subtitleState' = 1
        /\ UNCHANGED <<subtitledata, issubtitle, tracksVars, pendingVars>>
     \/ /\ ~(issubtitle /\ subtitledata # None)
        /\ IF Embedded > 0 THEN SelectEmbedded(0)
           ELSE UNCHANGED <<externalVars, tracksVars, pendingVars>>
  /\ UNCHANGED <<playerVars, ready, viewerVars>>

DefaultSuperseded ==
  /\ defaultSubtitleTimer = "superseded"
  /\ defaultSubtitleTimer' = "none"
  /\ defaultSubtitleSelected' = TRUE
  /\ UNCHANGED <<playerVars, externalVars, ready, tracksVars, pendingVars, viewerVars>>

DefaultNotDue ==
  /\ defaultSubtitleTimer = "queued" /\ ~DefaultDue
  /\ defaultSubtitleTimer' = "none"
  /\ UNCHANGED <<playerVars, defaultSubtitleSelected, externalVars, ready, tracksVars, pendingVars, viewerVars>>

-------------------------------------------------------------------------------
(* The viewer, in the menus LoadSubtitle and SubtitleMenu. *)

MenusUsable == shown /\ isSuccess

ChooseEmbedded(i) ==
  /\ MenusUsable
  /\ SelectEmbedded(i)
  /\ defaultSubtitleTimer' = Superseded(defaultSubtitleTimer)
  /\ Asks(IF selecting' = i \/ (subtitleActive' /\ subtitleIndex' = i) THEN i ELSE None, Mistakes(i))
  /\ UNCHANGED <<playerVars, defaultSubtitleSelected, ready>>

\* DownloadAnotherSubtitle moves only the player's counter on.
ChooseFile(f) ==
  /\ MenusUsable
  /\ downloading' = f
  /\ selectingCurrent' = FALSE
  /\ defaultSubtitleTimer' = Superseded(defaultSubtitleTimer)
  /\ Asks(f, FALSE)
  /\ UNCHANGED <<playerVars, defaultSubtitleSelected, externalVars, ready, tracksVars, selecting,
                 engineVars>>

\* The entry "hide" or "show" of SubtitleMenu, whichever fits the selection.
HasSelection == externalSubtitleURL # None \/ subtitleIndex >= 0
SelectionActive == IF subtitleIndex >= 0 THEN subtitleActive ELSE subtitleState = 1

Hide ==
  /\ MenusUsable
  /\ HasSelection /\ SelectionActive
  /\ issubtitle \/ subtitleActive
  /\ StopSubtitle
  /\ subtitleState' = 0
  /\ subtitledata' = None
  /\ Asks(Hidden, FALSE)
  /\ UNCHANGED <<playerVars, defaultSubtitleSelected, externalSubtitleURL, issubtitle, ready,
                 subtitleIndex, nativeSubtitleIndex>>

ShowAgain ==
  /\ HasSelection /\ ~SelectionActive
  /\ IF subtitleIndex >= 0 THEN ChooseEmbedded(subtitleIndex) ELSE ChooseFile(externalSubtitleURL)

\* The answer to a download, or its timeout.
DownloadArrives ==
  /\ downloading # None
  /\ StopSubtitle
  /\ subtitleIndex' = -1
  /\ externalSubtitleURL' = downloading
  /\ issubtitle' = TRUE
  /\ subtitledata' = downloading
  /\ subtitleState' = 1
  /\ UNCHANGED <<playerVars, defaultSubtitleSelected, ready, nativeSubtitleIndex, viewerVars>>

DownloadFails ==
  /\ downloading # None
  /\ downloading' = None
  /\ choice' = None
  /\ UNCHANGED <<playerVars, defaultVars, externalVars, ready, tracksVars, selecting, selectingCurrent,
                 engineVars, early, mistaken>>

\* The answer to a selection in the browser: the tracks follow it even when the
\* player has moved on.
SelectionAnswered ==
  /\ selecting # -1
  /\ TrackSelected(selecting)
  /\ IF selectingCurrent THEN PlayerSelected ELSE UNCHANGED externalVars
  /\ selecting' = -1 /\ selectingCurrent' = FALSE
  /\ switching' = -1
  /\ engineTrack' = selecting
  /\ engineVisible' = TRUE
  /\ UNCHANGED <<playerVars, defaultVars, ready, downloading, viewerVars>>

\* The switch fails before or after the player has begun to read the other track.
SelectionFails ==
  /\ selecting # -1
  /\ selecting' = -1 /\ selectingCurrent' = FALSE
  /\ switching' = -1
  /\ Overtaken
  /\ choice' = IF choice = selecting THEN None ELSE choice
  /\ UNCHANGED <<playerVars, defaultVars, externalVars, ready, tracksVars, downloading,
                 engineVisible, early, mistaken>>

\* The end of a switch the widget no longer waits for.
SwitchEnds ==
  /\ switching # -1 /\ selecting = -1
  /\ switching' = -1
  /\ \/ engineTrack' = switching /\ engineVisible' = TRUE
     \/ Overtaken /\ UNCHANGED engineVisible
  /\ UNCHANGED <<playerVars, defaultVars, externalVars, ready, tracksVars, downloading,
                 selecting, selectingCurrent, viewerVars>>

-------------------------------------------------------------------------------

Next ==
  \/ Show \/ Close \/ BufferingStarts \/ BufferingCompletes \/ PlaybackTick
  \/ SelectDefault \/ DefaultSuperseded \/ DefaultNotDue
  \/ \E i \in Indices : ChooseEmbedded(i)
  \/ \E f \in Files : ChooseFile(f)
  \/ Hide \/ ShowAgain
  \/ DownloadArrives \/ DownloadFails \/ SelectionAnswered \/ SelectionFails \/ SwitchEnds

Spec == Init /\ [][Next]_vars

-------------------------------------------------------------------------------
(* Properties. *)

\* Types of all variables.
TypeOK ==
  /\ browser \in BOOLEAN /\ shown \in BOOLEAN /\ isSuccess \in BOOLEAN /\ isBuffering \in BOOLEAN
  /\ defaultSubtitleTimer \in {"none", "queued", "superseded"} /\ defaultSubtitleSelected \in BOOLEAN
  /\ subtitleState \in {0, 1} /\ issubtitle \in BOOLEAN
  /\ externalSubtitleURL \in Files \cup {None} /\ subtitledata \in Files \cup {None}
  /\ downloading \in Files \cup {None} /\ ready \in BOOLEAN /\ subtitleActive \in BOOLEAN
  /\ subtitleIndex \in Indices \cup {-1} /\ selecting \in Indices \cup {-1}
  /\ nativeSubtitleIndex \in Indices \cup {-1, 0} /\ selectingCurrent \in BOOLEAN
  /\ switching \in Indices \cup {-1} /\ engineTrack \in Indices \cup {-1} /\ engineVisible \in BOOLEAN
  /\ choice \in Files \cup Indices \cup {None, Hidden} /\ early \in BOOLEAN /\ mistaken \in BOOLEAN

\* Once the answers have come and the player has made its switches, what the viewer
\* asked for last is what is shown, whatever was requested, queued or answered before.
\* Two cases are excepted: the viewer first asked before the default had been selected
\* (early), and, in the browser, asked for the track that was current for the widget
\* while the player read another or was about to (mistaken).
Settled == downloading = None /\ selecting = -1 /\ switching = -1
ChoiceHonoured ==
  Settled /\ ~early /\ ~mistaken =>
    /\ choice \in Indices => ShownTrack = choice /\ subtitleIndex = choice /\ ~ExternalShown
    /\ choice \in Files => ExternalShown /\ subtitledata = choice /\ ShownTrack = -1
    /\ choice = Hidden => ~ExternalShown /\ ShownTrack = -1

\* The two renderers, which write to the same element, never do so together on
\* a television, if the default had been selected when the viewer first asked.
OneRenderer == ~browser /\ ~early => ~(ExternalShown /\ EmbeddedShown)

===============================================================================

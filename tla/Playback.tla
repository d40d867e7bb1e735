------------------------------- MODULE Playback -------------------------------
(***************************************************************************)
(* The player page (widget/app/scenes/PlayerPage.js): the state it keeps   *)
(* about AVPlay, the keys, AVPlay's callbacks, and the position at which   *)
(* a video is resumed.  The scenes that show the page are in Viewing.      *)
(*                                                                         *)
(* Positions are counted in steps of more than a second, so that the jump  *)
(* to the resume point is due at position 1.  What is on the display (the  *)
(* bar, its cursor, the chevron, volume, 3D, statistics) is left out: every*)
(* button of the bar can be reached while it may be pressed.               *)
(***************************************************************************)
EXTENDS Integers, Sequences, FiniteSetsExt

CONSTANTS
  Torrents,   \* the entries of the list in HostsMenu
  VideosOf,   \* [Torrents -> how many long video files it has]
  MaxVideos,  \* bound: of VideosOf
  ImdbOf,     \* [Torrents -> the IMDb number of its film or episode, or None]
  MaxSaved,   \* how many resume points are kept: 50
  Duration,   \* of every video
  None

ASSUME PlaybackAssumption ==
  /\ Duration \in Nat \ {0}
  /\ MaxVideos \in Nat /\ MaxSaved \in Nat \ {0}
  /\ Torrents # {} /\ VideosOf \in [Torrents -> 0 .. MaxVideos]

\* A video is a torrent and 0, or one of several files of a torrent.  resumeKey,
\* which is resume['hash'] and resume['index'] plus one, has the same form.  All
\* torrents of a list are of one film or episode: resume['season'] and ['episode']
\* are the same.
Videos == UNION {{t} \X (IF VideosOf[t] > 1 THEN 1 .. VideosOf[t] ELSE {0}) : t \in Torrents}
Keys == Torrents \X (0 .. MaxVideos)
Times == 0 .. Duration
Entries == [hash : Torrents, index : 0 .. MaxVideos, time : Times]
Callers == {"HostsMenu", "MultiVideo"}
Scenes == Callers \cup {"InfoPage", "ResumeMenu", "PlayerPage", "PlayerMenu"}

VARIABLES
  browser,            \* WHITE_RAVEN_BROWSER
  focus,              \* the scene that gets the keys; PlayerMenu: one of the player's menus
  exited,             \* the widget has been left
  resumeKey, resume,  \* resume['hash'] and ['index'], resume['time']
  saved,              \* resume.json, a sequence of Entries, oldest first
  deletions           \* requests for /deleteall that the server has not handled
VARIABLES             \* the page
  shown, caller,
  video,              \* Player.url
  downloadprogress,
  hideTimer           \* the page is hidden 4 s after an error
VARIABLES             \* Player
  state,              \* "none" (-1), "playing", "paused"; STOPPED never outlasts a call
  isSuccess, isBuffering, tryCount,
  savedresumetime, resumetime, totalTime
VARIABLES             \* AVPlay
  avplay,             \* "idle", "playing", "paused"
  position, buffering,
  target              \* where a jump ends, once it has buffered

sharedVars == <<browser, focus, exited, resumeKey, resume, saved, deletions>>
pageVars == <<shown, caller, video, downloadprogress, hideTimer>>
playerVars == <<state, isSuccess, isBuffering, tryCount, savedresumetime, resumetime, totalTime>>
avplayVars == <<avplay, position, buffering, target>>
playbackVars == <<sharedVars, pageVars, playerVars, avplayVars>>

PlaybackInit ==
  /\ exited = FALSE
  /\ resume = 0 /\ deletions = 0
  /\ shown = FALSE /\ caller = None /\ video = None
  /\ downloadprogress = FALSE /\ hideTimer = FALSE
  /\ state = "none" /\ isSuccess = FALSE /\ isBuffering = FALSE /\ tryCount = 0
  /\ savedresumetime = 0 /\ resumetime = 0 /\ totalTime = 0
  /\ avplay = "idle" /\ position = 0 /\ buffering = FALSE /\ target = None

-------------------------------------------------------------------------------
(* Opening and closing. *)

\* Player.playVideo: AVPlay opens the file and starts to buffer; it may not know
\* the duration yet.
PlayVideo ==
  /\ state' = "playing"
  /\ isBuffering' = TRUE
  /\ avplay' = "playing" /\ position' = 0 /\ buffering' = TRUE /\ target' = None

\* Mutant: the resume point is not kept for a stop before the video plays.
Show_ForgetsResume(v, c, r) ==
  /\ focus' = "PlayerPage"
  /\ resume' = r
  /\ shown' = TRUE /\ caller' = c /\ video' = v /\ downloadprogress' = TRUE
  /\ isSuccess' = FALSE /\ tryCount' = 0 /\ savedresumetime' = 0
  /\ totalTime' \in {0, Duration}
  /\ PlayVideo
  /\ UNCHANGED <<browser, exited, saved, deletions, hideTimer, resumetime>>

\* handleShow with Player.init, also while another video plays, whose position
\* is not saved then.  The caller sets the key of the resume point.
Show(v, c, r) ==
  /\ focus' = "PlayerPage"
  /\ resume' = r
  /\ shown' = TRUE /\ caller' = c /\ video' = v /\ downloadprogress' = TRUE
  /\ isSuccess' = FALSE /\ tryCount' = 0 /\ savedresumetime' = r
  /\ totalTime' \in {0, Duration}
  /\ PlayVideo
  /\ UNCHANGED <<browser, exited, saved, deletions, hideTimer, resumetime>>

\* Resume points are found by the link of the torrent and by the IMDb number.
SameTitle(t, u) == t = u \/ (ImdbOf[t] # None /\ ImdbOf[t] = ImdbOf[u])
PointsOf(points, t) == {i \in DOMAIN points : SameTitle(points[i].hash, t)}
PointsAt(points, key) == {i \in PointsOf(points, key[1]) : points[i].index = key[2]}

\* SaveResumeToLocal: every point that matches is overwritten; a new one takes the
\* place of the oldest if there are too many.
Saved(t) ==
  LET same == PointsAt(saved, resumeKey)
      room == IF Len(saved) < MaxSaved THEN saved ELSE Tail(saved)
  IN  IF same # {}
      THEN [i \in DOMAIN saved |-> IF i \in same THEN [saved[i] EXCEPT !.time = t] ELSE saved[i]]
      ELSE IF t = 0
           THEN saved
           ELSE Append(room, [hash |-> resumeKey[1], index |-> resumeKey[2], time |-> t])

\* What stopVideo puts into resume['time'].
StopTime ==
  IF savedresumetime # 0 THEN savedresumetime
  ELSE IF resumetime < totalTime THEN resumetime ELSE 0

\* Mutant: the torrent of a video from a list of one is kept, too.
StopVideo_KeepsTorrent ==
  /\ resume' = StopTime
  /\ saved' = Saved(StopTime)
  /\ resumetime' = 0
  /\ downloadprogress' = FALSE
  /\ state' = "none" /\ isSuccess' = FALSE /\ isBuffering' = FALSE /\ tryCount' = 0
  /\ savedresumetime' = StopTime /\ totalTime' = 0
  /\ avplay' = "idle" /\ position' = 0 /\ buffering' = FALSE /\ target' = None
  /\ deletions' = deletions

\* Player.stopVideo with stopCallback: saves the position, stops AVPlay, clears
\* the player and has the server drop the torrent, unless the viewer goes back
\* to its files.
StopVideo ==
  /\ resume' = StopTime
  /\ saved' = Saved(StopTime)
  /\ resumetime' = 0
  /\ downloadprogress' = FALSE
  /\ state' = "none" /\ isSuccess' = FALSE /\ isBuffering' = FALSE /\ tryCount' = 0
  /\ savedresumetime' = StopTime /\ totalTime' = 0
  /\ avplay' = "idle" /\ position' = 0 /\ buffering' = FALSE /\ target' = None
  /\ deletions' = IF caller # "MultiVideo" THEN deletions + 1 ELSE deletions

\* handleHide gives the focus back.
HidePage ==
  /\ shown' = FALSE
  /\ focus' = caller

\* handleStopKey: STOP, the button, or RETURN.
StopKey ==
  /\ focus = "PlayerPage" /\ state # "none"
  /\ StopVideo
  /\ HidePage
  /\ UNCHANGED <<browser, exited, resumeKey, caller, video, hideTimer>>

\* EXIT stops the video, too, even after an error.
ExitKey ==
  /\ focus = "PlayerPage"
  /\ StopVideo
  /\ HidePage
  /\ exited' = TRUE
  /\ UNCHANGED <<browser, resumeKey, caller, video, hideTimer>>

\* SceneMain.handleHide: another key of the television ends the widget.
HubExit ==
  /\ ~browser
  /\ exited' = TRUE
  /\ resume' = resumetime
  /\ saved' = IF resumetime # 0 THEN Saved(resumetime) ELSE saved
  /\ UNCHANGED <<browser, focus, resumeKey, deletions, pageVars, playerVars, avplayVars>>

-------------------------------------------------------------------------------
(* AVPlay's callbacks.  It is silent while it is idle. *)

\* A stall; a track that is switched buffers, too.
BufferingStarts ==
  /\ avplay # "idle" /\ ~buffering
  /\ buffering' = TRUE
  /\ isBuffering' = TRUE
  /\ totalTime' \in IF totalTime = 0 THEN {0, Duration} ELSE {totalTime}
  /\ UNCHANGED <<sharedVars, pageVars, state, isSuccess, tryCount, savedresumetime, resumetime,
                 avplay, position, target>>

\* bufferSuccess: the resume point is given up.
VideoShown == isSuccess' = TRUE /\ savedresumetime' = 0 /\ downloadprogress' = FALSE

\* The first time, the video is shown.
BufferingCompletes ==
  /\ avplay # "idle" /\ buffering
  /\ buffering' = FALSE
  /\ target' = None
  /\ position' = IF target = None THEN position ELSE target
  /\ avplay' = IF ~browser \/ state = "playing" THEN "playing" ELSE avplay
  /\ isBuffering' = FALSE
  /\ tryCount' = 0
  /\ IF downloadprogress
     THEN VideoShown
     ELSE UNCHANGED <<isSuccess, savedresumetime, downloadprogress>>
  /\ UNCHANGED <<sharedVars, shown, caller, video, hideTimer, state, resumetime, totalTime>>

\* Player.skipForwardVideo, skipBackwardVideo: AVPlay pauses, and plays again
\* when the jump has buffered; a television may refuse to jump.
JumpTo(t) ==
  \/ /\ buffering' = TRUE /\ isBuffering' = TRUE
     /\ target' = t
     /\ avplay' = "paused"
  \/ /\ ~browser
     /\ avplay' = "paused"
     /\ UNCHANGED <<buffering, isBuffering, target>>

\* oncurrentplaytime: the position is noted, and a resume point not yet used is
\* jumped to, from where the video is.
PlaybackTick ==
  /\ avplay = "playing" /\ ~buffering /\ isSuccess
  /\ position' \in {position, position + 1} \cap Times
  /\ resumetime' = position'
  /\ totalTime' = Duration
  /\ IF resume # 0 /\ position' >= 1
     THEN /\ JumpTo(Min({position' + resume, Duration}))
          /\ resume' = 0
     ELSE UNCHANGED <<resume, isBuffering, avplay, buffering, target>>
  /\ UNCHANGED <<browser, focus, exited, resumeKey, saved, deletions, pageVars, state, isSuccess,
                 tryCount, savedresumetime>>

\* onstreamcompleted.
Completed ==
  /\ avplay = "playing" /\ ~buffering /\ position = Duration
  /\ StopVideo
  /\ HidePage
  /\ UNCHANGED <<browser, exited, resumeKey, caller, video, hideTimer>>

\* onerror, Player.onError: the menus are closed, and the page a while later.
Failed ==
  /\ StopVideo
  /\ focus' = IF focus = "PlayerMenu" THEN "PlayerPage" ELSE focus
  /\ hideTimer' = TRUE
  /\ UNCHANGED <<browser, exited, resumeKey, shown, caller, video>>

\* NotFoundError is about the address, which is tried three times more.
Fails == avplay # "idle" /\ Failed
NotFound ==
  /\ avplay # "idle" /\ ~isSuccess
  /\ IF tryCount < 3
     THEN /\ PlayVideo
          /\ tryCount' = tryCount + 1
          /\ totalTime' \in IF totalTime = 0 THEN {0, Duration} ELSE {totalTime}
          /\ UNCHANGED <<sharedVars, pageVars, isSuccess, savedresumetime, resumetime>>
     ELSE Failed

HideTimer ==
  /\ hideTimer
  /\ hideTimer' = FALSE
  /\ HidePage
  /\ downloadprogress' = FALSE
  /\ UNCHANGED <<browser, exited, resumeKey, resume, saved, deletions, caller, video, playerVars, avplayVars>>

-------------------------------------------------------------------------------
(* Keys of the page; the bar also works while the video buffers. *)

Pause ==
  /\ focus = "PlayerPage" /\ isSuccess /\ state = "playing"
  /\ state' = "paused"
  /\ avplay' = "paused"
  /\ UNCHANGED <<sharedVars, pageVars, isSuccess, isBuffering, tryCount, savedresumetime, resumetime,
                 totalTime, position, buffering, target>>

Resume ==
  /\ focus = "PlayerPage" /\ isSuccess /\ state = "paused"
  /\ state' = "playing"
  /\ avplay' = "playing"
  /\ UNCHANGED <<sharedVars, pageVars, isSuccess, isBuffering, tryCount, savedresumetime, resumetime,
                 totalTime, position, buffering, target>>

\* ENTER on the progress bar.
Seek(t) ==
  /\ focus = "PlayerPage" /\ isSuccess /\ state = "playing"
  /\ JumpTo(t)
  /\ UNCHANGED <<sharedVars, pageVars, state, isSuccess, tryCount, savedresumetime, resumetime,
                 totalTime, position>>

OpenMenu ==
  /\ focus = "PlayerPage" /\ isSuccess /\ state # "none"
  /\ focus' = "PlayerMenu"
  /\ UNCHANGED <<browser, exited, resumeKey, resume, saved, deletions, pageVars, playerVars, avplayVars>>

CloseMenu ==
  /\ focus = "PlayerMenu"
  /\ focus' = "PlayerPage"
  /\ UNCHANGED <<browser, exited, resumeKey, resume, saved, deletions, pageVars, playerVars, avplayVars>>

-------------------------------------------------------------------------------

Callbacks == BufferingStarts \/ BufferingCompletes \/ PlaybackTick \/ Completed \/ Fails \/ NotFound

PlaybackNext ==
  /\ ~exited
  /\ \/ Callbacks \/ HideTimer
     \/ Pause \/ Resume \/ StopKey \/ ExitKey \/ HubExit \/ OpenMenu \/ CloseMenu
     \/ \E t \in Times : Seek(t)

\* Types of all variables of the page.
PlaybackTypeOK ==
  /\ browser \in BOOLEAN /\ exited \in BOOLEAN /\ focus \in Scenes
  /\ resumeKey \in Keys /\ resume \in Times /\ saved \in Seq(Entries)
  /\ deletions \in Nat
  /\ shown \in BOOLEAN /\ caller \in Callers \cup {None} /\ video \in Videos \cup {None}
  /\ downloadprogress \in BOOLEAN /\ hideTimer \in BOOLEAN
  /\ state \in {"none", "playing", "paused"}
  /\ isSuccess \in BOOLEAN /\ isBuffering \in BOOLEAN /\ tryCount \in 0 .. 3
  /\ savedresumetime \in Times /\ resumetime \in Times /\ totalTime \in {0, Duration}
  /\ avplay \in {"idle", "playing", "paused"} /\ position \in Times
  /\ buffering \in BOOLEAN /\ target \in Times \cup {None}
===============================================================================

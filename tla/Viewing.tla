-------------------------------- MODULE Viewing --------------------------------
(***************************************************************************)
(* From a list of torrents to a video and back: HostsMenu, which has the   *)
(* server add the chosen torrent, MultiVideo, which lists the files of a   *)
(* torrent with several, the search and download of a subtitle, ResumeMenu *)
(* and the player page (module Playback).                                  *)
(*                                                                         *)
(* Requests are answered while the viewer presses keys.  A request that is *)
(* aborted by its timer goes through its handler like a failed one.        *)
(* Nothing in MultiVideo rules out that a file is chosen while an earlier  *)
(* choice is still being prepared; MaxChains bounds how many are.  Resume  *)
(* points of other films and episodes are left out: they match none of     *)
(* this list's, and only take room.                                        *)
(***************************************************************************)
EXTENDS Playback

CONSTANTS
  MaxChoices,   \* bound: torrents chosen in the list
  MaxChains,    \* bound: searches for a subtitle at a time
  MaxDeletions, \* bound: requests to /deleteall pending when the list of files is left
  Workloads     \* bound: records [titles, choices, subtitles, browsers, saved]

ASSUME ViewingAssumption ==
  /\ MaxChoices \in Nat /\ MaxChains \in Nat \ {0} /\ MaxDeletions \in Nat
  /\ \A w \in Workloads : /\ w.titles \subseteq Torrents
                          /\ w.choices \in 0 .. MaxChoices
                          /\ w.subtitles \in BOOLEAN /\ w.browsers \subseteq BOOLEAN
                          /\ w.saved \subseteq Seq(Entries)

Chains == 1 .. MaxChains

VARIABLES
  waiting, notorrent,   \* HostsMenu
  videolist,            \* HostsMenu: how many long videos the torrent has
  playurl,              \* HostsMenu
  adding,               \* /add: "none", "sent", "added" by the server, "refused"
  haveMultiVideo,       \* MultiVideo prepares a file
  videodata,            \* MultiVideo has been shown with the files of a torrent
  resumedata,           \* ResumeMenu: the video and the scene to return to
  chains,               \* searches and downloads of subtitles in progress
  subtitledata,         \* the video whose subtitle is loaded
  torrents              \* the server: ActiveTorrents
VARIABLES
  choices,              \* torrents chosen so far
  hasty,                \* auxiliary: a file was chosen while another was prepared
  startedOver,          \* auxiliary: the viewer gave the resume point up
  workload

listVars == <<waiting, notorrent, videolist, playurl, adding, torrents, choices>>
menuVars == <<haveMultiVideo, videodata, resumedata, hasty, startedOver>>
subtitleVars == <<chains, subtitledata>>
scenesVars == <<listVars, menuVars, subtitleVars>>
vars == <<playbackVars, scenesVars, workload>>

NoVideo == [video |-> None, caller |-> None]
Idle == [stage |-> "none", video |-> None]

Init ==
  /\ PlaybackInit
  /\ workload \in Workloads
  /\ browser \in workload.browsers
  /\ focus = "InfoPage"
  /\ resumeKey = <<CHOOSE t \in Torrents : TRUE, 0>>
  /\ saved \in workload.saved
  /\ waiting = FALSE /\ notorrent = FALSE /\ videolist = 0 /\ playurl = None
  /\ adding = "none" /\ torrents = {} /\ choices = 0
  /\ haveMultiVideo = FALSE /\ videodata = None /\ resumedata = NoVideo
  /\ hasty = FALSE /\ startedOver = FALSE
  /\ chains = [c \in Chains |-> Idle] /\ subtitledata = None

\* The parts of the player page that scenes leave alone.
UnchangedPlayer ==
  UNCHANGED <<browser, exited, saved, pageVars, playerVars, avplayVars>>

\* HostsMenu.handleFocus.
FocusList ==
  /\ focus' = "HostsMenu"
  /\ waiting' = FALSE
  /\ haveMultiVideo' = FALSE

-------------------------------------------------------------------------------
(* HostsMenu. *)

\* ENTER in InfoPage; handleShow initialises the scene.
ShowList ==
  /\ focus = "InfoPage"
  /\ FocusList
  /\ notorrent' = FALSE
  /\ playurl' = None
  /\ UnchangedPlayer
  /\ UNCHANGED <<resumeKey, resume, deletions, videolist, adding, torrents, choices, videodata,
                 resumedata, hasty, startedOver, subtitleVars>>

LeaveList ==
  /\ focus = "HostsMenu" /\ ~waiting /\ ~notorrent
  /\ focus' = "InfoPage"
  /\ UnchangedPlayer
  /\ UNCHANGED <<resumeKey, resume, deletions, scenesVars>>

Choose(t) ==
  /\ focus = "HostsMenu" /\ ~waiting /\ ~notorrent
  /\ t \in workload.titles
  /\ choices < workload.choices
  /\ choices' = choices + 1
  /\ waiting' = TRUE
  /\ resumeKey' = <<t, 0>>
  /\ resume' = 0
  /\ startedOver' = FALSE
  /\ adding' = "sent"
  /\ videolist' = 0
  /\ UnchangedPlayer
  /\ UNCHANGED <<focus, deletions, notorrent, playurl, torrents, haveMultiVideo, videodata,
                 resumedata, hasty, subtitleVars>>

\* RETURN on the message that the torrent cannot be played.
DismissFailure ==
  /\ focus = "HostsMenu" /\ ~waiting /\ notorrent
  /\ notorrent' = FALSE
  /\ UnchangedPlayer
  /\ UNCHANGED <<focus, resumeKey, resume, deletions, waiting, videolist, playurl, adding, torrents,
                 choices, menuVars, subtitleVars>>

-------------------------------------------------------------------------------
(* PlayMovieUrl, and the menu that asks where to start. *)

\* GetResumeTime: with one file any point of the title is taken, with several the
\* one of the file.
Found(list, key) ==
  {i \in IF list = 1 THEN PointsOf(saved, key[1]) ELSE PointsAt(saved, key) : saved[i].time # 0}

\* The viewer is asked, with the first point found, whose index is taken over, or
\* the video starts; or nothing happens: there is no video, or HostsMenu does not
\* wait any more.
PlayMovieUrl(url, list, key) ==
  LET from == IF list = 1 THEN "HostsMenu" ELSE "MultiVideo"
      point == saved[Min(Found(list, key))]
  IN  IF url = None \/ ~waiting
      THEN /\ resumeKey' = key
           /\ UnchangedPlayer
           /\ UNCHANGED <<focus, resume, deletions, resumedata>>
      ELSE IF Found(list, key) # {}
           THEN /\ focus' = "ResumeMenu"
                /\ resume' = point.time
                /\ resumeKey' = <<key[1], point.index>>
                /\ resumedata' = [video |-> url, caller |-> from]
                /\ UnchangedPlayer
                /\ UNCHANGED deletions
           ELSE /\ Show(url, from, 0)
                /\ resumeKey' = key
                /\ UNCHANGED resumedata

ResumeChosen(time) ==
  /\ focus = "ResumeMenu"
  /\ Show(resumedata.video, resumedata.caller, time)
  /\ startedOver' = (time = 0)
  /\ UNCHANGED <<resumeKey, listVars, haveMultiVideo, videodata, resumedata, hasty, subtitleVars>>
Continue == ResumeChosen(resume)
StartOver == ResumeChosen(0)

\* RETURN.
ResumeMenuHides ==
  /\ focus = "ResumeMenu"
  /\ IF resumedata.caller = "HostsMenu"
     THEN FocusList /\ deletions' = deletions + 1
     ELSE focus' = "MultiVideo" /\ UNCHANGED <<waiting, haveMultiVideo, deletions>>
  /\ UnchangedPlayer
  /\ UNCHANGED <<resumeKey, resume, notorrent, videolist, playurl, adding, torrents, choices,
                 videodata, resumedata, hasty, startedOver, subtitleVars>>

-------------------------------------------------------------------------------
(* Subtitles. *)

\* Mutant: the subtitle of the video before is kept.
Prepare_KeepsSubtitle(url, list, key) ==
  /\ UNCHANGED subtitledata
  /\ IF workload.subtitles
     THEN /\ \E c \in Chains :
               /\ chains[c] = Idle
               /\ chains' = [chains EXCEPT ![c] = [stage |-> "search", video |-> url]]
          /\ resumeKey' = key
          /\ UnchangedPlayer
          /\ UNCHANGED <<focus, resume, deletions, resumedata>>
     ELSE PlayMovieUrl(url, list, key) /\ UNCHANGED chains

\* The subtitles of the video before are forgotten, and a search starts unless
\* subtitles are switched off.
Prepare(url, list, key) ==
  /\ subtitledata' = None
  /\ IF workload.subtitles
     THEN /\ \E c \in Chains :
               /\ chains[c] = Idle
               /\ chains' = [chains EXCEPT ![c] = [stage |-> "search", video |-> url]]
          /\ resumeKey' = key
          /\ UnchangedPlayer
          /\ UNCHANGED <<focus, resume, deletions, resumedata>>
     ELSE PlayMovieUrl(url, list, key) /\ UNCHANGED chains

\* The chain ends: what HostsMenu names by now is played.
EndChain(c) ==
  /\ chains' = [chains EXCEPT ![c] = Idle]
  /\ PlayMovieUrl(playurl, videolist, resumeKey)
  /\ haveMultiVideo' = FALSE
  /\ UNCHANGED <<listVars, videodata, hasty, startedOver>>

SearchFinds(c) ==
  /\ chains[c].stage = "search"
  /\ chains' = [chains EXCEPT ![c].stage = "download"]
  /\ UnchangedPlayer
  /\ UNCHANGED <<focus, resumeKey, resume, deletions, listVars, menuVars, subtitledata>>

\* Mutant: the video is not played without a subtitle.
SearchFails_GivesUp(c) ==
  /\ chains[c].stage = "search"
  /\ chains' = [chains EXCEPT ![c] = Idle]
  /\ UnchangedPlayer
  /\ UNCHANGED <<focus, resumeKey, resume, deletions, listVars, menuVars, subtitledata>>

\* Nothing is found, or the search fails or takes more than 20 s.
SearchFails(c) ==
  /\ chains[c].stage = "search"
  /\ EndChain(c)
  /\ UNCHANGED subtitledata

DownloadEnds(c) ==
  /\ chains[c].stage = "download"
  /\ subtitledata' \in {subtitledata, chains[c].video, None}
  /\ EndChain(c)

-------------------------------------------------------------------------------
(* The server adds the torrent; it gives up after 35 s, the widget after 40.   *)
(* Requests to /deleteall are not waited for.                                  *)

AddHandled ==
  /\ adding = "sent"
  /\ \/ adding' = "added" /\ torrents' = torrents \cup {resumeKey[1]}
     \/ adding' = "refused" /\ UNCHANGED torrents
  /\ UnchangedPlayer
  /\ UNCHANGED <<focus, resumeKey, resume, deletions, waiting, notorrent, videolist, playurl, choices,
                 menuVars, subtitleVars>>

DeleteAllHandled ==
  /\ deletions > 0
  /\ deletions' = deletions - 1
  /\ torrents' = {}
  /\ UnchangedPlayer
  /\ UNCHANGED <<focus, resumeKey, resume, waiting, notorrent, videolist, playurl, adding, choices,
                 menuVars, subtitleVars>>

\* The address of the longest video; without one that of the torrent before.
LongestVideo(t) ==
  CASE VideosOf[t] = 0 -> playurl
    [] VideosOf[t] = 1 -> <<t, 0>>
    [] OTHER           -> <<t, 1>>

AddAnswered ==
  LET t == resumeKey[1]
  IN  /\ adding = "added"
      /\ adding' = "none"
      /\ playurl' = LongestVideo(t)
      /\ videolist' = VideosOf[t]
      /\ IF VideosOf[t] > 1
         THEN /\ focus' = "MultiVideo"
              /\ videodata' = t
              /\ UnchangedPlayer
              /\ UNCHANGED <<resumeKey, resume, deletions, notorrent, resumedata, subtitleVars>>
         ELSE /\ notorrent' = FALSE
              /\ Prepare(playurl', videolist', resumeKey)
              /\ UNCHANGED videodata
      /\ haveMultiVideo' = IF VideosOf[t] <= 1 /\ ~workload.subtitles THEN FALSE ELSE haveMultiVideo
      /\ UNCHANGED <<waiting, torrents, choices, hasty, startedOver>>

\* The torrent cannot be played: the server forgets whatever it has.
CannotPlay(requests) ==
  /\ adding' = "none"
  /\ deletions' = deletions + requests
  /\ waiting' = FALSE /\ notorrent' = TRUE
  /\ UnchangedPlayer
  /\ UNCHANGED <<focus, resumeKey, resume, videolist, playurl, torrents, choices, menuVars, subtitleVars>>

\* The server refused, or the answer was lost: both handlers run.
AddFails == adding = "refused" /\ CannotPlay(1)
AddTimesOut == adding \in {"added", "refused"} /\ CannotPlay(2)

-------------------------------------------------------------------------------
(* MultiVideo. *)

\* ENTER, also while the file chosen before is prepared.
ChooseFile(v) ==
  LET url == <<videodata, v>>
      key == <<resumeKey[1], v>>
  IN  /\ focus = "MultiVideo" /\ videodata # None
      /\ v \in 1 .. VideosOf[videodata]
      /\ playurl' = url
      /\ hasty' = (hasty \/ haveMultiVideo)
      /\ haveMultiVideo' = workload.subtitles
      /\ startedOver' = FALSE
      /\ Prepare(url, videolist, key)
      /\ UNCHANGED <<waiting, notorrent, videolist, adding, torrents, choices, videodata>>

\* RETURN; a scene that was never shown does not know where to return to.
LeaveFiles ==
  /\ focus = "MultiVideo" /\ ~haveMultiVideo /\ deletions < MaxDeletions
  /\ deletions' = deletions + 1
  /\ IF videodata = None
     THEN UNCHANGED <<focus, waiting, haveMultiVideo>>
     ELSE FocusList
  /\ UnchangedPlayer
  /\ UNCHANGED <<resumeKey, resume, notorrent, videolist, playurl, adding, torrents, choices,
                 videodata, resumedata, hasty, startedOver, subtitleVars>>

\* EXIT in any of the scenes.
ExitScene ==
  /\ focus \in {"InfoPage", "HostsMenu", "MultiVideo", "ResumeMenu"}
  /\ exited' = TRUE
  /\ UNCHANGED <<browser, focus, resumeKey, resume, saved, deletions, pageVars, playerVars, avplayVars,
                 scenesVars>>

-------------------------------------------------------------------------------
(* A step of the player page; HostsMenu, if it is given the focus, notices. *)

PlayerStep ==
  /\ PlaybackNext
  /\ IF shown /\ ~shown' /\ focus' = "HostsMenu"
     THEN waiting' = FALSE /\ haveMultiVideo' = FALSE
     ELSE UNCHANGED <<waiting, haveMultiVideo>>
  /\ UNCHANGED <<notorrent, videolist, playurl, adding, torrents, choices, videodata, resumedata,
                 hasty, startedOver, subtitleVars>>

ViewerStep ==
  \/ ShowList \/ LeaveList \/ DismissFailure
  \/ \E t \in Torrents : Choose(t)
  \/ Continue \/ StartOver \/ ResumeMenuHides
  \/ \E v \in 1 .. MaxVideos : ChooseFile(v)
  \/ LeaveFiles \/ ExitScene

ServerStep == AddHandled \/ DeleteAllHandled
AddEnds == AddAnswered \/ AddFails \/ AddTimesOut
ChainStep(c) == SearchFinds(c) \/ SearchFails(c) \/ DownloadEnds(c)

Next ==
  /\ ~exited
  /\ UNCHANGED workload
  /\ PlayerStep \/ ViewerStep \/ ServerStep \/ AddEnds \/ \E c \in Chains : ChainStep(c)

Spec == Init /\ [][Next]_vars

\* The server answers or a timer of the widget runs out; so do the searches, and
\* the timer that hides the page.  Nothing is promised of AVPlay or the viewer.
FairSpec ==
  /\ Spec
  /\ WF_vars(~exited /\ UNCHANGED workload /\ ServerStep)
  /\ WF_vars(~exited /\ UNCHANGED workload /\ AddEnds)
  /\ \A c \in Chains : WF_vars(~exited /\ UNCHANGED workload /\ ChainStep(c))
  /\ WF_vars(HideTimer /\ PlayerStep /\ UNCHANGED workload)

-------------------------------------------------------------------------------
(* Properties. *)

\* Types of all variables.
TypeOK ==
  /\ PlaybackTypeOK
  /\ workload \in Workloads
  /\ waiting \in BOOLEAN /\ notorrent \in BOOLEAN /\ videolist \in Nat
  /\ playurl \in Videos \cup {None} /\ adding \in {"none", "sent", "added", "refused"}
  /\ haveMultiVideo \in BOOLEAN /\ videodata \in Torrents \cup {None}
  /\ resumedata \in [video : Videos \cup {None}, caller : Callers \cup {None}]
  /\ chains \in [Chains -> [stage : {"none", "search", "download"}, video : Videos \cup {None}]]
  /\ subtitledata \in Videos \cup {None} /\ torrents \subseteq Torrents
  /\ choices \in 0 .. MaxChoices /\ hasty \in BOOLEAN /\ startedOver \in BOOLEAN

\* Unless a file was chosen while another was prepared, the subtitle on the player
\* page is one that was looked for for the video it plays: HostsMenu.StartPlayback
\* and StartTorrentDownload forget the one before, and its search is over by then.
SubtitleFitsVideo == shown /\ ~hasty => subtitledata \in {None, video}

\* The position at which a file of a torrent would be resumed.
Point(points, key) ==
  LET used == {i \in PointsAt(points, key) : points[i].time # 0}
  IN  IF used = {} THEN 0 ELSE points[Min(used)].time

\* A resume point only changes once the video that plays has started to, or if the
\* viewer chose to start over: a stop, an error or EXIT while it still buffers
\* saves the old position again (Player.savedresumetime).  It is then the point of
\* that video's torrent, and of that file if there are several; torrents with the
\* same IMDb number share their points.  Or it is the oldest of too many.
ResumePointKept ==
  [][~hasty /\ saved' # saved =>
       \A key \in Keys :
         Point(saved', key) # Point(saved, key) =>
           /\ isSuccess \/ startedOver
           /\ videolist # 0 => resumeKey[1] = video[1]
           /\ videolist > 1 => resumeKey = video
           /\ \/ SameTitle(key[1], resumeKey[1]) /\ key[2] = resumeKey[2]
              \/ Len(saved) >= MaxSaved /\ 1 \in PointsAt(saved, key)]_vars

\* Back in a list where another torrent can be chosen, nothing is downloaded any
\* more, once the requests to delete have arrived.
TorrentReleased ==
  focus \in {"HostsMenu", "InfoPage"} /\ ~waiting /\ deletions = 0 /\ ~exited /\ ~hasty
    => torrents = {}

\* The viewer is never left with the loading screen or a dead page: a chosen
\* torrent that has videos, or a chosen file, leads to a video, a menu or a
\* message, and the page of a video that has stopped is hidden.
NeverStuck ==
  /\ (focus = "HostsMenu" /\ waiting /\ VideosOf[resumeKey[1]] > 0)
       ~> (focus # "HostsMenu" \/ ~waiting \/ exited)
  /\ (focus = "MultiVideo" /\ haveMultiVideo) ~> (focus # "MultiVideo" \/ ~haveMultiVideo \/ exited)
  /\ (shown /\ state = "none") ~> (~shown \/ state # "none" \/ exited)
===============================================================================

----------------------------- MODULE ReceiverScene -----------------------------
(***************************************************************************)
(* The receiver of the widget (ReceiverPage.js) at work on the server of   *)
(* TorrentRegistry.  A page on another device (receiverpage.go) sends a    *)
(* magnet link or a torrent file; the widget, which polls for it, has the  *)
(* server add it and plays it.  What was sent as a file is added by its    *)
(* display name: the server takes the file it has kept.                    *)
(*                                                                         *)
(* Calls reach the server in any order.  A check sleeps for three seconds  *)
(* in the server before it reads what was sent, and a start takes less, so *)
(* a check never reads before the starts that were under way when it was   *)
(* asked.  The timers of four seconds outlast such calls.  What the list   *)
(* of files of a torrent holds, one video, several or none, is left open,  *)
(* and so is which names btoa can take.  The way from a video to the       *)
(* player (see Viewing) is left out, and so is EXIT.                       *)
(***************************************************************************)
EXTENDS TorrentRegistry

ASSUME SceneAssumption ==
  \A w \in Workloads : w.scene \subseteq w.adders /\ \A a, b \in w.scene : a = b

VARIABLES
  focus,              \* "Main" is the rest of the widget
  receivingProgress, receiverWaiting, haveMultiVideo,
  starts, stops,      \* calls of /receiver/start and /receiver/stop under way
  sleeping, due,      \* checks asked while a start was under way, and others
  received,           \* data.received
  adding,             \* what StartTorrentDownload has come to
  caller,             \* the scene the player returns to
  deleting,           \* a /deleteall is under way
  openings,
  named, listed,      \* a video was found before; several were, and MultiVideo shows them
  overtaken,          \* auxiliary: a stop was handled after a start sent later
  outdated,           \* auxiliary: a check answered with what was sent before the last start
  foreign,            \* auxiliary: the last /add, not of the scene, took a file it was sent
  meddled             \* auxiliary: a file was sent during an /add

callVars == <<starts, stops, sleeping, due, overtaken>>
screenVars == <<focus, haveMultiVideo, caller, openings>>
foundVars == <<named, listed>>
fileTaken == <<foreign, meddled>>
flagVars == <<receivingProgress, receiverWaiting>>
downloadVars == <<received, adding, outdated>>
sceneVars == <<callVars, screenVars, foundVars, flagVars, downloadVars, deleting, fileTaken>>
movingVars == <<serverVars, sceneVars>>
systemVars == <<movingVars, workload>>

SceneInit ==
  /\ Init
  /\ focus = "Main" /\ caller = "ReceiverPage"
  /\ receivingProgress = FALSE /\ receiverWaiting = FALSE /\ haveMultiVideo = FALSE
  /\ starts = 0 /\ stops = 0 /\ sleeping = 0 /\ due = 0
  /\ received = None /\ adding = "no"
  /\ deleting = FALSE /\ openings = 0
  /\ named = FALSE /\ listed = FALSE
  /\ overtaken = FALSE /\ outdated = FALSE /\ foreign = FALSE /\ meddled = FALSE

-------------------------------------------------------------------------------
(* Opening, polling and leaving. *)

\* The scene listens: handleShow and handleFocus each send a start and a check.
Listens(n) ==
  /\ receiverWaiting' = FALSE /\ haveMultiVideo' = FALSE /\ receivingProgress' = TRUE
  /\ starts' = starts + n
  /\ sleeping' = sleeping + n
  /\ UNCHANGED <<stops, due, overtaken>>

\* The menu, or TOOLS on the screen of a widget that cannot reach TMDB, shows
\* the scene and gives it the focus.
Opens ==
  /\ focus = "Main" /\ openings < workload.openings
  /\ \A a \in workload.scene : at[a] = "idle"
  /\ openings' = openings + 1
  /\ focus' = "ReceiverPage"
  /\ Listens(2)
  /\ UNCHANGED <<serverVars, caller, downloadVars, deleting,
                 foundVars, fileTaken>>

StartArrives ==
  /\ starts > 0
  /\ StartReceiver
  /\ starts' = starts - 1
  /\ overtaken' = FALSE
  /\ IF starts = 1 THEN due' = due + sleeping /\ sleeping' = 0 ELSE UNCHANGED <<due, sleeping>>
  /\ UNCHANGED <<stops, screenVars, flagVars, downloadVars, deleting,
                 foundVars, fileTaken>>

StopArrives ==
  /\ stops > 0
  /\ StopReceiver
  /\ stops' = stops - 1
  /\ overtaken' = receivingProgress
  /\ UNCHANGED <<starts, sleeping, due, screenVars, flagVars, downloadVars, deleting,
                 foundVars, fileTaken>>

\* The page on another device sends something.
PageSends ==
  /\ workload.scene # {}
  /\ \E x \in workload.hashes :
        \/ SetReceivedMagnet(x) /\ UNCHANGED meddled
        \/ SetReceivedTorrent(x) /\ meddled' = (meddled \/ \E a \in Adders : at[a] # "idle")
  /\ UNCHANGED <<callVars, screenVars, foundVars, flagVars, downloadVars, deleting, foreign>>

\* The rest of the widget adds a torrent: a URL gives a file that was sent and never added.
\* (Bound: unless the workload is late, calls of the receiver have arrived before.)
WidgetAdds(a) ==
  /\ focus = "Main"
  /\ workload.late \/ starts + stops + sleeping + due = 0
  /\ \E u \in URIs :
        /\ u.kind # "name"
        /\ Request(a, u)
        /\ foreign' = (u.kind # "magnet" /\ receivedTorrent # None)
  /\ UNCHANGED <<callVars, screenVars, foundVars, flagVars, downloadVars, deleting, meddled>>

\* A check answers with what was sent: it will be added in four seconds.
CheckReceives ==
  /\ due > 0 /\ receivingProgress /\ receiverResponse # None
  /\ due' = due - 1
  /\ receivingProgress' = FALSE /\ receiverWaiting' = TRUE
  /\ received' = receiverResponse
  /\ adding' = "announced"
  /\ outdated' = (outdated \/ starts > 0)
  /\ UNCHANGED <<serverVars, starts, stops, sleeping, overtaken, screenVars, deleting,
                 foundVars, fileTaken>>

\* Mutant: a check that fails is not repeated.
CheckGoesOn_Ends ==
  /\ due > 0
  /\ due' = due - 1
  /\ UNCHANGED <<serverVars, starts, stops, sleeping, overtaken, screenVars, flagVars, downloadVars,
                 deleting,
                 foundVars, fileTaken>>

\* A check answers with nothing, fails or takes 25 seconds, or finds that
\* another has received something: `complete' asks again, or no more.
CheckGoesOn ==
  /\ due > 0
  /\ \/ ~receivingProgress /\ due' = due - 1 /\ UNCHANGED sleeping
     \/ receivingProgress /\ starts > 0 /\ due' = due - 1 /\ sleeping' = sleeping + 1
     \/ receivingProgress /\ starts = 0 /\ UNCHANGED <<due, sleeping>>
  /\ UNCHANGED <<serverVars, starts, stops, overtaken, screenVars, flagVars, downloadVars, deleting,
                 foundVars, fileTaken>>

Hides ==
  /\ receivingProgress' = FALSE
  /\ stops' = stops + 1
  /\ focus' = "Main"

\* RETURN.
Leaves ==
  /\ focus = "ReceiverPage" /\ ~receiverWaiting /\ ~haveMultiVideo
  /\ Hides
  /\ UNCHANGED <<serverVars, starts, sleeping, due, overtaken, haveMultiVideo, caller, openings,
                 receiverWaiting, downloadVars, deleting,
                 foundVars, fileTaken>>

-------------------------------------------------------------------------------
(* StartTorrentDownload. *)

\* Four seconds after it was received: btoa throws if it cannot encode the name, which
\* nothing catches.
SendsAdd ==
  /\ adding = "announced" /\ starts + stops + sleeping + due = 0
  /\ adding' \in {"sent", "stuck"}
  /\ stops' = 1
  /\ UNCHANGED <<serverVars, starts, sleeping, due, overtaken, screenVars, flagVars, received,
                 outdated, deleting,
                 foundVars, fileTaken>>

AddArrives(a) ==
  /\ adding = "sent"
  /\ Request(a, received)
  /\ adding' = "handled"
  /\ foreign' = FALSE
  /\ UNCHANGED <<callVars, screenVars, foundVars, flagVars, received, outdated, deleting, meddled>>

\* The /add has failed, or the torrent has several videos, one, or none: then what was found
\* before is played, as if it were one of several, and without that the handler throws.
AddAnswered(a) ==
  /\ adding = "handled" /\ at[a] = "idle"
  /\ \/ /\ answer[a] = None
        /\ deleting' = TRUE /\ adding' = "failed"
        /\ UNCHANGED <<focus, caller, foundVars>>
     \/ /\ answer[a] # None
        /\ \/ /\ adding' = "no" /\ focus' = "MultiVideo"
              /\ named' = TRUE /\ listed' = TRUE
              /\ UNCHANGED caller
           \/ /\ adding' = "preparing" /\ caller' = "ReceiverPage"
              /\ named' = TRUE
              /\ UNCHANGED <<focus, listed>>
           \/ /\ named
              /\ adding' = "preparing" /\ caller' = "MultiVideo"
              /\ UNCHANGED <<focus, foundVars>>
           \/ /\ ~named
              /\ adding' = "stuck"
              /\ UNCHANGED <<focus, caller, foundVars>>
        /\ UNCHANGED deleting
  /\ UNCHANGED <<serverVars, callVars, haveMultiVideo, openings, flagVars, received, outdated,
                 fileTaken>>

\* The timer of 40 seconds: the request or its answer was lost, as the server
\* is done with a magnet link after 35 seconds and with a file at once.  The
\* request is aborted, which runs its handler for a failure before the timer's.
AddTimesOut(a) ==
  /\ adding \in {"sent", "handled"} /\ at[a] = "idle"
  /\ deleting' = TRUE /\ adding' = "aborted"
  /\ UNCHANGED <<serverVars, callVars, screenVars, flagVars, received, outdated,
                 foundVars, fileTaken>>

\* "Automatic stepback instead of pressing return", four seconds after a failure;
\* twice after an abort.
StepsBack ==
  /\ stops = 0
  /\ \/ adding = "failed" /\ Listens(1)
     \/ adding = "aborted" /\ Listens(2)
  /\ adding' = "no"
  /\ UNCHANGED <<serverVars, focus, caller, openings, received, outdated, deleting,
                 foundVars, fileTaken>>

\* ENTER on one of several videos.
Chooses ==
  /\ focus = "MultiVideo" /\ adding = "no" /\ listed
  /\ haveMultiVideo' = TRUE
  /\ adding' = "preparing" /\ caller' = "MultiVideo"
  /\ UNCHANGED <<serverVars, callVars, focus, openings, flagVars, received, outdated, deleting,
                 foundVars, fileTaken>>

\* PlayMovieUrl, once a subtitle was found or not.
Plays ==
  /\ adding = "preparing"
  /\ adding' = "no" /\ haveMultiVideo' = FALSE /\ focus' = "PlayerPage"
  /\ UNCHANGED <<serverVars, callVars, caller, openings, flagVars, received, outdated, deleting,
                 foundVars, fileTaken>>

\* The player, or the menu before it, returns to the scene it was called from.
PlayerReturns ==
  /\ focus = "PlayerPage"
  /\ focus' = caller
  /\ IF caller = "ReceiverPage"
     THEN deleting' = TRUE /\ Listens(1)
     ELSE UNCHANGED <<callVars, flagVars, haveMultiVideo, deleting>>
  /\ UNCHANGED <<serverVars, caller, openings, downloadVars, foundVars, fileTaken>>

\* MultiVideo knows where to return to if it was shown.
MultiVideoReturns ==
  /\ focus = "MultiVideo" /\ ~haveMultiVideo /\ listed
  /\ deleting' = TRUE
  /\ focus' = "ReceiverPage"
  /\ Listens(1)
  /\ UNCHANGED <<serverVars, caller, openings, downloadVars, foundVars, fileTaken>>

-------------------------------------------------------------------------------
(* /deleteall: one torrent after the other. *)

DeleteAll(r) ==
  /\ deleting
  /\ \/ (\E x \in Hashes : RemoverDrops(r, x)) /\ UNCHANGED deleting
     \/ /\ removing[r] = None /\ \A x \in Hashes : ActiveTorrents[x] = None
        /\ deleting' = FALSE
        /\ UNCHANGED serverVars
  /\ UNCHANGED <<callVars, screenVars, flagVars, downloadVars, foundVars, fileTaken>>

-------------------------------------------------------------------------------

Timers(a) == SendsAdd \/ AddAnswered(a) \/ AddTimesOut(a) \/ StepsBack \/ Plays

Scene(a) ==
  \/ Opens \/ StartArrives \/ StopArrives \/ PageSends \/ WidgetAdds(a)
  \/ CheckReceives \/ CheckGoesOn \/ Leaves
  \/ SendsAdd \/ AddArrives(a) \/ AddAnswered(a) \/ AddTimesOut(a) \/ StepsBack
  \/ Chooses \/ Plays \/ PlayerReturns \/ MultiVideoReturns
  \/ \E r \in workload.removers : DeleteAll(r)

Next ==
  /\ \/ (Serves \/ Asks) /\ UNCHANGED sceneVars
     \/ \E a \in workload.scene : Scene(a)
  /\ UNCHANGED workload

Spec == SceneInit /\ [][Next]_systemVars

\* Requests that have begun go on, but for the download of a torrent file; calls arrive,
\* checks are answered and timers fire; an /add of the scene may be lost, and peers need not
\* answer.
FairSpec ==
  /\ Spec
  /\ \A a \in Adders :
        WF_movingVars(/\ Decides(a) \/ (FetchFails(a) /\ uri[a].kind = "name")
                      /\ UNCHANGED sceneVars)
  /\ \A r \in Removers : WF_movingVars(RemoverDeletes(r) /\ UNCHANGED sceneVars)
  /\ WF_movingVars(StartArrives) /\ WF_movingVars(StopArrives)
  /\ WF_movingVars(CheckReceives \/ CheckGoesOn)
  /\ \A a \in Adders : WF_movingVars(a \in workload.scene /\ Timers(a))

-------------------------------------------------------------------------------
(* Properties. *)

\* Types of the variables of the scene.
SceneTypeOK ==
  /\ focus \in {"Main", "ReceiverPage", "MultiVideo", "PlayerPage"}
  /\ receivingProgress \in BOOLEAN /\ receiverWaiting \in BOOLEAN /\ haveMultiVideo \in BOOLEAN
  /\ starts \in Nat /\ stops \in Nat /\ sleeping \in Nat /\ due \in Nat
  /\ received \in URIs \cup {None}
  /\ adding \in {"no", "announced", "sent", "handled", "failed", "aborted", "preparing", "stuck"}
  /\ caller \in {"ReceiverPage", "MultiVideo"}
  /\ deleting \in BOOLEAN /\ openings \in Nat
  /\ named \in BOOLEAN /\ listed \in BOOLEAN
  /\ overtaken \in BOOLEAN /\ outdated \in BOOLEAN /\ foreign \in BOOLEAN /\ meddled \in BOOLEAN

\* One /add and one delete at a time; never a check that answered with what was sent before
\* the scene was opened again, which leaves the receiver on while the scene is served; and
\* never a page that sent a file during an /add, to a receiver that was left on.
Alone ==
  /\ \A a, b \in workload.adders : a = b
  /\ \A r, s \in workload.removers : r = s
  /\ ~outdated /\ ~meddled

\* With one /add and one delete at a time, a registered torrent is open, but for the moment
\* between the Drop and the delete of RemoveTorrent.  (A second /add can register a torrent
\* the first has dropped.)
ActiveIsLive ==
  Alone => \A x \in Hashes : ActiveTorrents[x] # None =>
    ActiveTorrents[x] \notin dropped \/ \E r \in Removers : removing[r] = x

\* With one /add and one delete at a time, an open torrent is registered or some request
\* still waits for it: none keeps downloading out of reach of /delete.  (A delete by hash can
\* also hit a torrent that was added after its Drop, by a second delete.)
NoOrphanTorrent ==
  Alone => \A t \in Torrents : hashOf[t] # None /\ t \notin dropped =>
    ActiveTorrents[hashOf[t]] = t \/ \E a \in Adders : torrent[a] = t

\* With one /add at a time, /add answers with the torrent its URI names, unless a URL finds a
\* file that a page has sent and nobody has added (foreign: /receiver/stop keeps it): what the
\* receiver has shown on the television is what is played, although a file is added by its
\* name and the server takes whatever file it has.  And what the next /add would take for such
\* a file ("Add previously received torrent file", helpers.go:31) is one.
AnswersRequest ==
  Alone =>
    /\ ~foreign => \A a \in Adders : answer[a] # None => answer[a] = uri[a].hash
    /\ receivedTorrent # None => sentByPage \/ \E a \in Adders : at[a] # "idle"

\* While the scene says that it can receive, it asks for what was sent, and a page can send
\* or has sent something, however starts, stops and checks of this and earlier openings mix;
\* except that a stop which a later start overtakes ends it.
ListensWhileOpen ==
  receivingProgress =>
    /\ focus = "ReceiverPage" /\ ~receiverWaiting
    /\ sleeping + due > 0
    /\ starts + stops > 0 \/ overtaken \/ receiverEnabled \/ receiverResponse # None

\* An /add returns, although the metadata may never arrive, but for one that downloads a
\* torrent file, which may take for ever.  And the receiver does not stay in the state in which
\* RETURN does nothing, although the /add may be lost; but for two errors nobody catches, which
\* leave it so (stuck): a name that btoa cannot encode, and a first torrent without a video.
Downloads(a) == at[a] = "fetch" /\ uri[a].kind = "url"
AddReturns ==
  /\ \A a \in Adders : at[a] # "idle" ~> at[a] = "idle" \/ Downloads(a)
  /\ focus = "ReceiverPage" /\ receiverWaiting
       ~> focus # "ReceiverPage" \/ ~receiverWaiting \/ adding = "stuck"

===============================================================================

------------------------ MODULE PlayerSubtitlesProofs ------------------------
(***************************************************************************)
(* Proofs about PlayerSubtitles, for any number of embedded tracks and any *)
(* set of subtitle files, on a television and in the browser.              *)
(***************************************************************************)
EXTENDS PlayerSubtitles, TLAPS

\* A television answers a selection at once, and plays the track it shows.
NativeOK ==
  ~browser => /\ selecting = -1 /\ switching = -1
              /\ subtitleActive => nativeSubtitleIndex = subtitleIndex

\* In the browser a pending selection is the switch the player is about to make, and
\* an active track's renderer is visible.
EngineOK ==
  /\ selecting # -1 => switching = selecting
  /\ browser /\ subtitleActive => engineVisible

\* A download that still counts is what the viewer asked for last.
DownloadOK == downloading # None => choice = downloading

\* Before the default has been selected, no text of a track comes or is on its way,
\* unless the viewer asked early.
DefaultOK ==
  ~early /\ ~defaultSubtitleSelected => choice = None /\ ~subtitleActive /\ selecting = -1

\* A choice is shown, or the request for it is pending, and no other that would
\* show something else once it is answered.
TrackChosen ==
  /\ downloading = None
  /\ IF selecting = -1
     THEN /\ subtitleActive /\ subtitleIndex = choice /\ subtitleState = 0
          /\ browser => engineTrack = choice /\ switching \in {-1, choice}
     ELSE selecting = choice /\ selectingCurrent
FileChosen ==
  downloading = None =>
    selecting = -1 /\ ExternalShown /\ subtitledata = choice /\ ~subtitleActive
HiddenChosen == downloading = None /\ selecting = -1 /\ subtitleState = 0 /\ ~subtitleActive
ChoiceOK ==
  ~early /\ ~mistaken => /\ choice \in Indices => TrackChosen
                         /\ choice \in Files => FileChosen
                         /\ choice = Hidden => HiddenChosen

\* A television stops one renderer when it starts the other.
RendererOK == ~browser /\ ~early => ~(subtitleState = 1 /\ subtitleActive)

\* The inductive invariant.
IInv == TypeOK /\ NativeOK /\ EngineOK /\ DownloadOK /\ DefaultOK /\ ChoiceOK /\ RendererOK

-------------------------------------------------------------------------------

\* Tracks, files and the two other values of a choice are all different.
LEMMA Kinds ==
  /\ None \notin Files /\ None \notin Indices /\ Hidden \notin Files /\ Hidden \notin Indices
  /\ None # Hidden /\ None # -1 /\ Hidden # -1
  /\ Files \cap Indices = {} /\ -1 \notin Indices /\ -1 \notin Files
  /\ Indices \subseteq Int
<1>1. Indices \subseteq Int /\ -1 \in Int /\ -1 \notin Indices
  BY SubtitlesAssumption DEF Indices
<1> QED
  BY <1>1, SubtitlesAssumption

\* The types, by component of the state.
PlayerTypes ==
  /\ browser \in BOOLEAN /\ shown \in BOOLEAN /\ isSuccess \in BOOLEAN /\ isBuffering \in BOOLEAN
  /\ ready \in BOOLEAN
DefaultTypes ==
  defaultSubtitleTimer \in {"none", "queued", "superseded"} /\ defaultSubtitleSelected \in BOOLEAN
ExternalTypes ==
  /\ subtitleState \in {0, 1} /\ issubtitle \in BOOLEAN
  /\ externalSubtitleURL \in Files \cup {None} /\ subtitledata \in Files \cup {None}
TracksTypes ==
  /\ subtitleActive \in BOOLEAN /\ subtitleIndex \in Indices \cup {-1}
  /\ nativeSubtitleIndex \in Indices \cup {-1, 0}
PendingTypes ==
  /\ downloading \in Files \cup {None} /\ selecting \in Indices \cup {-1}
  /\ selectingCurrent \in BOOLEAN
  /\ switching \in Indices \cup {-1} /\ engineTrack \in Indices \cup {-1} /\ engineVisible \in BOOLEAN
ViewerTypes ==
  choice \in Files \cup Indices \cup {None, Hidden} /\ early \in BOOLEAN /\ mistaken \in BOOLEAN

LEMMA TypeSplit ==
  TypeOK => PlayerTypes /\ DefaultTypes /\ ExternalTypes /\ TracksTypes /\ PendingTypes /\ ViewerTypes
  BY DEF TypeOK, PlayerTypes, DefaultTypes, ExternalTypes, TracksTypes, PendingTypes, ViewerTypes

LEMMA TypeJoin ==
  ASSUME PlayerTypes', DefaultTypes', ExternalTypes', TracksTypes', PendingTypes', ViewerTypes'
  PROVE  TypeOK'
  BY DEF TypeOK, PlayerTypes, DefaultTypes, ExternalTypes, TracksTypes, PendingTypes, ViewerTypes

\* A component that a step leaves alone keeps its type.
LEMMA TypeFrame ==
  ASSUME TypeOK
  PROVE  /\ UNCHANGED <<playerVars, ready>> => PlayerTypes'
         /\ UNCHANGED externalVars => ExternalTypes'
         /\ UNCHANGED tracksVars => TracksTypes'
         /\ UNCHANGED defaultVars => DefaultTypes'
<1>1. UNCHANGED <<playerVars, ready>> => PlayerTypes'
  BY TypeSplit DEF playerVars, PlayerTypes
<1>2. UNCHANGED externalVars => ExternalTypes'
  BY TypeSplit DEF externalVars, ExternalTypes
<1>3. UNCHANGED tracksVars => TracksTypes'
  BY TypeSplit DEF tracksVars, TracksTypes
<1>4. UNCHANGED defaultVars => DefaultTypes'
  BY TypeSplit DEF defaultVars, DefaultTypes
<1> QED
  BY <1>1, <1>2, <1>3, <1>4

LEMMA SupersededTypes ==
  ASSUME TypeOK PROVE Superseded(defaultSubtitleTimer) \in {"none", "queued", "superseded"}
  BY DEF TypeOK, Superseded

\* What the invariant says of, apart from the types.
ChoiceVars == <<browser, downloading, selecting, selectingCurrent, subtitleActive, subtitleIndex,
                nativeSubtitleIndex, subtitleState, subtitledata, issubtitle, engineVars, viewerVars>>

LEMMA ChoiceFrame ==
  ASSUME IInv, TypeOK', UNCHANGED ChoiceVars, defaultSubtitleSelected => defaultSubtitleSelected'
  PROVE  IInv'
<1> USE DEF engineVars, viewerVars
<1>1. NativeOK' /\ EngineOK' /\ DownloadOK' /\ RendererOK'
  BY DEF IInv, NativeOK, EngineOK, DownloadOK, RendererOK, ChoiceVars
<1>2. DefaultOK'
  BY DEF IInv, DefaultOK, ChoiceVars
<1>3. ChoiceOK'
  BY DEF IInv, ChoiceOK, TrackChosen, FileChosen, HiddenChosen, ExternalShown, ChoiceVars
<1> QED
  BY <1>1, <1>2, <1>3 DEF IInv

\* The viewer has asked for nothing.
LEMMA NothingChosen ==
  ASSUME choice = None
  PROVE  ChoiceOK
  BY Kinds DEF ChoiceOK

\* The player starts with no track or with the first.
LEMMA PreloadedTypes == Preloaded \subseteq Indices \cup {-1}
  BY SubtitlesAssumption DEF Preloaded, Indices

LEMMA OvertakenTypes ==
  ASSUME TypeOK, Overtaken PROVE engineTrack' \in Indices \cup {-1}
  BY DEF TypeOK, Overtaken

-------------------------------------------------------------------------------
(* The page and AVPlay's callbacks. *)

\* Player.clear.
LEMMA ClearedKeeps ==
  ASSUME Cleared, TypeOK'
  PROVE  IInv'
<1>1. choice' = None /\ downloading' = None /\ selecting' = -1 /\ switching' = -1 /\ ~subtitleActive'
  BY DEF Cleared
<1>2. NativeOK' /\ EngineOK' /\ DownloadOK' /\ DefaultOK' /\ RendererOK'
  BY <1>1 DEF NativeOK, EngineOK, DownloadOK, DefaultOK, RendererOK
<1>3. ChoiceOK'
  BY <1>1, Kinds DEF ChoiceOK
<1> QED
  BY <1>2, <1>3 DEF IInv

LEMMA ShowKeeps == IInv /\ Show => IInv'
<1> SUFFICES ASSUME IInv, Show PROVE IInv'
  OBVIOUS
<1>1. /\ Cleared /\ shown' \in BOOLEAN /\ isBuffering' \in BOOLEAN /\ ready' \in BOOLEAN
      /\ subtitledata' \in Files \cup {None} /\ issubtitle' \in BOOLEAN
      /\ browser' \in BOOLEAN
  BY SubtitlesAssumption DEF IInv, TypeOK, Show
<1>2. TypeOK'
  BY <1>1, PreloadedTypes DEF TypeOK, Cleared
<1> QED
  BY <1>1, <1>2, ClearedKeeps

LEMMA CloseKeeps == IInv /\ Close => IInv'
<1> SUFFICES ASSUME IInv, Close PROVE IInv'
  OBVIOUS
<1>1. /\ Cleared /\ shown' \in BOOLEAN /\ isBuffering' \in BOOLEAN /\ ready' \in BOOLEAN
      /\ subtitledata' \in Files \cup {None} /\ issubtitle' \in BOOLEAN
      /\ browser' \in BOOLEAN
  BY DEF IInv, TypeOK, Close
<1>2. TypeOK'
  BY <1>1, PreloadedTypes DEF TypeOK, Cleared
<1> QED
  BY <1>1, <1>2, ClearedKeeps

\* Buffering, the playback time, and a default that is not due or comes too late.
LEMMA CallbacksKeep ==
  ASSUME IInv,
         BufferingStarts \/ BufferingCompletes \/ PlaybackTick \/ DefaultSuperseded \/ DefaultNotDue
  PROVE  IInv'
<1> USE DEF playerVars, defaultVars, externalVars, tracksVars, pendingVars, viewerVars, engineVars
<1>1. /\ UNCHANGED ChoiceVars /\ UNCHANGED <<shown, externalSubtitleURL>>
      /\ defaultSubtitleSelected => defaultSubtitleSelected'
  <2>1. CASE BufferingStarts
    BY <2>1 DEF ChoiceVars, BufferingStarts
  <2>2. CASE BufferingCompletes
    BY <2>2 DEF ChoiceVars, BufferingCompletes
  <2>3. CASE PlaybackTick
    BY <2>3 DEF ChoiceVars, PlaybackTick
  <2>4. CASE DefaultSuperseded
    BY <2>4 DEF ChoiceVars, DefaultSuperseded
  <2>5. CASE DefaultNotDue
    BY <2>5 DEF ChoiceVars, DefaultNotDue
  <2> QED
    BY <2>1, <2>2, <2>3, <2>4, <2>5
<1>2. /\ isSuccess' \in BOOLEAN /\ isBuffering' \in BOOLEAN /\ ready' \in BOOLEAN
      /\ defaultSubtitleTimer' \in {"none", "queued", "superseded"}
      /\ defaultSubtitleSelected' \in BOOLEAN
  BY DEF IInv, TypeOK, QueueDefault, BufferingStarts, BufferingCompletes, PlaybackTick,
         DefaultSuperseded, DefaultNotDue
<1>3. TypeOK'
  BY <1>1, <1>2 DEF IInv, TypeOK, ChoiceVars
<1> QED
  BY <1>1, <1>3, ChoiceFrame

-------------------------------------------------------------------------------
(* Selecting a track. *)

Selected(i) ==
  /\ TrackSelected(i) /\ PlayerSelected
  /\ selecting' = -1 /\ selectingCurrent' = FALSE
  /\ UNCHANGED engineVars
  /\ browser => subtitleIndex = i /\ subtitleActive
Refused(i) ==
  /\ ~browser /\ ~(subtitleActive /\ subtitleIndex = i)
  /\ selecting' = -1 /\ selectingCurrent' = FALSE
  /\ UNCHANGED <<tracksVars, externalVars, engineVars>>
Pending(i) ==
  /\ browser
  /\ selecting' = i /\ selectingCurrent' = TRUE
  /\ switching' = i
  /\ Overtaken
  /\ UNCHANGED <<tracksVars, externalVars, engineVisible>>

\* A television that refuses a track was not showing it.
LEMMA Outcomes ==
  ASSUME IInv, NEW i \in Indices, SelectEmbedded(i)
  PROVE  downloading' = None /\ (Selected(i) \/ Refused(i) \/ Pending(i))
  BY DEF IInv, NativeOK, SelectEmbedded, SelectTrack, Selected, Refused, Pending

LEMMA SelectTypes ==
  ASSUME IInv, NEW i \in Indices, SelectEmbedded(i), UNCHANGED browser
  PROVE  /\ subtitleState' \in {0, 1} /\ issubtitle' \in BOOLEAN
         /\ externalSubtitleURL' \in Files \cup {None} /\ subtitledata' \in Files \cup {None}
         /\ downloading' \in Files \cup {None} /\ subtitleActive' \in BOOLEAN
         /\ subtitleIndex' \in Indices \cup {-1} /\ selecting' \in Indices \cup {-1}
         /\ nativeSubtitleIndex' \in Indices \cup {-1, 0} /\ selectingCurrent' \in BOOLEAN
         /\ switching' \in Indices \cup {-1} /\ engineTrack' \in Indices \cup {-1}
         /\ engineVisible' \in BOOLEAN
  BY Outcomes, OvertakenTypes DEF IInv, TypeOK, Selected, Refused, Pending, TrackSelected,
     PlayerSelected, tracksVars, externalVars, engineVars

\* The two renderers after a selection.
LEMMA SelectRenders ==
  ASSUME IInv, NEW i \in Indices, SelectEmbedded(i), UNCHANGED browser, early => early'
  PROVE  NativeOK' /\ EngineOK' /\ RendererOK'
<1>1. CASE Selected(i)
  BY <1>1 DEF IInv, NativeOK, EngineOK, RendererOK, Selected, TrackSelected, PlayerSelected, engineVars
<1>2. CASE Refused(i)
  BY <1>2 DEF IInv, NativeOK, EngineOK, RendererOK, Refused, tracksVars, externalVars, engineVars
<1>3. CASE Pending(i)
  BY <1>3 DEF IInv, NativeOK, EngineOK, RendererOK, Pending, tracksVars
<1> QED
  BY <1>1, <1>2, <1>3, Outcomes

\* The default is selected before the viewer has asked, or the viewer asked early.
LEMMA SelectDefaultKeeps == IInv /\ SelectDefault => IInv'
<1> SUFFICES ASSUME IInv, SelectDefault PROVE IInv'
  OBVIOUS
<1>1. /\ UNCHANGED <<playerVars, ready, viewerVars>> /\ defaultSubtitleTimer' = "none"
      /\ defaultSubtitleSelected' = TRUE /\ ~defaultSubtitleSelected
  BY DEF SelectDefault, DefaultDue
<1>2. ~early => choice = None /\ ~subtitleActive /\ selecting = -1
  BY <1>1 DEF IInv, DefaultOK
<1>3. DefaultOK' /\ ChoiceOK'
  <2>1. ~early' => choice' = None
    BY <1>1, <1>2 DEF viewerVars
  <2> QED
    BY <1>1, <2>1, Kinds DEF DefaultOK, ChoiceOK
<1>4. CASE \/ UNCHANGED <<externalVars, tracksVars, pendingVars>>
           \/ /\ externalSubtitleURL' = FirstFile /\ subtitleState' = 1
              /\ UNCHANGED <<subtitledata, issubtitle, tracksVars, pendingVars>>
  <2>1. TypeOK'
    BY <1>1, <1>4, SubtitlesAssumption
       DEF IInv, TypeOK, playerVars, viewerVars, externalVars, tracksVars, pendingVars, engineVars
  <2>2. NativeOK' /\ EngineOK' /\ DownloadOK'
    BY <1>1, <1>4 DEF IInv, NativeOK, EngineOK, DownloadOK, playerVars, viewerVars, tracksVars, pendingVars, engineVars
  <2>3. RendererOK'
    BY <1>1, <1>2, <1>4 DEF IInv, RendererOK, playerVars, viewerVars, tracksVars, externalVars
  <2> QED
    BY <1>3, <2>1, <2>2, <2>3 DEF IInv
<1>5. CASE Embedded > 0 /\ SelectEmbedded(0)
  <2>1. 0 \in Indices
    BY <1>5, SubtitlesAssumption DEF Indices
  <2>2. NativeOK' /\ EngineOK' /\ RendererOK' /\ downloading' = None
    BY <1>1, <1>5, <2>1, SelectRenders, Outcomes DEF playerVars, viewerVars
  <2>3. TypeOK'
    BY <1>1, <1>5, <2>1, SelectTypes DEF IInv, TypeOK, playerVars, viewerVars
  <2> QED
    BY <1>3, <2>2, <2>3 DEF IInv, DownloadOK
<1> QED
  BY <1>4, <1>5 DEF SelectDefault

-------------------------------------------------------------------------------
(* The viewer. *)

\* What the viewer asks for after the default has been selected was not early.
LEMMA AskedInTime ==
  ASSUME NEW c, NEW m, Asks(c, m), ~early'
  PROVE  ~early /\ defaultSubtitleSelected /\ choice' = c
  BY DEF Asks

LEMMA ChooseEmbeddedKeeps ==
  ASSUME IInv, NEW i \in Indices, ChooseEmbedded(i)
  PROVE  IInv'
<1> DEFINE c == IF selecting' = i \/ (subtitleActive' /\ subtitleIndex' = i) THEN i ELSE None
<1>1. SelectEmbedded(i) /\ UNCHANGED <<playerVars, defaultSubtitleSelected, ready>>
  BY DEF ChooseEmbedded
<1>2. Asks(c, Mistakes(i)) /\ defaultSubtitleTimer' = Superseded(defaultSubtitleTimer)
  BY DEF ChooseEmbedded
<1>3. early => early'
  BY <1>2 DEF Asks
<1>4. c \in Indices \cup {None} /\ choice' = c
  BY <1>2 DEF Asks
<1>5. TypeOK'
  <2>1. early' \in BOOLEAN /\ mistaken' \in BOOLEAN
    BY <1>2 DEF Asks, IInv, TypeOK, Mistakes
  <2> HIDE DEF c
  <2> QED
    BY <1>1, <1>2, <1>4, <2>1, SelectTypes, SupersededTypes DEF IInv, TypeOK, playerVars
<1>6. NativeOK' /\ EngineOK' /\ RendererOK' /\ DownloadOK'
  BY <1>1, <1>3, SelectRenders, Outcomes DEF playerVars, DownloadOK
<1>7. DefaultOK'
  BY <1>1, <1>2 DEF DefaultOK, Asks
<1>8. ChoiceOK'
  <2>1. CASE Selected(i)
    <3>1. choice' = i
      BY <1>2, <2>1 DEF Selected, TrackSelected, Asks
    <3>2. ~mistaken' /\ browser => engineTrack = i /\ switching \in {-1, i}
      BY <1>2, <2>1 DEF Asks, Mistakes, Selected
    <3>3. ~mistaken' => TrackChosen'
      BY <1>1, <2>1, <3>1, <3>2, Outcomes
         DEF TrackChosen, Selected, TrackSelected, PlayerSelected, playerVars, engineVars
    <3> QED
      BY <3>1, <3>3, Kinds DEF ChoiceOK
  <2>2. CASE Refused(i)
    <3>1. selecting' # i /\ ~(subtitleActive' /\ subtitleIndex' = i)
      BY <2>2, Kinds DEF Refused, tracksVars
    <3>2. choice' = None
      BY <1>4, <3>1
    <3> QED
      BY <3>2, Kinds DEF ChoiceOK
  <2>3. CASE Pending(i)
    <3>1. choice' = i /\ selecting' = i /\ i # -1
      BY <1>2, <2>3, Kinds DEF Pending, Asks
    <3>2. TrackChosen'
      BY <1>1, <2>3, <3>1, Outcomes DEF TrackChosen, Pending
    <3> QED
      BY <3>1, <3>2, Kinds DEF ChoiceOK
  <2> QED
    BY <1>1, <2>1, <2>2, <2>3, Outcomes
<1> QED
  BY <1>5, <1>6, <1>7, <1>8 DEF IInv

LEMMA ChooseFileKeeps ==
  ASSUME IInv, NEW f \in Files, ChooseFile(f)
  PROVE  IInv'
<1> USE DEF playerVars, externalVars, tracksVars, engineVars
<1>1. /\ downloading' = f /\ choice' = f /\ selectingCurrent' = FALSE
      /\ UNCHANGED <<playerVars, defaultSubtitleSelected, externalVars, ready, tracksVars, selecting,
                     engineVars>>
      /\ early' = (early \/ ~defaultSubtitleSelected) /\ mistaken' = FALSE
      /\ defaultSubtitleTimer' = Superseded(defaultSubtitleTimer)
  BY DEF ChooseFile, Asks
<1>2. TypeOK'
  <2>1. PlayerTypes' /\ ExternalTypes' /\ TracksTypes'
    BY <1>1, TypeFrame DEF IInv
  <2>2. DefaultTypes' /\ PendingTypes'
    BY <1>1, SupersededTypes, TypeSplit DEF IInv, DefaultTypes, PendingTypes
  <2>3. ViewerTypes'
    BY <1>1, TypeSplit DEF IInv, ViewerTypes, DefaultTypes
  <2> QED
    BY <2>1, <2>2, <2>3, TypeJoin
<1>3. NativeOK' /\ EngineOK' /\ DownloadOK' /\ DefaultOK' /\ RendererOK'
  BY <1>1 DEF IInv, NativeOK, EngineOK, DownloadOK, DefaultOK, RendererOK
<1>4. ChoiceOK'
  <2>1. choice' \notin Indices /\ choice' # Hidden /\ downloading' # None
    BY <1>1, Kinds
  <2> QED
    BY <2>1 DEF ChoiceOK, FileChosen
<1> QED
  BY <1>2, <1>3, <1>4 DEF IInv

LEMMA HideKeeps == IInv /\ Hide => IInv'
<1> SUFFICES ASSUME IInv, Hide PROVE IInv'
  OBVIOUS
<1>1. /\ choice' = Hidden /\ downloading' = None /\ selecting' = -1 /\ selectingCurrent' = FALSE
      /\ subtitleState' = 0 /\ subtitleActive' = FALSE /\ subtitledata' = None
      /\ switching' = -1 /\ engineVisible' = FALSE /\ Overtaken
      /\ early' = (early \/ ~defaultSubtitleSelected) /\ mistaken' = FALSE
      /\ defaultSubtitleTimer' = Superseded(defaultSubtitleTimer)
      /\ UNCHANGED <<browser, isSuccess, isBuffering, shown, defaultSubtitleSelected,
                     externalSubtitleURL, issubtitle, ready, subtitleIndex, nativeSubtitleIndex>>
  BY DEF Hide, StopSubtitle, Asks, playerVars
<1>2. TypeOK'
  <2>1. PlayerTypes' /\ DefaultTypes'
    BY <1>1, SupersededTypes, TypeSplit DEF IInv, PlayerTypes, DefaultTypes
  <2>2. ExternalTypes' /\ TracksTypes' /\ PendingTypes'
    BY <1>1, TypeSplit, OvertakenTypes DEF IInv, ExternalTypes, TracksTypes, PendingTypes
  <2>3. ViewerTypes'
    BY <1>1, TypeSplit DEF IInv, ViewerTypes, DefaultTypes
  <2> QED
    BY <2>1, <2>2, <2>3, TypeJoin
<1>3. NativeOK' /\ EngineOK' /\ DownloadOK' /\ DefaultOK' /\ RendererOK'
  BY <1>1 DEF NativeOK, EngineOK, DownloadOK, DefaultOK, RendererOK
<1>4. ChoiceOK'
  BY <1>1, Kinds DEF ChoiceOK, HiddenChosen
<1> QED
  BY <1>2, <1>3, <1>4 DEF IInv

LEMMA ShowAgainKeeps == IInv /\ ShowAgain => IInv'
<1> SUFFICES ASSUME IInv, ShowAgain PROVE IInv'
  OBVIOUS
<1>1. CASE subtitleIndex >= 0
  <2>1. subtitleIndex \in Indices
    BY <1>1 DEF IInv, TypeOK
  <2> QED
    BY <1>1, <2>1, ChooseEmbeddedKeeps DEF ShowAgain
<1>2. CASE ~(subtitleIndex >= 0)
  <2>1. externalSubtitleURL \in Files
    BY <1>2 DEF IInv, TypeOK, ShowAgain, HasSelection
  <2> QED
    BY <1>2, <2>1, ChooseFileKeeps DEF ShowAgain
<1> QED
  BY <1>1, <1>2

-------------------------------------------------------------------------------
(* Answers. *)

LEMMA DownloadArrivesKeeps == IInv /\ DownloadArrives => IInv'
<1> SUFFICES ASSUME IInv, DownloadArrives PROVE IInv'
  OBVIOUS
<1>1. /\ downloading # None /\ choice = downloading
      /\ downloading' = None /\ selecting' = -1 /\ selectingCurrent' = FALSE
      /\ subtitleState' = 1 /\ subtitleActive' = FALSE /\ subtitledata' = downloading
      /\ externalSubtitleURL' = downloading /\ issubtitle' = TRUE /\ subtitleIndex' = -1
      /\ switching' = -1 /\ engineVisible' = FALSE /\ Overtaken
      /\ defaultSubtitleTimer' = Superseded(defaultSubtitleTimer)
      /\ UNCHANGED <<browser, isSuccess, isBuffering, shown, defaultSubtitleSelected, ready,
                     nativeSubtitleIndex, choice, early, mistaken>>
  BY DEF DownloadArrives, StopSubtitle, IInv, DownloadOK, playerVars, viewerVars
<1>2. downloading \in Files
  BY <1>1 DEF IInv, TypeOK
<1>3. TypeOK'
  <2>1. PlayerTypes' /\ ExternalTypes' /\ TracksTypes' /\ ViewerTypes'
    BY <1>1, <1>2, TypeSplit DEF IInv, PlayerTypes, ExternalTypes, TracksTypes, ViewerTypes
  <2>2. DefaultTypes' /\ PendingTypes'
    BY <1>1, SupersededTypes, OvertakenTypes, TypeSplit DEF IInv, DefaultTypes, PendingTypes
  <2> QED
    BY <2>1, <2>2, TypeJoin
<1>4. NativeOK' /\ EngineOK' /\ DownloadOK' /\ DefaultOK' /\ RendererOK'
  BY <1>1 DEF IInv, NativeOK, EngineOK, DownloadOK, DefaultOK, RendererOK
<1>5. ChoiceOK'
  <2>1. choice' \notin Indices /\ choice' # Hidden /\ subtitledata' # None
    BY <1>1, <1>2, Kinds
  <2>2. FileChosen'
    BY <1>1, <2>1 DEF FileChosen, ExternalShown
  <2> QED
    BY <2>1, <2>2 DEF ChoiceOK
<1> QED
  BY <1>3, <1>4, <1>5 DEF IInv

LEMMA DownloadFailsKeeps == IInv /\ DownloadFails => IInv'
<1> SUFFICES ASSUME IInv, DownloadFails PROVE IInv'
  OBVIOUS
<1> USE DEF playerVars, defaultVars, externalVars, tracksVars, engineVars
<1>1. /\ choice' = None /\ downloading' = None
      /\ UNCHANGED <<playerVars, defaultVars, externalVars, ready, tracksVars, selecting,
                     selectingCurrent, engineVars, early, mistaken>>
  BY DEF DownloadFails
<1>2. TypeOK'
  BY <1>1 DEF IInv, TypeOK
<1>3. NativeOK' /\ EngineOK' /\ DownloadOK' /\ DefaultOK' /\ RendererOK'
  BY <1>1 DEF IInv, NativeOK, EngineOK, DownloadOK, DefaultOK, RendererOK
<1>4. ChoiceOK'
  BY <1>1, Kinds DEF ChoiceOK
<1> QED
  BY <1>2, <1>3, <1>4 DEF IInv

\* In the browser only.  The player follows if it has not moved on; if it has, the
\* viewer asked for a file, and its download stops the track again.
LEMMA SelectionAnsweredKeeps == IInv /\ SelectionAnswered => IInv'
<1> SUFFICES ASSUME IInv, SelectionAnswered PROVE IInv'
  OBVIOUS
<1> USE DEF playerVars, defaultVars, viewerVars
<1>1. /\ selecting # -1 /\ TrackSelected(selecting) /\ selecting' = -1 /\ selectingCurrent' = FALSE
      /\ switching' = -1 /\ engineTrack' = selecting /\ engineVisible' = TRUE
      /\ IF selectingCurrent THEN PlayerSelected ELSE UNCHANGED externalVars
      /\ UNCHANGED <<playerVars, defaultVars, ready, downloading, viewerVars>>
  BY DEF SelectionAnswered
<1>2. selecting \in Indices /\ browser
  BY <1>1 DEF IInv, TypeOK, NativeOK
<1>3. TypeOK'
  <2>1. ExternalTypes'
    BY <1>1, TypeSplit DEF IInv, ExternalTypes, PlayerSelected, externalVars
  <2>2. TracksTypes'
    BY <1>1, <1>2 DEF TracksTypes, TrackSelected
  <2>3. PendingTypes'
    BY <1>1, <1>2, TypeSplit DEF IInv, PendingTypes
  <2>4. PlayerTypes' /\ DefaultTypes' /\ ViewerTypes'
    BY <1>1, TypeSplit, TypeFrame DEF IInv, ViewerTypes
  <2> QED
    BY <2>1, <2>2, <2>3, <2>4, TypeJoin
<1>4. NativeOK' /\ EngineOK' /\ DownloadOK' /\ RendererOK'
  BY <1>1, <1>2 DEF IInv, NativeOK, EngineOK, DownloadOK, RendererOK
<1>5. DefaultOK'
  BY <1>1 DEF IInv, DefaultOK
<1>6. ChoiceOK'
  <2> SUFFICES ASSUME ~early, ~mistaken PROVE ChoiceOK'
    BY <1>1 DEF ChoiceOK
  <2>1. CASE choice \in Indices
    <3>1. downloading = None /\ selecting = choice /\ selectingCurrent
      BY <1>1, <2>1 DEF IInv, ChoiceOK, TrackChosen
    <3>2. TrackChosen'
      BY <1>1, <3>1 DEF TrackChosen, TrackSelected, PlayerSelected
    <3> QED
      BY <1>1, <2>1, <3>2, Kinds DEF ChoiceOK
  <2>2. CASE choice \in Files
    <3>1. downloading' # None
      BY <1>1, <2>2 DEF IInv, ChoiceOK, FileChosen
    <3> QED
      BY <1>1, <2>2, <3>1, Kinds DEF ChoiceOK, FileChosen
  <2>3. CASE choice \notin Indices /\ choice \notin Files
    <3>1. choice # Hidden
      BY <1>1, <2>3 DEF IInv, ChoiceOK, HiddenChosen
    <3> QED
      BY <1>1, <2>3, <3>1 DEF ChoiceOK
  <2> QED
    BY <2>1, <2>2, <2>3
<1> QED
  BY <1>3, <1>4, <1>5, <1>6 DEF IInv

LEMMA SelectionFailsKeeps == IInv /\ SelectionFails => IInv'
<1> SUFFICES ASSUME IInv, SelectionFails PROVE IInv'
  OBVIOUS
<1> USE DEF playerVars, defaultVars, externalVars, tracksVars
<1>1. /\ selecting # -1 /\ selecting' = -1 /\ selectingCurrent' = FALSE
      /\ switching' = -1 /\ Overtaken
      /\ choice' = IF choice = selecting THEN None ELSE choice
      /\ UNCHANGED <<playerVars, defaultVars, externalVars, ready, tracksVars, downloading,
                     engineVisible, early, mistaken>>
  BY DEF SelectionFails
<1>2. selecting \in Indices /\ browser
  BY <1>1 DEF IInv, TypeOK, NativeOK
<1>3. TypeOK'
  <2>1. PlayerTypes' /\ DefaultTypes' /\ ExternalTypes' /\ TracksTypes'
    BY <1>1, TypeFrame DEF IInv
  <2>2. PendingTypes' /\ ViewerTypes'
    BY <1>1, TypeSplit, OvertakenTypes DEF IInv, PendingTypes, ViewerTypes
  <2> QED
    BY <2>1, <2>2, TypeJoin
<1>4. NativeOK' /\ EngineOK' /\ DefaultOK' /\ RendererOK'
  BY <1>1, <1>2 DEF IInv, NativeOK, EngineOK, DefaultOK, RendererOK
<1>5. DownloadOK'
  <2>1. downloading # None => choice # selecting
    BY <1>2, Kinds DEF IInv, TypeOK, DownloadOK
  <2> QED
    BY <1>1, <2>1 DEF IInv, DownloadOK
<1>6. ChoiceOK'
  <2>1. CASE choice = selecting
    BY <1>1, <2>1, Kinds DEF ChoiceOK
  <2>2. CASE choice # selecting
    <3>1. ~early /\ ~mistaken => choice \notin Indices /\ choice # Hidden /\ (choice \in Files => downloading # None)
      BY <1>1, <2>2 DEF IInv, ChoiceOK, TrackChosen, FileChosen, HiddenChosen
    <3> QED
      BY <1>1, <2>2, <3>1 DEF ChoiceOK, FileChosen
  <2> QED
    BY <2>1, <2>2
<1> QED
  BY <1>3, <1>4, <1>5, <1>6 DEF IInv

\* In the browser, a switch nobody waits for: the viewer has chosen a file or nothing,
\* or the same track, or has been mistaken.
LEMMA SwitchEndsKeeps == IInv /\ SwitchEnds => IInv'
<1> SUFFICES ASSUME IInv, SwitchEnds PROVE IInv'
  OBVIOUS
<1> USE DEF playerVars, defaultVars, externalVars, tracksVars, viewerVars
<1>1. /\ switching # -1 /\ selecting = -1 /\ switching' = -1
      /\ engineTrack' \in {engineTrack, switching}
      /\ engineVisible' = TRUE \/ engineVisible' = engineVisible
      /\ UNCHANGED <<playerVars, defaultVars, externalVars, ready, tracksVars, downloading,
                     selecting, selectingCurrent, viewerVars>>
  BY DEF SwitchEnds, Overtaken
<1>2. TypeOK'
  <2>1. PlayerTypes' /\ DefaultTypes' /\ ExternalTypes' /\ TracksTypes'
    BY <1>1, TypeFrame DEF IInv
  <2>2. PendingTypes' /\ ViewerTypes'
    BY <1>1, TypeSplit DEF IInv, PendingTypes, ViewerTypes
  <2> QED
    BY <2>1, <2>2, TypeJoin
<1>3. NativeOK' /\ EngineOK' /\ DownloadOK' /\ DefaultOK' /\ RendererOK'
  BY <1>1 DEF IInv, NativeOK, EngineOK, DownloadOK, DefaultOK, RendererOK
<1>4. ChoiceOK'
  <2> SUFFICES ASSUME ~early, ~mistaken PROVE ChoiceOK'
    BY <1>1 DEF ChoiceOK
  <2>1. choice \in Indices => TrackChosen'
    BY <1>1 DEF IInv, ChoiceOK, TrackChosen
  <2>2. choice \in Files => FileChosen'
    BY <1>1 DEF IInv, ChoiceOK, FileChosen, ExternalShown
  <2>3. choice = Hidden => HiddenChosen'
    BY <1>1 DEF IInv, ChoiceOK, HiddenChosen
  <2> QED
    BY <1>1, <2>1, <2>2, <2>3 DEF ChoiceOK
<1> QED
  BY <1>2, <1>3, <1>4 DEF IInv

-------------------------------------------------------------------------------
(* The theorems. *)

LEMMA InitInv == Init => IInv
<1> SUFFICES ASSUME Init PROVE IInv
  OBVIOUS
<1>1. TypeOK
  BY PreloadedTypes DEF Init, TypeOK
<1>2. NativeOK /\ EngineOK /\ DownloadOK /\ DefaultOK /\ RendererOK
  BY DEF Init, NativeOK, EngineOK, DownloadOK, DefaultOK, RendererOK
<1>3. ChoiceOK
  BY NothingChosen DEF Init
<1> QED
  BY <1>1, <1>2, <1>3 DEF IInv

\* One case per action.
LEMMA StepInv == IInv /\ [Next]_vars => IInv'
<1> SUFFICES ASSUME IInv, [Next]_vars PROVE IInv'
  OBVIOUS
<1>1. CASE UNCHANGED vars
  <2>1. UNCHANGED <<playerVars, defaultVars, externalVars, ready, tracksVars, pendingVars, viewerVars>>
    BY <1>1 DEF vars
  <2>2. TypeOK' /\ UNCHANGED ChoiceVars /\ defaultSubtitleSelected' = defaultSubtitleSelected
    BY <2>1 DEF IInv, TypeOK, ChoiceVars, playerVars, defaultVars, externalVars, tracksVars,
                pendingVars, viewerVars, engineVars
  <2> QED
    BY <2>2, ChoiceFrame
<1>2. CASE Show \/ Close
  BY <1>2, ShowKeeps, CloseKeeps
<1>3. CASE BufferingStarts \/ BufferingCompletes \/ PlaybackTick \/ DefaultSuperseded \/ DefaultNotDue
  BY <1>3, CallbacksKeep
<1>4. CASE SelectDefault
  BY <1>4, SelectDefaultKeeps
<1>5. ASSUME NEW i \in Indices, ChooseEmbedded(i) PROVE IInv'
  BY <1>5, ChooseEmbeddedKeeps
<1>6. ASSUME NEW f \in Files, ChooseFile(f) PROVE IInv'
  BY <1>6, ChooseFileKeeps
<1>7. CASE Hide \/ ShowAgain
  BY <1>7, HideKeeps, ShowAgainKeeps
<1>8. CASE DownloadArrives \/ DownloadFails
  BY <1>8, DownloadArrivesKeeps, DownloadFailsKeeps
<1>9. CASE SelectionAnswered \/ SelectionFails
  BY <1>9, SelectionAnsweredKeeps, SelectionFailsKeeps
<1>10. CASE SwitchEnds
  BY <1>10, SwitchEndsKeeps
<1> QED
  BY <1>1, <1>2, <1>3, <1>4, <1>5, <1>6, <1>7, <1>8, <1>9, <1>10 DEF Next

\* The inductive invariant holds.
THEOREM Invariance == Spec => []IInv
<1>1. Init => IInv
  BY InitInv
<1>2. IInv /\ [Next]_vars => IInv'
  BY StepInv
<1> QED
  BY <1>1, <1>2, PTL DEF Spec

\* Whatever was requested before and however late it is answered, what the viewer
\* asked for last is shown in the end (PlayerPage.js, playback-tracks.js and the
\* browser's player), if the default had been selected when they first asked and they
\* did not, in the browser, ask for the widget's current track while the player read
\* another or was about to.
THEOREM LastChoiceWins == Spec => []ChoiceHonoured
<1>1. IInv => ChoiceHonoured
  <2> SUFFICES ASSUME IInv, Settled, ~early, ~mistaken PROVE ChoiceHonoured
    BY DEF ChoiceHonoured
  <2>1. choice \in Indices => ShownTrack = choice /\ subtitleIndex = choice /\ ~ExternalShown
    BY DEF IInv, NativeOK, EngineOK, ChoiceOK, TrackChosen, Settled, ShownTrack, ExternalShown
  <2>2. choice \in Files => ExternalShown /\ subtitledata = choice /\ ShownTrack = -1
    BY DEF IInv, ChoiceOK, FileChosen, Settled, ShownTrack
  <2>3. choice = Hidden => ~ExternalShown /\ ShownTrack = -1
    BY DEF IInv, ChoiceOK, HiddenChosen, ShownTrack, ExternalShown
  <2> QED
    BY <2>1, <2>2, <2>3 DEF ChoiceHonoured
<1> QED
  BY <1>1, Invariance, PTL

\* On a television the two renderers never write to the subtitle element together,
\* if the default had been selected when the viewer first asked.
THEOREM RenderersExclude == Spec => []OneRenderer
<1>1. IInv => OneRenderer
  BY DEF IInv, RendererOK, OneRenderer, EmbeddedShown, ExternalShown
<1> QED
  BY <1>1, Invariance, PTL
===============================================================================

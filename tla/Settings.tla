------------------------------ MODULE Settings ------------------------------
(***************************************************************************)
(* The settings of the widget (Main.js, SettingsPage.js, DataSelect.js,    *)
(* SubtitleStyle.js): saveSettings in memory, which the program goes by,   *)
(* and localData, which outlives it.                                       *)
(*                                                                         *)
(* The keys are taken together in two groups, those the settings page      *)
(* changes and those of the style of the subtitles, which the player       *)
(* changes.  A value is the default or the user's own.                     *)
(***************************************************************************)

VARIABLES
  scene,         \* which scene has the focus
  saveSettings, localData,
  wanted,        \* auxiliary: what the user has chosen and kept
  defaulted      \* auxiliary: a session has run on the defaults in spite of localData

settingsVars == <<saveSettings, localData, wanted, defaulted>>

Values == {"default", "own"}
Version == "this"     \* of the program
NoData == [version |-> "none"]

Defaults == [menu |-> "default", style |-> "default", version |-> Version]

\* What a session before has left, perhaps of another version.
SettingsInit ==
  /\ wanted \in [menu : Values, style : Values]
  /\ localData \in {NoData} \cup
        {[menu |-> wanted.menu, style |-> wanted.style, version |-> v] : v \in {"other", Version}}
  /\ localData = NoData => wanted = [menu |-> "default", style |-> "default"]
  /\ saveSettings = NoData
  /\ defaulted = FALSE

\* CreateOrLoadTemp.  Without data, SaveDefaultTemp stores the defaults; with those of
\* another version it stores what was stored, and leaves the defaults in memory.
CreateOrLoadTemp ==
    /\ \/ /\ localData = NoData
          /\ saveSettings' = Defaults
          /\ localData' = Defaults
          /\ UNCHANGED defaulted
       \/ /\ localData.version \notin {"none", Version}
          /\ saveSettings' = Defaults
          /\ localData' = [localData EXCEPT !.version = Version]
          /\ defaulted' = (defaulted \/ localData' # Defaults)
       \/ /\ localData.version = Version
          /\ saveSettings' = localData
          /\ UNCHANGED <<localData, defaulted>>
    /\ UNCHANGED wanted

\* ENTER on the settings page or in the list of one of its settings.
Choose ==
    /\ scene = "SettingsPage"
    /\ \E v \in Values : saveSettings' = [saveSettings EXCEPT !.menu = v]
    /\ UNCHANGED <<scene, localData, wanted, defaulted>>

SaveTemp ==
    /\ localData' = saveSettings
    /\ wanted' = [menu |-> saveSettings.menu, style |-> wanted.style]
    /\ UNCHANGED <<saveSettings, defaulted>>

RestoreDefaultTemp ==
    /\ saveSettings' = Defaults /\ localData' = Defaults
    /\ wanted' = [menu |-> "default", style |-> "default"]
    /\ UNCHANGED defaulted

\* SubtitleStyle is left: what it shows, changed or not, is kept.
KeepStyle ==
    /\ \E v \in Values :
          /\ saveSettings' = [saveSettings EXCEPT !.style = v]
          /\ localData' = [localData EXCEPT !.style = v]
          /\ wanted' = IF v = saveSettings.style THEN wanted ELSE [wanted EXCEPT !.style = v]
    /\ UNCHANGED defaulted

-----------------------------------------------------------------------------
\* What the user has chosen in the settings stays stored, over an upgrade too.  The program
\* goes by what is stored, and the style chosen stays stored as well, as long as no session
\* has run on the defaults in spite of other data: the first one after an upgrade does, and
\* may keep a style nobody has chosen (CreateOrLoadTemp, SaveDefaultTemp,
\* SubtitleStyle.handleHide).
SettingsKept ==
    scene # "SettingsPage" =>
        /\ localData.menu = wanted.menu
        /\ ~defaulted => saveSettings = localData /\ localData.style = wanted.style
=============================================================================

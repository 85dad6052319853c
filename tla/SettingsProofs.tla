--------------------------- MODULE SettingsProofs ---------------------------
(***************************************************************************)
(* The configuration file is whole and is the configuration in use,        *)
(* whatever the configurations are, what Validate accepts and what the     *)
(* file was: first for the store alone, with a Save of any configuration,  *)
(* valid or not, then for the program, since every step of the window, the *)
(* tray and the update check is, for the file, a step of the store or      *)
(* none.  Then the preview follows its box, and the list of devices shows  *)
(* and chooses what the monitor has and watches.                           *)
(***************************************************************************)
EXTENDS Settings, TLAPS, SequenceTheorems, WellFoundedInduction

-----------------------------------------------------------------------------
(* What each stage of a save has achieved: from "created" on cfg was found *)
(* valid, from "encoded" on it is in the temporary file, and "synced" says *)
(* that this is on the disk.                                               *)
SaveProgress ==
    /\ saving \in {"none", "begun", "created", "encoded", "synced"}
    /\ saving # "none" => running
    /\ saving \in {"created", "encoded", "synced"} => cfg \in Valid
    /\ saving \in {"encoded", "synced"} => temp = Written(cfg)
    /\ saving = "synced" => "temp" \notin unsynced

(* Only the temporary file is ever unsynced, because the name is given to  *)
(* a file that is.                                                         *)
FileIsSynced == "file" \notin unsynced

StoreInv == SaveProgress /\ FileIsSynced /\ FileIsWhole /\ FileIsInUse

-----------------------------------------------------------------------------
(* parseConfig reads back what saveConfigToFile has written.               *)
LEMMA ReadsBack == ASSUME NEW c \in Valid PROVE Loaded(Written(c)) = c
<1>1. c \in Config /\ Written(c) \in Contents
    BY ConfigStoreAssumption DEF Contents
<1>2. Written(c) \notin {Absent, Unreadable}
    BY <1>1, ConfigStoreAssumption
<1>3. Written(c).v1 = FALSE /\ Written(c).values = c
    BY DEF Written
<1>4. /\ c = [f \in DOMAIN Default |-> c[f]]
      /\ \A f \in DOMAIN Default : c[f] # Bad
    BY <1>1, ConfigStoreAssumption
<1>5. DOMAIN c = DOMAIN Default
    BY <1>4
<1>6. ~HasBad(Written(c)) /\ \A f \in DOMAIN Default : Taken(Written(c), f)
    BY <1>3, <1>4, <1>5 DEF HasBad, Taken
<1>7. Parsed(Written(c)) = [f \in DOMAIN Default |-> c[f]]
    BY <1>3, <1>6 DEF Parsed
<1> QED BY <1>2, <1>4, <1>7 DEF Loaded

LEMMA LoadedIsValid == \A content : Loaded(content) \in Valid
  BY ConfigStoreAssumption DEF Loaded

(* What a launch takes is valid, whether it could read the file or not.    *)
LEMMA LaunchIsValid ==
    ASSUME Launch PROVE launched' \in [cfg : Valid, read : BOOLEAN]
<1>1. Default \in Valid /\ Loaded(file) \in Valid
    BY LoadedIsValid, ConfigStoreAssumption
<1>2. CASE launched' = [cfg |-> Loaded(file), read |-> TRUE]
    BY <1>1, <1>2
<1>3. CASE launched' = [cfg |-> Default, read |-> FALSE]
    BY <1>1, <1>3
<1> QED BY <1>2, <1>3, Zenon DEF Launch

LEMMA InitStoreInv == StoreInit => StoreInv
  BY DEF StoreInit, StoreInv, SaveProgress, FileIsSynced, FileIsWhole, FileIsInUse

-----------------------------------------------------------------------------
LEMMA StepStoreInv == StoreInv /\ [StoreNext]_storeVars => StoreInv'
<1> SUFFICES ASSUME StoreInv, [StoreNext]_storeVars PROVE StoreInv'
    OBVIOUS
<1> USE DEF StoreInv, SaveProgress, FileIsSynced, FileIsWhole, FileIsInUse, disk, process
<1>1. CASE Launch \/ RefuseInstance
    BY <1>1 DEF Launch, RefuseInstance
<1>2. CASE BecomeInstance
  <2>1. /\ UNCHANGED <<file, temp, unsynced, saving>>
        /\ saving = "none" => Loaded(file) = cfg' \/ outcome' \in {"outdated", "unread"}
      BY <1>2 DEF BecomeInstance
  <2>2. saving = "none"
      BY <1>2 DEF BecomeInstance
  <2> QED BY <2>1, <2>2
<1>3. ASSUME NEW c, Save(c) PROVE StoreInv'
    BY <1>3 DEF Save
<1>4. CASE CreateTemp
    BY <1>4 DEF CreateTemp
<1>5. CASE Encode
    BY <1>5 DEF Encode
<1>6. CASE SyncAndClose
    BY <1>6 DEF SyncAndClose
<1>7. CASE Rename
  <2>1. /\ file' = Written(cfg) /\ cfg \in Valid /\ unsynced' = {}
        /\ saving' = "none" /\ cfg' = cfg
      BY <1>7 DEF Rename
  <2>2. Loaded(file') = cfg'
      BY <2>1, ReadsBack
  <2>3. FileIsInUse'
      BY <2>2
  <2>4. FileIsWhole' /\ SaveProgress' /\ FileIsSynced'
      BY <2>1
  <2> QED BY <2>3, <2>4
<1>8. CASE SaveFails
    BY <1>8 DEF SaveFails
<1>9. CASE EndProcess
    BY <1>9 DEF EndProcess
<1>10. CASE PowerFails
  <2>1. /\ file' = file /\ unsynced' = {}
        /\ running' = FALSE /\ saving' = "none"
      BY <1>10 DEF PowerFails, Spoilt
  <2> QED BY <2>1
<1>11. CASE UNCHANGED storeVars
    BY <1>11 DEF storeVars
<1> QED
    BY <1>1, <1>2, <1>3, <1>4, <1>5, <1>6, <1>7, <1>8, <1>9, <1>10, <1>11
    DEF StoreNext, SaveStep

-----------------------------------------------------------------------------
LEMMA StepStoreType == StoreTypeOK /\ [StoreNext]_storeVars => StoreTypeOK'
<1> SUFFICES ASSUME StoreTypeOK, [StoreNext]_storeVars PROVE StoreTypeOK'
    OBVIOUS
<1> USE DEF StoreTypeOK, disk, process
<1>1. CASE Launch
  <2>1. launched' \in Launched
    <3>1. launched' \in [cfg : Valid, read : BOOLEAN] /\ Valid \subseteq Config
        BY <1>1, LaunchIsValid, ConfigStoreAssumption
    <3> QED BY <3>1 DEF Launched
  <2> QED BY <1>1, <2>1 DEF Launch
<1>2. CASE BecomeInstance
  <2>1. running' \in BOOLEAN
      BY <1>2, Zenon DEF BecomeInstance
  <2> QED BY <1>2, <2>1 DEF BecomeInstance, Launched
<1>3. CASE RefuseInstance
    BY <1>3 DEF RefuseInstance
<1>4. ASSUME NEW c \in Config, Save(c) PROVE StoreTypeOK'
    BY <1>4 DEF Save
<1>5. CASE CreateTemp
    BY <1>5 DEF CreateTemp
<1>6. CASE Encode
    BY <1>6 DEF Encode, Contents
<1>7. CASE SyncAndClose \/ Rename \/ SaveFails
    BY <1>7 DEF SyncAndClose, Rename, SaveFails
<1>8. CASE EndProcess
  <2>1. running' \in BOOLEAN
      BY <1>8, Zenon DEF EndProcess
  <2> QED BY <1>8, <2>1, ConfigStoreAssumption DEF EndProcess
<1>9. CASE PowerFails
  <2>1. running' \in BOOLEAN
      BY <1>9, Zenon DEF PowerFails
  <2> QED BY <1>9, <2>1, ConfigStoreAssumption DEF PowerFails, Spoilt
<1>10. CASE UNCHANGED storeVars
    BY <1>10 DEF storeVars
<1> QED
    BY <1>1, <1>2, <1>3, <1>4, <1>5, <1>6, <1>7, <1>8, <1>9, <1>10
    DEF StoreNext, SaveStep

(* The type invariant of the store.                                        *)
THEOREM StoreTypeCorrect == StoreSpec => []StoreTypeOK
<1>1. StoreInit => StoreTypeOK
    BY ConfigStoreAssumption DEF StoreInit, StoreTypeOK, Contents
<1> QED BY <1>1, StepStoreType, PTL DEF StoreSpec

(* saveConfigToFile leaves a complete configuration or what was there,     *)
(* wherever it is interrupted.                                             *)
THEOREM SavesAreAtomic == StoreSpec => []FileIsWhole
<1>1. StoreInv => FileIsWhole
    BY DEF StoreInv
<1> QED BY <1>1, InitStoreInv, StepStoreInv, PTL DEF StoreSpec

(* What is loaded after a restart is what was in use, unless the last save *)
(* failed or another process had saved since this one loaded.              *)
THEOREM SavesAreFound == StoreSpec => []FileIsInUse
<1>1. StoreInv => FileIsInUse
    BY DEF StoreInv
<1> QED BY <1>1, InitStoreInv, StepStoreInv, PTL DEF StoreSpec

-----------------------------------------------------------------------------
(* The program implements the store.  What its handlers save is a          *)
(* configuration, because the widgets show values of its fields.           *)
FormTyped(f) == /\ DOMAIN f = FormFields
                /\ \A x \in FormFields : f[x] \in Values[x] \/ (x = "port" /\ f[x] = NotANumber)
FormOK == FormTyped(form)

LEMMA ConfigFields ==
    /\ DOMAIN Default = {"port", "theme", "preview", "autoStart", "device"}
    /\ \A f \in DOMAIN Default : Values[f] = {c[f] : c \in Config}
    /\ \A c \in Config : /\ c = [f \in DOMAIN Default |-> c[f]]
                         /\ DOMAIN c = DOMAIN Default
                         /\ \A f \in DOMAIN Default : c[f] \in Values[f]
    /\ Default \in Config
<1>1. DOMAIN Default = {"port", "theme", "preview", "autoStart", "device"}
    BY SettingsAssumption DEF FormFields
<1>2. \A f \in DOMAIN Default : Values[f] = {c[f] : c \in Config}
    BY DEF Values
<1>3. ASSUME NEW c \in Config
      PROVE  c = [f \in DOMAIN Default |-> c[f]] /\ DOMAIN c = DOMAIN Default
  <2>1. c = [f \in DOMAIN Default |-> c[f]]
      BY ConfigStoreAssumption
  <2>2. DOMAIN [f \in DOMAIN Default |-> c[f]] = DOMAIN Default
      OBVIOUS
  <2> QED BY <2>1, <2>2
<1>4. Default \in Config
    BY ConfigStoreAssumption
<1> QED BY <1>1, <1>2, <1>3, <1>4

(* A field of a configuration is set, or those of the form are.            *)
LEMMA SetField ==
    ASSUME NEW c \in Config, NEW f \in DOMAIN Default, NEW v \in Values[f]
    PROVE  [c EXCEPT ![f] = v] \in Config
  BY SettingsAssumption

LEMMA SyncedIsConfig ==
    ASSUME cfg \in Config, NEW shownForm, FormTyped(shownForm)
    PROVE  Synced(shownForm) \in Config
<1> DEFINE port == IF shownForm.port = NotANumber THEN cfg.port ELSE shownForm.port
           c1 == [cfg EXCEPT !["port"] = port]
           c2 == [c1 EXCEPT !["theme"] = shownForm["theme"]]
           c3 == [c2 EXCEPT !["preview"] = shownForm["preview"]]
           c4 == [c3 EXCEPT !["autoStart"] = shownForm["autoStart"]]
<1>1. /\ port \in Values["port"] /\ shownForm["theme"] \in Values["theme"]
      /\ shownForm["preview"] \in Values["preview"]
      /\ shownForm["autoStart"] \in Values["autoStart"]
    BY ConfigFields DEF FormFields, FormTyped
<1>2. c1 \in Config
    BY <1>1, ConfigFields, SetField
<1>3. c2 \in Config
    BY <1>1, <1>2, ConfigFields, SetField
<1>4. c3 \in Config
    BY <1>1, <1>3, ConfigFields, SetField
<1>5. c4 \in Config
    BY <1>1, <1>4, ConfigFields, SetField
<1>6. DOMAIN cfg = {"port", "theme", "preview", "autoStart", "device"}
    BY ConfigFields
<1>7. Synced(shownForm) = c4
    BY <1>6 DEF Synced, FormFields
<1> QED BY <1>5, <1>7

LEMMA FormForOK ==
    ASSUME cfg \in Config, NEW theme \in Values["theme"]
    PROVE  FormTyped(FormFor(theme))
  BY ConfigFields DEF FormFor, FormFields, FormTyped

LEMMA PreselectedOK == cfg \in Config => Preselected \in Values["theme"] /\ NoTheme \in Values["theme"]
<1>1. Themes # <<>> => Themes[1] \in Values["theme"]
  <2>1. Themes # <<>> => Len(Themes) # 0 /\ Len(Themes) \in Nat
      BY SettingsAssumption, EmptySeq, LenProperties
  <2>2. \A i \in 1 .. Len(Themes) : Themes[i] \in Values["theme"]
      BY SettingsAssumption, ElementOfSeq
  <2> QED BY <2>1, <2>2
<1>2. cfg \in Config => cfg["theme"] \in Values["theme"]
    BY ConfigFields
<1> QED BY <1>1, <1>2, SettingsAssumption DEF Preselected

LEMMA ThemeOK == \A theme \in Range(Themes) : theme \in Values["theme"]
<1>1. \A i \in 1 .. Len(Themes) : Themes[i] \in Values["theme"]
    BY SettingsAssumption, ElementOfSeq
<1>2. Range(Themes) = {Themes[i] : i \in 1 .. Len(Themes)}
    BY SettingsAssumption, RangeEquality
<1> QED BY <1>1, <1>2

(* A box that is clicked shows the other value.                            *)
LEMMA ClickedOK ==
    ASSUME FormOK, NEW box \in Clickable
    PROVE  FormTyped([form EXCEPT ![box] = ~@])
<1>1. box \in {"preview", "autoStart"} /\ Values[box] = BOOLEAN
    BY SettingsAssumption
<1>2. (~form[box]) \in BOOLEAN
    BY Zenon
<1> DEFINE value == ~form[box]
<1>3. value \in Values[box]
    BY <1>1, <1>2
<1> HIDE DEF value
<1>4. FormTyped([form EXCEPT ![box] = value])
    BY <1>1, <1>3 DEF FormOK, FormTyped, FormFields
<1>5. [form EXCEPT ![box] = ~@] = [form EXCEPT ![box] = value]
    BY DEF value
<1> QED BY <1>4, <1>5

(* What a handler saves, then what the widgets show after it.              *)
ProgramInv == StoreTypeOK /\ FormOK /\ sessions \in Lists \cup {<<>>}

LEMMA SavedIsConfig ==
    ASSUME ProgramInv
    PROVE  /\ Synced(form) \in Config
           /\ Synced(FormFor(Preselected)) \in Config
           /\ \A theme \in Range(Themes) : [cfg EXCEPT !.theme = theme] \in Config
           /\ \A box \in Clickable : Synced([form EXCEPT ![box] = ~@]) \in Config
           /\ \A i \in DOMAIN sessions : [cfg EXCEPT !.device = sessions[i]] \in Config
<1>1. cfg \in Config /\ FormOK
    BY DEF ProgramInv, StoreTypeOK
<1>2. Synced(form) \in Config
    BY <1>1, SyncedIsConfig DEF FormOK
<1>3. Synced(FormFor(Preselected)) \in Config
    BY <1>1, PreselectedOK, FormForOK, SyncedIsConfig
<1>4. ASSUME NEW theme \in Range(Themes) PROVE [cfg EXCEPT !.theme = theme] \in Config
    BY <1>1, ThemeOK, ConfigFields, SetField
<1>5. ASSUME NEW box \in Clickable PROVE Synced([form EXCEPT ![box] = ~@]) \in Config
  <2> DEFINE clicked == [form EXCEPT ![box] = ~@]
  <2>1. FormTyped(clicked)
      BY <1>1, ClickedOK
  <2> QED BY <1>1, <2>1, SyncedIsConfig
<1>6. ASSUME NEW i \in DOMAIN sessions PROVE [cfg EXCEPT !.device = sessions[i]] \in Config
  <2>1. sessions \in Seq(Apps)
      BY SettingsAssumption, EmptySeq DEF ProgramInv
  <2>2. sessions[i] \in Apps
      BY <2>1, ElementOfSeq, LenProperties
  <2>3. sessions[i] \in Values["device"]
      BY <2>2, SettingsAssumption
  <2> QED BY <1>1, <2>3, ConfigFields, SetField
<1> QED BY <1>2, <1>3, <1>4, <1>5, <1>6

LEMMA StepIsStoreStep == ProgramInv /\ [Next]_vars => [StoreNext]_storeVars
<1> SUFFICES ASSUME ProgramInv, [Next]_vars PROVE [StoreNext]_storeVars
    OBVIOUS
<1> USE DEF StoreNext
<1>1. CASE OtherLaunch \/ Start
    BY <1>1 DEF OtherLaunch, Start
<1>2. CASE CreateWindow
    BY <1>2, SavedIsConfig DEF CreateWindow
<1>3. CASE CreateBareWindow
    BY <1>3 DEF CreateBareWindow
<1>4. ASSUME NEW text \in PortTexts, TypePort(text) PROVE UNCHANGED storeVars
    BY <1>4 DEF TypePort
<1>5. ASSUME NEW theme \in Range(Themes), ChooseTheme(theme)
      PROVE  [StoreNext]_storeVars
    BY <1>5, SavedIsConfig DEF ChooseTheme, SetTheme
<1>6. ASSUME NEW box \in Clickable, ClickBox(box) PROVE StoreNext
    BY <1>6, SavedIsConfig DEF ClickBox
<1>7. ASSUME NEW i, SelectSession(i) PROVE [StoreNext]_storeVars
    BY <1>7, SavedIsConfig DEF SelectSession, Index
<1>8. CASE ClickStart \/ ChooseStartStop
    BY <1>8, SavedIsConfig DEF ClickStart, ChooseStartStop, StartStop, StopWebServer
<1>9. CASE (\E i \in DOMAIN shown : ChooseDevice(i)) \/ \E i : ChooseTrayDevice(i)
    BY <1>7, <1>9 DEF ChooseDevice, ChooseTrayDevice
<1>10. CASE ClosePreview \/ OpenMenu \/ ChooseNothing
    BY <1>10 DEF ClosePreview, OpenMenu, ChooseNothing
<1>11. CASE ContinueSave
    BY <1>11 DEF ContinueSave
<1>12. CASE Resume
    BY <1>12 DEF Resume
<1>13. CASE MonitorSelects
    BY <1>13 DEF MonitorSelects
<1>14. ASSUME NEW apps \in Lists, MonitorEnumerates(apps) PROVE UNCHANGED storeVars
    BY <1>14 DEF MonitorEnumerates
<1>15. CASE HandleSessionsChanged \/ HandleDeviceChanged
    BY <1>15 DEF HandleSessionsChanged, HandleDeviceChanged
<1>16. CASE CheckForUpdate
    BY <1>16 DEF CheckForUpdate
<1>17. CASE End
    BY <1>17 DEF End
<1>18. CASE UNCHANGED vars
    BY <1>18 DEF vars
<1> QED
    BY <1>1, <1>2, <1>3, <1>4, <1>5, <1>6, <1>8, <1>9, <1>10, <1>11, <1>12,
       <1>13, <1>14, <1>15, <1>16, <1>17, <1>18
    DEF Next, User

LEMMA StepFormOK == ProgramInv /\ [Next]_vars => FormOK'
<1> SUFFICES ASSUME ProgramInv, [Next]_vars PROVE FormOK'
    OBVIOUS
<1>1. cfg \in Config /\ FormOK
    BY DEF ProgramInv, StoreTypeOK
<1>2. UNCHANGED form => FormOK'
    BY <1>1 DEF FormOK, FormTyped
<1>3. NoProcess => FormOK'
  <2>1. \A f \in FormFields : NoForm[f] \in Values[f]
      BY ConfigFields DEF NoForm, FormFields
  <2> QED BY <2>1 DEF NoProcess, NoForm, FormOK, FormTyped
<1>4. CASE CreateWindow \/ CreateBareWindow
    BY <1>1, <1>4, PreselectedOK, FormForOK DEF CreateWindow, CreateBareWindow, FormOK, FormTyped
<1>5. ASSUME NEW text \in PortTexts, TypePort(text) PROVE FormOK'
  <2>1. text \in Values["port"] \/ text = NotANumber
      BY SettingsAssumption
  <2>2. form' = [form EXCEPT !["port"] = text] /\ DOMAIN form = FormFields
      BY <1>1, <1>5 DEF TypePort, FormOK, FormTyped
  <2> QED BY <1>1, <2>1, <2>2 DEF FormOK, FormTyped
<1>6. ASSUME NEW theme \in Range(Themes), ChooseTheme(theme) PROVE FormOK'
  <2>1. theme \in Values["theme"]
      BY ThemeOK
  <2>2. form' = [form EXCEPT !["theme"] = theme] /\ DOMAIN form = FormFields
      BY <1>1, <1>6 DEF ChooseTheme, FormOK, FormTyped
  <2> QED BY <1>1, <2>1, <2>2 DEF FormOK, FormTyped
<1>7. ASSUME NEW box \in Clickable, ClickBox(box) PROVE FormOK'
    BY <1>1, <1>7, ClickedOK DEF ClickBox, FormOK, FormTyped
<1>8. CASE ClosePreview
  <2>1. FALSE \in Values["preview"]
      BY SettingsAssumption
  <2>2. form' = [form EXCEPT !["preview"] = FALSE] /\ DOMAIN form = FormFields
      BY <1>1, <1>8 DEF ClosePreview, ClearBox, FormOK, FormTyped
  <2> QED BY <1>1, <2>1, <2>2 DEF FormOK, FormTyped
<1>9. CASE End \/ CheckForUpdate
    BY <1>2, <1>3, <1>9 DEF End, CheckForUpdate
<1> QED
    BY <1>2, <1>4, <1>5, <1>6, <1>7, <1>8, <1>9
    DEF Next, User, OtherLaunch, Start, ClickStart, ChooseDevice, OpenMenu,
        ChooseNothing, ChooseStartStop, ChooseTrayDevice, ContinueSave, Resume,
        MonitorSelects, MonitorEnumerates, HandleSessionsChanged,
        HandleDeviceChanged, widgets, vars

LEMMA StepSessions == ProgramInv /\ [Next]_vars => sessions' \in Lists \cup {<<>>}
  BY DEF ProgramInv, Next, User, OtherLaunch, Start, CreateWindow, CreateBareWindow,
         TypePort, ChooseTheme, ClickBox, ClickStart, ClosePreview, ChooseDevice,
         OpenMenu, ChooseNothing, ChooseStartStop, ChooseTrayDevice, ContinueSave,
         Resume, MonitorSelects, MonitorEnumerates, HandleSessionsChanged,
         HandleDeviceChanged, CheckForUpdate, End, NoProcess, monitor, vars

LEMMA AlwaysProgramInv == Spec => []ProgramInv
<1>1. Init => ProgramInv
  <2> SUFFICES ASSUME Init PROVE ProgramInv
      OBVIOUS
  <2>1. StoreTypeOK
      BY ConfigStoreAssumption DEF Init, StoreInit, StoreTypeOK, Contents
  <2>2. \A f \in FormFields : NoForm[f] \in Values[f]
      BY ConfigFields DEF NoForm, FormFields
  <2>3. FormOK
      BY <2>2 DEF Init, NoForm, FormOK, FormTyped
  <2> QED BY <2>1, <2>3 DEF Init, ProgramInv
<1>2. ProgramInv /\ [Next]_vars => ProgramInv'
    BY StepIsStoreStep, StepStoreType, StepFormOK, StepSessions DEF ProgramInv
<1> QED BY <1>1, <1>2, PTL DEF Spec

(* The window, the tray, the monitor and the update check touch the file,  *)
(* the process and its configuration only as the store allows: what they   *)
(* save is a configuration, and nothing changes it while it is being saved.*)
THEOREM SettingsImplementStore == Spec => StoreSpec
<1>1. Init => StoreInit
    BY DEF Init
<1> QED BY <1>1, AlwaysProgramInv, StepIsStoreStep, PTL DEF Spec, StoreSpec

(* Whatever the user does, and wherever it is interrupted, the file is one *)
(* configuration, whole.                                                   *)
THEOREM SettingsAreWhole == Spec => []FileIsWhole
<1> QED BY SettingsImplementStore, SavesAreAtomic, PTL

(* And it is the one in use between two handlers, unless a save has failed *)
(* or another process had saved since this one loaded.                     *)
THEOREM SettingsAreSaved == Spec => []FileIsInUse
<1> QED BY SettingsImplementStore, SavesAreFound, PTL

-----------------------------------------------------------------------------
(* What the handlers rely on between them.  A menu shows what is the case, *)
(* because no handler that starts or stops runs while it is open; and once *)
(* a handler has nothing left to do, the preview is as the box says.       *)
MenuIsCurrent == /\ menu # <<>> => menu[1].running = started
                 /\ after # "none" => menu = <<>>

NothingYet == window = "none" => /\ started = FALSE /\ preview = "none"
                                 /\ after = "none" /\ menu = <<>>

BoxIsFollowed ==
    /\ after \in {"none", "start", "preview"}
    /\ after = "start" => ~started
    /\ preview = "open" => started
    /\ after = "none" => /\ preview = "open" => form.preview
                         /\ started /\ form.preview => preview # "none"

PreviewInv == /\ DOMAIN form = FormFields
              /\ MenuIsCurrent /\ NothingYet /\ BoxIsFollowed

(* The steps that neither start nor stop, nor change the box.              *)
LEMMA ElsewhereStep ==
    PreviewInv /\ UNCHANGED <<window, form, started, preview, after, menu>> => PreviewInv'
  BY DEF PreviewInv, MenuIsCurrent, NothingYet, BoxIsFollowed

(* The button, or its entry in a menu that is current.                     *)
LEMMA StartStopStep ==
    PreviewInv /\ InLoop /\ StartStop(started) /\ menu' = <<>> /\ UNCHANGED <<window, form>>
        => PreviewInv'
<1> SUFFICES ASSUME PreviewInv, InLoop, StartStop(started), menu' = <<>>,
                    UNCHANGED <<window, form>>
             PROVE  PreviewInv'
    OBVIOUS
<1> USE DEF PreviewInv, MenuIsCurrent, NothingYet, BoxIsFollowed, InLoop
<1>1. CASE started' = FALSE /\ preview' = "none" /\ after' = after
    BY <1>1
<1>2. CASE ~started /\ after' = "start" /\ UNCHANGED <<started, preview>>
    BY <1>2
<1> QED BY <1>1, <1>2 DEF StartStop, StopWebServer, DestroyWebView

LEMMA ResumeStep == PreviewInv /\ Resume => PreviewInv'
<1> SUFFICES ASSUME PreviewInv, Resume PROVE PreviewInv'
    OBVIOUS
<1> USE DEF PreviewInv, MenuIsCurrent, NothingYet, BoxIsFollowed
<1>1. /\ after # "none" /\ after' = "none" /\ menu = <<>> /\ window # "none"
      /\ UNCHANGED <<window, form, menu>>
    BY DEF Resume
<1>2. CASE after = "start"
  <2>1. /\ started' = TRUE /\ preview # "open"
        /\ \/ form.preview /\ preview' \in {"open", "failed"}
           \/ ~form.preview /\ preview' = preview
      BY <1>2 DEF Resume, CreateWebView
  <2> QED BY <1>1, <2>1
<1>3. CASE after = "preview"
  <2>1. /\ started' = started
        /\ \/ ~started /\ preview' = preview
           \/ started /\ form.preview /\ preview' \in {"open", "failed"}
           \/ started /\ ~form.preview /\ preview' = "none"
      BY <1>3 DEF Resume, CreateWebView, DestroyWebView
  <2> QED BY <1>1, <2>1
<1> QED BY <1>1, <1>2, <1>3

LEMMA NoProcessStep == NoProcess => PreviewInv'
  BY DEF NoProcess, NoForm, PreviewInv, MenuIsCurrent, NothingYet, BoxIsFollowed

LEMMA NextPreviewInv == PreviewInv /\ [Next]_vars => PreviewInv'
<1> SUFFICES ASSUME PreviewInv, [Next]_vars PROVE PreviewInv'
    OBVIOUS
<1> USE DEF widgets
<1>1. CASE OtherLaunch \/ Start
    BY <1>1, ElsewhereStep DEF OtherLaunch, Start
<1>2. CASE CreateWindow \/ CreateBareWindow
  <2> USE DEF PreviewInv, MenuIsCurrent, NothingYet, BoxIsFollowed
  <2>1. /\ started = FALSE /\ preview = "none" /\ after = "none" /\ menu = <<>>
        /\ window' # "none" /\ UNCHANGED <<started, preview, menu>>
        /\ after' \in {"none", "start"}
      BY <1>2 DEF CreateWindow, CreateBareWindow
  <2>2. \E theme : form' = FormFor(theme)
      BY <1>2 DEF CreateWindow, CreateBareWindow
  <2>3. DOMAIN form' = FormFields
      BY <2>2 DEF FormFor
  <2> QED BY <2>1, <2>3
<1>3. ASSUME NEW field \in {"port", "theme"}, NEW x, form' = [form EXCEPT ![field] = x],
             UNCHANGED <<window, started, preview, after, menu>>
      PROVE  PreviewInv'
  <2> USE DEF PreviewInv
  <2>1. DOMAIN form' = FormFields /\ form'["preview"] = form["preview"]
      BY <1>3 DEF FormFields
  <2> QED BY <1>3, <2>1 DEF MenuIsCurrent, NothingYet, BoxIsFollowed
<1>4. ASSUME NEW text \in PortTexts, TypePort(text) PROVE PreviewInv'
    BY <1>3, <1>4 DEF TypePort
<1>5. ASSUME NEW theme \in Range(Themes), ChooseTheme(theme) PROVE PreviewInv'
    BY <1>3, <1>5 DEF ChooseTheme
<1>6. ASSUME NEW box \in Clickable, ClickBox(box) PROVE PreviewInv'
  <2> USE DEF PreviewInv, MenuIsCurrent, NothingYet, BoxIsFollowed
  <2>1. /\ after = "none" /\ menu = <<>> /\ window # "none"
        /\ form' = [form EXCEPT ![box] = ~@]
        /\ after' = (IF box = "preview" THEN "preview" ELSE "none")
        /\ UNCHANGED <<window, started, preview, menu>>
      BY <1>6 DEF ClickBox, AtWidgets, InLoop
  <2>2. DOMAIN form' = FormFields
      BY <2>1
  <2>3. CASE box = "preview"
      BY <2>1, <2>2, <2>3
  <2>4. CASE box # "preview"
    <3>1. form'["preview"] = form["preview"]
        BY <2>1, <2>4 DEF FormFields
    <3> QED BY <2>1, <2>2, <2>4, <3>1
  <2> QED BY <2>3, <2>4
<1>7. ASSUME NEW i \in DOMAIN shown, ChooseDevice(i) PROVE PreviewInv'
    BY <1>7, ElsewhereStep DEF ChooseDevice
<1>8. CASE ClickStart
  <2>1. menu' = <<>> /\ InLoop /\ StartStop(started) /\ UNCHANGED <<window, form>>
      BY <1>8 DEF ClickStart, AtWidgets
  <2> QED BY <2>1, StartStopStep
<1>9. CASE ChooseStartStop
  <2>1. /\ menu # <<>> /\ menu' = <<>> /\ InLoop /\ StartStop(menu[1].running)
        /\ UNCHANGED <<window, form>>
      BY <1>9 DEF ChooseStartStop, CloseMenu
  <2>2. menu[1].running = started
      BY <2>1 DEF PreviewInv, MenuIsCurrent
  <2> QED BY <2>1, <2>2, StartStopStep
<1>10. ASSUME menu' = <<>>, UNCHANGED <<window, form, started, preview, after>>
       PROVE  PreviewInv'
    BY <1>10 DEF PreviewInv, MenuIsCurrent, NothingYet, BoxIsFollowed
<1>11. ASSUME NEW i, ChooseTrayDevice(i) PROVE PreviewInv'
    BY <1>10, <1>11 DEF ChooseTrayDevice, CloseMenu
<1>12. CASE ChooseNothing
    BY <1>10, <1>12 DEF ChooseNothing, CloseMenu
<1>13. CASE OpenMenu
  <2>1. /\ menu' # <<>> /\ menu'[1].running = started
        /\ after = "none" /\ window # "none"
        /\ UNCHANGED <<window, form, started, preview, after>>
      BY <1>13 DEF OpenMenu, AtWidgets, InLoop
  <2> QED BY <2>1 DEF PreviewInv, MenuIsCurrent, NothingYet, BoxIsFollowed
<1>14. CASE ClosePreview
  <2>1. /\ form' = [form EXCEPT !.preview = FALSE] /\ preview' = "none"
        /\ UNCHANGED <<window, started, after, menu>>
      BY <1>14 DEF ClosePreview, ClearBox
  <2>2. DOMAIN form' = FormFields /\ form'["preview"] = FALSE
      BY <2>1 DEF PreviewInv, FormFields
  <2> QED BY <2>1, <2>2 DEF PreviewInv, MenuIsCurrent, NothingYet, BoxIsFollowed
<1>15. CASE ContinueSave
    BY <1>15, ElsewhereStep DEF ContinueSave
<1>16. CASE Resume
    BY <1>16, ResumeStep
<1>17. CASE MonitorSelects
    BY <1>17, ElsewhereStep DEF MonitorSelects
<1>18. ASSUME NEW apps \in Lists, MonitorEnumerates(apps) PROVE PreviewInv'
    BY <1>18, ElsewhereStep DEF MonitorEnumerates
<1>19. CASE HandleSessionsChanged \/ HandleDeviceChanged
    BY <1>19, ElsewhereStep DEF HandleSessionsChanged, HandleDeviceChanged
<1>20. CASE CheckForUpdate \/ End
    BY <1>20, ElsewhereStep, NoProcessStep DEF CheckForUpdate, End
<1>21. CASE UNCHANGED vars
    BY <1>21, ElsewhereStep DEF vars
<1> QED
    BY <1>1, <1>2, <1>4, <1>5, <1>6, <1>7, <1>8, <1>9, <1>11, <1>12, <1>13, <1>14,
       <1>15, <1>16, <1>17, <1>18, <1>19, <1>20, <1>21
    DEF Next, User

(* Whichever of the button, the menu, the box and the preview itself was   *)
(* used, with an automatic start or not: they agree when the handlers have *)
(* returned.                                                               *)
THEOREM PreviewAlwaysFollowsBox == Spec => []PreviewFollowsBox
<1>1. Init => PreviewInv
    BY DEF Init, NoForm, PreviewInv, MenuIsCurrent, NothingYet, BoxIsFollowed
<1>2. PreviewInv => PreviewFollowsBox
    BY DEF PreviewInv, BoxIsFollowed, PreviewFollowsBox
<1> QED BY <1>1, <1>2, NextPreviewInv, PTL DEF Spec

-----------------------------------------------------------------------------
(* A sequence without its head.                                            *)
LEMMA TailFacts ==
    ASSUME NEW S, NEW s \in Seq(S), s # <<>>
    PROVE  /\ Tail(s) \in Seq(S)
           /\ \A y \in Range(s) : y = Head(s) \/ y \in Range(Tail(s))
           /\ Len(Tail(s)) < Len(s) /\ Len(Tail(s)) \in Nat
           /\ Tail(s) = <<>> => Head(s) = s[Len(s)]
           /\ Tail(s) # <<>> => Tail(s)[Len(Tail(s))] = s[Len(s)]
<1> DEFINE rest == Tail(s)
           n == Len(s)
<1>1. /\ rest \in Seq(S) /\ Len(rest) = n - 1 /\ n \in Nat /\ Len(rest) \in Nat
      /\ \A i \in 1 .. Len(rest) : rest[i] = s[i + 1]
      /\ Head(s) = s[1]
    BY HeadTailProperties, LenProperties
<1>2. Range(s) = {s[i] : i \in 1 .. n}
    BY RangeEquality
<1>3. Range(rest) = {rest[i] : i \in 1 .. Len(rest)}
    BY <1>1, RangeEquality
<1> HIDE DEF rest, n
<1>4. rest = <<>> => Len(rest) = 0
    BY EmptySeq
<1>5. rest # <<>> => Len(rest) # 0
    BY <1>1, EmptySeq
<1>6. ASSUME NEW y \in Range(s), y # Head(s) PROVE y \in Range(rest)
  <2>1. PICK i \in 1 .. n : y = s[i]
      BY <1>2
  <2>2. i # 1
      BY <1>1, <1>6, <2>1
  <2>3. i - 1 \in 1 .. Len(rest) /\ (i - 1) + 1 = i
      BY <1>1, <2>2
  <2>4. y = rest[i - 1]
      BY <1>1, <2>1, <2>3
  <2> QED BY <1>3, <2>3, <2>4
<1>7. rest = <<>> => Head(s) = s[n]
    BY <1>1, <1>4
<1>8. rest # <<>> => rest[Len(rest)] = s[n]
  <2>1. SUFFICES ASSUME rest # <<>> PROVE rest[Len(rest)] = s[n]
      OBVIOUS
  <2>2. Len(rest) \in 1 .. Len(rest) /\ Len(rest) + 1 = n
      BY <1>1, <1>5, <2>1
  <2> QED BY <1>1, <2>2
<1>9. Len(rest) < n
    BY <1>1
<1> QED BY <1>1, <1>6, <1>7, <1>8, <1>9 DEF rest, n

(* First and Last find an item of the application when there is one.       *)
LEMMA LeastExists ==
    ASSUME NEW S, S \subseteq Nat, S # {}
    PROVE  \E i \in S : \A j \in S : i <= j
<1>1. PICK i \in S : \A j \in S : <<j, i>> \notin OpToRel(<, Nat)
    BY NatLessThanWellFounded, WFMin, Zenon
<1>2. ASSUME NEW j \in S, j < i PROVE FALSE
  <2>1. j \in Nat /\ i \in Nat
      OBVIOUS
  <2> QED BY <1>1, <1>2, <2>1, Zenon DEF OpToRel
<1> QED BY <1>2

LEMMA FoundInList ==
    ASSUME NEW apps \in Seq(Apps), NEW app \in Range(apps)
    PROVE  /\ First(app, apps) \in DOMAIN apps /\ apps[First(app, apps)] = app
           /\ Last(app, apps) \in DOMAIN apps /\ apps[Last(app, apps)] = app
           /\ First(app, apps) <= Len(apps)
<1> DEFINE found == Indices(app, apps)
           n == Len(apps)
           before == {n - i : i \in found}
<1>1. DOMAIN apps = 1 .. n /\ n \in Nat
    BY LenProperties
<1>2. found # {} /\ found \subseteq 1 .. n
    BY <1>1 DEF Indices, Range
<1>3. \E i \in found : \A j \in found : i <= j
    BY <1>2, LeastExists
<1>4. First(app, apps) \in found
    BY <1>3 DEF First
<1> HIDE DEF n, found
<1>5. before # {} /\ before \subseteq Nat
  <2>1. ASSUME NEW i \in found PROVE n - i \in Nat
      BY <1>1, <1>2
  <2> QED BY <1>2, <2>1
<1>6. PICK k \in before : \A j \in before : k <= j
    BY <1>5, LeastExists
<1>7. PICK i \in found : k = n - i
    BY <1>6
<1>8. \A j \in found : n - i <= n - j
    BY <1>6, <1>7
<1>9. \A j \in found : j <= i
    BY <1>1, <1>2, <1>8
<1>10. Last(app, apps) \in found
    BY <1>9 DEF Last, found
<1>11. \A i1 \in found : i1 \in DOMAIN apps /\ apps[i1] = app /\ i1 <= n
    BY <1>1, <1>2 DEF Indices, found
<1> QED BY <1>4, <1>10, <1>11 DEF n

(* What is notified is there, in addition to what was, or it was missed.   *)
LEMMA NotifyAdds ==
    ASSUME NEW kinds \in Seq({"sessions", "device"}), Notify(kinds),
           events \in Seq({"sessions", "device"}), missed \in BOOLEAN
    PROVE  /\ events' \in Seq({"sessions", "device"}) /\ missed' \in BOOLEAN
           /\ Range(events) \subseteq Range(events')
           /\ ~missed' => /\ ~missed
                          /\ Range(events') = Range(events) \cup Range(kinds)
<1> DEFINE S == {"sessions", "device"}
           n == IF Len(kinds) < Room THEN Len(kinds) ELSE Room
           fitting == SubSeq(kinds, 1, n)
<1>1. CASE window # "open"
    BY <1>1 DEF Notify
<1>2. CASE window = "open"
  <2>1. /\ events' = events \o fitting
        /\ missed' = (missed \/ Room < Len(kinds))
      BY <1>2 DEF Notify
  <2>2. Len(kinds) \in Nat /\ Room \in Int
      BY SettingsAssumption, LenProperties DEF Room
  <2>3. n \in Int /\ n <= Len(kinds)
      BY <2>2
  <2>4. \A i \in 1 .. Len(kinds) : kinds[i] \in S
      BY ElementOfSeq
  <2> HIDE DEF n, S
  <2>5. \A i \in 1 .. n : kinds[i] \in S
      BY <2>2, <2>3, <2>4
  <2>6. fitting \in Seq(S)
      BY <2>3, <2>5, SubSeqProperties
  <2>7. n = Len(kinds) => fitting = kinds
      BY SubSeqFull
  <2> HIDE DEF fitting
  <2>8. /\ events \o fitting \in Seq(S)
        /\ Range(events \o fitting) = Range(events) \cup Range(fitting)
      BY <2>6, ConcatProperties, RangeConcatenation DEF S
  <2>9. ~missed' => ~missed /\ n = Len(kinds)
    <3>1. ~missed' => ~missed /\ ~(Room < Len(kinds))
        BY <2>1, Zenon
    <3>2. ~(Room < Len(kinds)) => n = Len(kinds)
        BY <2>2 DEF n
    <3> QED BY <3>1, <3>2
  <2>10. missed' \in BOOLEAN
      BY <2>1, Zenon
  <2> QED BY <2>1, <2>7, <2>8, <2>9, <2>10 DEF S
<1> QED BY <1>1, <1>2

-----------------------------------------------------------------------------
(* What the list of devices depends on, by types: the fields of a          *)
(* configuration are always those of Default.                              *)
ValidLaunches == [cfg : Valid, read : BOOLEAN]

ListTypes ==
    /\ sessions \in Seq(Apps) /\ shown \in Seq(Apps) /\ asked \in Seq(Apps)
    /\ events \in Seq({"sessions", "device"}) /\ missed \in BOOLEAN
    /\ DOMAIN cfg = DOMAIN Default /\ launched \in ValidLaunches \cup {Nothing}

(* The configured device is the one asked for last, and the monitor's once *)
(* it has executed all calls; it watches the selected one if it can.       *)
DeviceIsAsked ==
    /\ ~running => sessions = <<>> /\ asked = <<>>
    /\ running /\ asked = <<>> => selected = cfg.device
    /\ asked # <<>> => asked[Len(asked)] = cfg.device
    /\ selected \in Range(sessions) => watched = selected

(* The list is the monitor's unless a message that it changed is on its    *)
(* way, and the device is selected in it unless any message is.            *)
ListIsCurrent == "sessions" \notin Range(events) /\ ~missed => shown = sessions
DeviceIsShown ==
    events = <<>> /\ asked = <<>> /\ ~missed /\ cfg.device \in Range(sessions)
        => sel \in DOMAIN shown /\ shown[sel] = cfg.device

ListInv == ListTypes /\ DeviceIsAsked /\ ListIsCurrent /\ DeviceIsShown

(* The steps that touch neither the monitor nor the list nor the device.   *)
DeviceKept == /\ cfg'.device = cfg.device /\ DOMAIN cfg' = DOMAIN cfg
              /\ launched' \in ValidLaunches \cup {Nothing} /\ running' = running

LEMMA AsideStep == ListInv /\ DeviceKept /\ UNCHANGED <<monitor, list>> => ListInv'
<1> SUFFICES ASSUME ListInv, DeviceKept, UNCHANGED <<monitor, list>> PROVE ListInv'
    OBVIOUS
<1>1. UNCHANGED <<sessions, selected, watched, asked, events, shown, sel, missed>>
    BY DEF monitor, list
<1> QED BY <1>1 DEF DeviceKept, ListInv, ListTypes, DeviceIsAsked, ListIsCurrent, DeviceIsShown

LEMMA NoProcessList ==
    NoProcess /\ cfg' = Default /\ ~running' /\ launched' \in ValidLaunches \cup {Nothing} => ListInv'
<1> SUFFICES ASSUME NoProcess, cfg' = Default, ~running', launched' \in ValidLaunches \cup {Nothing}
             PROVE  ListInv'
    OBVIOUS
<1>1. /\ sessions' = <<>> /\ shown' = <<>> /\ asked' = <<>> /\ events' = <<>>
      /\ missed' = FALSE /\ cfg' = Default
    BY DEF NoProcess
<1>2. selected' \notin Range(sessions') /\ cfg'.device \notin Range(sessions')
    BY <1>1 DEF Range
<1>3. ListTypes'
  <2>1. missed' \in BOOLEAN
      BY <1>1, Zenon
  <2> QED BY <1>1, <2>1 DEF ListTypes
<1>4. DeviceIsAsked'
    BY <1>1, <1>2 DEF DeviceIsAsked
<1>5. ListIsCurrent' /\ DeviceIsShown'
    BY <1>1, <1>2 DEF ListIsCurrent, DeviceIsShown
<1> QED BY <1>3, <1>4, <1>5 DEF ListInv

(* What a save does to the device: nothing unless it is the device's.      *)
LEMMA DeviceField ==
    /\ "device" \in DOMAIN Default /\ "device" \notin FormFields
    /\ \A c \in Valid : DOMAIN c = DOMAIN Default
  BY SettingsAssumption, ConfigStoreAssumption DEF FormFields

LEMMA SaveKeeps ==
    ASSUME ListTypes, NEW c, Save(c), c.device = cfg.device, DOMAIN c = DOMAIN cfg
    PROVE  DeviceKept
  BY DEF ListTypes, Save, DeviceKept

LEMMA SyncedKeeps ==
    ASSUME ListTypes, NEW f
    PROVE  Synced(f).device = cfg.device /\ DOMAIN Synced(f) = DOMAIN cfg
  BY DeviceField DEF ListTypes, Synced

LEMMA IdleKeeps == ListTypes /\ UNCHANGED storeVars => DeviceKept
  BY DEF ListTypes, DeviceKept, storeVars, disk, process

-----------------------------------------------------------------------------
(* The monitor enumerates: whoever shows something else is told.           *)
LEMMA EnumerateList ==
    ASSUME NEW apps \in Lists, ListInv, MonitorEnumerates(apps)
    PROVE  ListInv'
<1> DEFINE kinds == IF apps = <<>> THEN <<"sessions">> ELSE <<"sessions", "device">>
<1>1. /\ running /\ sessions' = apps /\ Notify(kinds)
      /\ watched' = (IF apps = <<>> THEN None
                     ELSE IF selected \in Range(apps) THEN selected ELSE apps[1])
      /\ UNCHANGED <<cfg, running, launched, selected, asked, shown, sel>>
    BY DEF MonitorEnumerates, storeVars, process
<1>2. ListTypes /\ apps \in Seq(Apps)
    BY SettingsAssumption DEF ListInv
<1>3. kinds \in Seq({"sessions", "device"}) /\ "sessions" \in Range(kinds)
  <2>1. /\ <<"sessions">> \in Seq({"sessions", "device"})
        /\ <<"sessions", "device">> \in Seq({"sessions", "device"})
      OBVIOUS
  <2>2. "sessions" \in Range(<<"sessions">>)
      BY DEF Range
  <2>3. "sessions" \in Range(<<"sessions", "device">>)
    <3>1. /\ 1 \in DOMAIN <<"sessions", "device">>
          /\ <<"sessions", "device">>[1] = "sessions"
        OBVIOUS
    <3> QED BY <3>1 DEF Range
  <2> QED BY <2>1, <2>2, <2>3
<1> HIDE DEF kinds
<1>4. /\ events' \in Seq({"sessions", "device"}) /\ missed' \in BOOLEAN
      /\ ~missed' => "sessions" \in Range(events')
    BY <1>1, <1>2, <1>3, NotifyAdds DEF ListTypes
<1>5. ListTypes'
    BY <1>1, <1>2, <1>4 DEF ListTypes
<1>6. apps = <<>> => Range(apps) = {}
    BY DEF Range
<1>7. DeviceIsAsked'
    BY <1>1, <1>6 DEF ListInv, DeviceIsAsked
<1>8. events' = <<>> => Range(events') = {}
    BY DEF Range
<1> QED BY <1>4, <1>5, <1>7, <1>8 DEF ListInv, ListIsCurrent, DeviceIsShown

(* The monitor executes a call: it watches the device, or it cannot.       *)
LEMMA SelectList == ListInv /\ MonitorSelects => ListInv'
<1> SUFFICES ASSUME ListInv, MonitorSelects PROVE ListInv'
    OBVIOUS
<1> DEFINE app == Head(asked)
           rest == Tail(asked)
<1>1. /\ running /\ asked # <<>> /\ asked' = rest /\ selected' = app
      /\ UNCHANGED <<cfg, running, launched, sessions, shown, sel>>
      /\ \/ app \in Range(sessions) /\ watched' = app /\ Notify(<<"device">>)
         \/ app \notin Range(sessions) /\ UNCHANGED <<watched, events, missed>>
    BY DEF MonitorSelects, storeVars, process
<1>2. ListTypes /\ DeviceIsAsked /\ ListIsCurrent
    BY DEF ListInv
<1>3. /\ rest \in Seq(Apps)
      /\ rest = <<>> => app = asked[Len(asked)]
      /\ rest # <<>> => rest[Len(rest)] = asked[Len(asked)]
    BY <1>1, <1>2, TailFacts DEF ListTypes
<1> HIDE DEF app, rest
<1>4. <<"device">> \in Seq({"sessions", "device"}) /\ "device" \in Range(<<"device">>)
    BY DEF Range
<1>5. DeviceIsAsked'
    BY <1>1, <1>2, <1>3 DEF DeviceIsAsked
<1>6. CASE app \in Range(sessions) /\ watched' = app /\ Notify(<<"device">>)
  <2>1. /\ events' \in Seq({"sessions", "device"}) /\ missed' \in BOOLEAN
        /\ Range(events) \subseteq Range(events')
        /\ ~missed' => ~missed /\ "device" \in Range(events')
      BY <1>2, <1>4, <1>6, NotifyAdds DEF ListTypes
  <2>2. events' = <<>> => Range(events') = {}
      BY DEF Range
  <2>3. ListTypes'
      BY <1>1, <1>2, <1>3, <2>1 DEF ListTypes
  <2>4. ListIsCurrent' /\ DeviceIsShown'
      BY <1>1, <1>2, <2>1, <2>2 DEF ListIsCurrent, DeviceIsShown
  <2> QED BY <1>5, <2>3, <2>4 DEF ListInv
<1>7. CASE app \notin Range(sessions) /\ UNCHANGED <<watched, events, missed>>
  <2>1. ListTypes' /\ ListIsCurrent'
      BY <1>1, <1>2, <1>3, <1>7 DEF ListTypes, ListIsCurrent
  <2>2. asked' = <<>> => cfg'.device \notin Range(sessions')
      BY <1>1, <1>2, <1>3, <1>7 DEF DeviceIsAsked
  <2> QED BY <1>5, <2>1, <2>2 DEF ListInv, DeviceIsShown
<1> QED BY <1>1, <1>6, <1>7

(* The window handles a message.                                           *)
LEMMA HandleList ==
    ASSUME ListInv, HandleSessionsChanged \/ HandleDeviceChanged
    PROVE  ListInv'
<1> DEFINE rest == Tail(events)
<1>1. /\ events # <<>> /\ events' = rest
      /\ UNCHANGED <<cfg, running, launched, sessions, selected, watched, asked>>
    BY DEF HandleSessionsChanged, HandleDeviceChanged, storeVars, process, monitor
<1>2. ListTypes /\ DeviceIsAsked /\ ListIsCurrent
    BY DEF ListInv
<1>3. /\ rest \in Seq({"sessions", "device"})
      /\ \A y \in Range(events) : y = Head(events) \/ y \in Range(rest)
    BY <1>1, <1>2, TailFacts DEF ListTypes
<1>4. rest = <<>> => Range(rest) = {}
    BY DEF Range
<1> HIDE DEF rest
<1>5. DeviceIsAsked'
    BY <1>1, <1>2 DEF DeviceIsAsked
<1>6. cfg.device \in Range(sessions) =>
          /\ First(cfg.device, sessions) \in DOMAIN sessions
          /\ sessions[First(cfg.device, sessions)] = cfg.device
          /\ ~(First(cfg.device, sessions) > Len(sessions))
          /\ Last(cfg.device, sessions) \in DOMAIN sessions
          /\ sessions[Last(cfg.device, sessions)] = cfg.device
    BY <1>2, FoundInList, LenProperties DEF ListTypes
<1>7. CASE HandleSessionsChanged
  <2>1. shown' = sessions /\ sel' = Reselected /\ missed' = FALSE
      BY <1>7 DEF HandleSessionsChanged
  <2>2. ListTypes' /\ ListIsCurrent'
      BY <1>1, <1>2, <1>3, <2>1 DEF ListTypes, ListIsCurrent
  <2>3. sessions = <<>> => Range(sessions) = {}
      BY DEF Range
  <2>4. DeviceIsShown'
      BY <1>1, <1>6, <2>1, <2>3 DEF Reselected, DeviceIsShown
  <2> QED BY <1>5, <2>2, <2>4 DEF ListInv
<1>8. CASE HandleDeviceChanged
  <2>1. /\ Head(events) = "device" /\ UNCHANGED <<shown, missed>>
        /\ sel' = (IF cfg.device \notin Range(sessions) THEN sel
                   ELSE IF First(cfg.device, sessions) > Len(shown) THEN 0
                   ELSE First(cfg.device, sessions))
      BY <1>8 DEF HandleDeviceChanged
  <2>2. ListTypes' /\ ListIsCurrent'
      BY <1>1, <1>2, <1>3, <2>1 DEF ListTypes, ListIsCurrent
  <2>3. ASSUME events' = <<>>, ~missed, cfg.device \in Range(sessions)
        PROVE  sel' \in DOMAIN shown /\ shown[sel'] = cfg.device
    <3>1. shown = sessions
        BY <1>1, <1>4, <2>2, <2>1, <2>3 DEF ListIsCurrent
    <3> QED BY <1>6, <2>1, <2>3, <3>1
  <2>4. DeviceIsShown'
      BY <1>1, <2>1, <2>3 DEF DeviceIsShown
  <2> QED BY <1>5, <2>2, <2>4 DEF ListInv
<1> QED BY <1>7, <1>8

-----------------------------------------------------------------------------
(* The user chooses: what an item resolves to is asked for and configured. *)
LEMMA ResolvedItem ==
    ASSUME ListTypes, NEW i, SelectSession(i)
    PROVE  \/ /\ i \in DOMAIN sessions /\ running /\ running' = running
              /\ asked' = Append(asked, sessions[i])
              /\ cfg'.device = sessions[i] /\ DOMAIN cfg' = DOMAIN cfg
              /\ launched' = launched
           \/ /\ i \notin DOMAIN sessions
              /\ UNCHANGED <<asked, cfg, running, launched>>
<1>1. CASE /\ i \in DOMAIN sessions /\ asked' = Append(asked, sessions[i])
           /\ Save([cfg EXCEPT !.device = sessions[i]])
  <2>1. "device" \in DOMAIN cfg
      BY DeviceField DEF ListTypes
  <2>2. /\ running /\ running' = running /\ launched' = launched
        /\ cfg' = [cfg EXCEPT !.device = sessions[i]]
      BY <1>1 DEF Save
  <2>3. cfg'.device = sessions[i] /\ DOMAIN cfg' = DOMAIN cfg
      BY <2>1, <2>2
  <2> QED BY <1>1, <2>2, <2>3
<1>2. CASE i \notin DOMAIN sessions /\ UNCHANGED <<storeVars, asked>>
    BY <1>2 DEF storeVars, process
<1> QED BY <1>1, <1>2 DEF SelectSession, Index

LEMMA ChooseList ==
    ASSUME ListInv, NEW i, SelectSession(i),
           UNCHANGED <<sessions, selected, watched, events, shown, missed>>,
           sel' = sel \/ (sel' = i /\ i \in DOMAIN shown)
    PROVE  ListInv'
<1>1. ListTypes /\ DeviceIsAsked /\ ListIsCurrent /\ DeviceIsShown
    BY DEF ListInv
<1>2. ListIsCurrent'
    BY <1>1 DEF ListIsCurrent
<1>3. CASE /\ i \in DOMAIN sessions /\ running /\ running' = running
           /\ asked' = Append(asked, sessions[i])
           /\ cfg'.device = sessions[i] /\ DOMAIN cfg' = DOMAIN cfg
           /\ launched' = launched
  <2>1. sessions[i] \in Apps
      BY <1>1, <1>3 DEF ListTypes
  <2>2. /\ asked' \in Seq(Apps) /\ asked' # <<>>
        /\ Len(asked') = Len(asked) + 1
        /\ asked'[Len(asked) + 1] = sessions[i]
      BY <1>1, <1>3, <2>1, AppendProperties DEF ListTypes
  <2>3. asked'[Len(asked')] = cfg'.device
      BY <1>3, <2>2
  <2>4. ListTypes'
      BY <1>1, <1>3, <2>2 DEF ListTypes
  <2>5. DeviceIsAsked' /\ DeviceIsShown'
      BY <1>1, <1>3, <2>2, <2>3 DEF DeviceIsAsked, DeviceIsShown
  <2> QED BY <1>2, <2>4, <2>5 DEF ListInv
<1>4. CASE i \notin DOMAIN sessions /\ UNCHANGED <<asked, cfg, running, launched>>
  <2>1. ListTypes' /\ DeviceIsAsked'
      BY <1>1, <1>4 DEF ListTypes, DeviceIsAsked
  <2>2. events = <<>> => Range(events) = {}
      BY DEF Range
  <2>3. DeviceIsShown'
      BY <1>1, <1>4, <2>2 DEF ListIsCurrent, DeviceIsShown
  <2> QED BY <1>2, <2>1, <2>3 DEF ListInv
<1> QED BY <1>1, <1>3, <1>4, ResolvedItem

-----------------------------------------------------------------------------
LEMMA StartList == ListInv /\ Start => ListInv'
<1> SUFFICES ASSUME ListInv, Start PROVE ListInv'
    OBVIOUS
<1>1. /\ launched # Nothing /\ ~running /\ cfg' = launched.cfg /\ launched' = Nothing
      /\ selected' = launched.cfg.device
      /\ UNCHANGED <<sessions, watched, asked, events, shown, sel, missed>>
    BY DEF Start, BecomeInstance, list
<1>2. ListTypes /\ DeviceIsAsked /\ ListIsCurrent /\ DeviceIsShown
    BY DEF ListInv
<1>3. DOMAIN cfg' = DOMAIN Default
    BY <1>1, <1>2, DeviceField DEF ListTypes, ValidLaunches
<1>4. ListTypes' /\ ListIsCurrent'
    BY <1>1, <1>2, <1>3 DEF ListTypes, ListIsCurrent
<1>5. sessions = <<>> /\ asked = <<>>
    BY <1>1, <1>2 DEF DeviceIsAsked
<1>6. selected' \notin Range(sessions') /\ cfg'.device \notin Range(sessions')
    BY <1>1, <1>5 DEF Range
<1>7. DeviceIsAsked' /\ DeviceIsShown'
    BY <1>1, <1>5, <1>6 DEF DeviceIsAsked, DeviceIsShown
<1> QED BY <1>4, <1>7 DEF ListInv

(* The steps of the store that leave the device alone.                     *)
LEMMA StoreKeeps ==
    ListTypes /\ (Launch \/ RefuseInstance \/ SaveStep) => DeviceKept
<1> SUFFICES ASSUME ListTypes, Launch \/ RefuseInstance \/ SaveStep PROVE DeviceKept
    OBVIOUS
<1>1. UNCHANGED <<cfg, running>>
    BY DEF Launch, RefuseInstance, SaveStep, CreateTemp, Encode, SyncAndClose,
           Rename, SaveFails, process
<1>2. launched' \in ValidLaunches \cup {Nothing}
  <2>1. CASE Launch
      BY <2>1, LaunchIsValid DEF ValidLaunches
  <2>2. CASE RefuseInstance \/ SaveStep
      BY <2>2 DEF ListTypes, RefuseInstance, SaveStep, CreateTemp, Encode,
                  SyncAndClose, Rename, SaveFails
  <2> QED BY <2>1, <2>2
<1> QED BY <1>1, <1>2 DEF DeviceKept

(* The handlers that change and save the form.                             *)
LEMMA FormKeeps ==
    ASSUME ListTypes,
           \/ CreateWindow \/ ClickStart \/ ChooseStartStop
           \/ \E theme \in Range(Themes) : ChooseTheme(theme)
           \/ \E box \in Clickable : ClickBox(box)
    PROVE  DeviceKept
<1>1. \/ UNCHANGED storeVars
      \/ \E f : Save(Synced(f))
      \/ \E theme : Save([cfg EXCEPT !.theme = theme])
    BY DEF CreateWindow, ClickStart, ChooseStartStop, StartStop, StopWebServer,
           ChooseTheme, SetTheme, ClickBox
<1>2. ASSUME NEW f, Save(Synced(f)) PROVE DeviceKept
    BY <1>2, SyncedKeeps, SaveKeeps
<1>3. ASSUME NEW theme, Save([cfg EXCEPT !.theme = theme]) PROVE DeviceKept
  <2>1. /\ [cfg EXCEPT !.theme = theme].device = cfg.device
        /\ DOMAIN [cfg EXCEPT !.theme = theme] = DOMAIN cfg
      BY DeviceField DEF ListTypes
  <2> QED BY <1>3, <2>1, SaveKeeps
<1> QED BY <1>1, <1>2, <1>3, IdleKeeps

LEMMA NextListInv == ListInv /\ [Next]_vars => ListInv'
<1> SUFFICES ASSUME ListInv, [Next]_vars PROVE ListInv'
    OBVIOUS
<1>0. ListTypes
    BY DEF ListInv
<1>1. CASE OtherLaunch
    BY <1>0, <1>1, StoreKeeps, AsideStep DEF OtherLaunch
<1>2. CASE Start
    BY <1>2, StartList
<1>3. CASE \/ CreateWindow \/ ClickStart \/ ChooseStartStop
           \/ \E theme \in Range(Themes) : ChooseTheme(theme)
           \/ \E box \in Clickable : ClickBox(box)
  <2>1. UNCHANGED <<monitor, list>>
      BY <1>3 DEF CreateWindow, ClickStart, ChooseStartStop, ChooseTheme, ClickBox
  <2> QED BY <1>0, <1>3, <2>1, FormKeeps, AsideStep
<1>4. CASE \/ CreateBareWindow \/ ClosePreview \/ OpenMenu \/ ChooseNothing \/ Resume
           \/ \E text \in PortTexts : TypePort(text)
           \/ UNCHANGED vars
  <2>1. UNCHANGED <<storeVars, monitor, list>>
      BY <1>4 DEF CreateBareWindow, ClosePreview, OpenMenu, ChooseNothing, Resume,
                  TypePort, vars
  <2> QED BY <1>0, <2>1, IdleKeeps, AsideStep
<1>5. CASE ContinueSave
    BY <1>0, <1>5, StoreKeeps, AsideStep DEF ContinueSave
<1>6. ASSUME NEW i \in DOMAIN shown, ChooseDevice(i) PROVE ListInv'
    BY <1>6, ChooseList DEF ChooseDevice
<1>7. ASSUME NEW i, ChooseTrayDevice(i) PROVE ListInv'
    BY <1>7, ChooseList DEF ChooseTrayDevice, list
<1>8. CASE MonitorSelects
    BY <1>8, SelectList
<1>9. ASSUME NEW apps \in Lists, MonitorEnumerates(apps) PROVE ListInv'
    BY <1>9, EnumerateList
<1>10. CASE HandleSessionsChanged \/ HandleDeviceChanged
    BY <1>10, HandleList
<1>11. CASE End \/ (NoProcess /\ EndProcess)
  <2>1. /\ NoProcess /\ cfg' = Default /\ ~running'
        /\ launched' = launched \/ launched' = Nothing
      BY <1>11 DEF End, EndProcess, PowerFails
  <2> QED BY <1>0, <2>1, NoProcessList DEF ListTypes
<1>12. CASE CheckForUpdate
  <2>1. (NoProcess /\ EndProcess) \/ UNCHANGED <<storeVars, monitor, list>>
      BY <1>12 DEF CheckForUpdate
  <2> QED BY <1>0, <1>11, <2>1, IdleKeeps, AsideStep
<1> QED
    BY <1>1, <1>2, <1>3, <1>4, <1>5, <1>6, <1>7, <1>8, <1>9, <1>10, <1>11, <1>12
    DEF Next, User

LEMMA AlwaysListInv == Spec => []ListInv
<1>1. Init => ListInv
  <2> SUFFICES ASSUME Init PROVE ListInv
      OBVIOUS
  <2>1. /\ sessions = <<>> /\ shown = <<>> /\ asked = <<>> /\ events = <<>>
        /\ missed = FALSE /\ cfg = Default /\ ~running /\ launched = Nothing
      BY DEF Init, StoreInit
  <2>2. selected \notin Range(sessions) /\ cfg.device \notin Range(sessions)
      BY <2>1 DEF Range
  <2>3. missed \in BOOLEAN
      BY <2>1, Zenon
  <2>4. ListTypes
      BY <2>1, <2>3 DEF ListTypes
  <2> QED BY <2>1, <2>2, <2>4 DEF ListInv, DeviceIsAsked, ListIsCurrent, DeviceIsShown
<1> QED BY <1>1, NextListInv, PTL DEF Spec

(* However choices, enumerations and messages interleave and however the   *)
(* process ended before: at rest, with nothing lost, the list is the       *)
(* monitor's, and its item, the configuration and the session agree.       *)
THEOREM ListShowsTheWatched == Spec => []ListShowsWatched
<1>1. ListInv => ListShowsWatched
  <2> SUFFICES ASSUME ListInv, Quiet
               PROVE  /\ shown = sessions
                      /\ cfg.device \in Range(sessions)
                             => sel # 0 /\ shown[sel] = cfg.device /\ watched = cfg.device
      BY DEF ListShowsWatched
  <2>1. events = <<>> /\ asked = <<>> /\ ~missed /\ Range(events) = {}
      BY DEF Quiet, Range
  <2>2. ListTypes /\ DeviceIsAsked /\ ListIsCurrent /\ DeviceIsShown
      BY DEF ListInv
  <2>3. shown = sessions
      BY <2>1, <2>2 DEF ListIsCurrent
  <2>4. cfg.device \in Range(sessions) => selected = cfg.device
    <3>1. sessions = <<>> => Range(sessions) = {}
        BY DEF Range
    <3> QED BY <2>1, <2>2, <3>1 DEF DeviceIsAsked
  <2>5. 0 \notin DOMAIN shown
      BY <2>2, LenProperties DEF ListTypes
  <2> QED BY <2>1, <2>2, <2>3, <2>4, <2>5 DEF DeviceIsAsked, DeviceIsShown
<1> QED BY <1>1, AlwaysListInv, PTL

(* An index the user picks is resolved against the monitor's present list: *)
(* the device is the item's unless the list is about to be replaced.       *)
THEOREM ChoosesWhatIsShown == Spec => ChosenIsShown
<1>1. ListInv /\ [Next]_vars =>
        [menu = <<>> /\ window = "open" /\ asked' # asked /\ Len(asked') > Len(asked)
          => \/ shown[sel'] = cfg'.device
             \/ "sessions" \in Range(events) \/ missed]_vars
  <2> SUFFICES ASSUME ListInv, Next, menu = <<>>, Len(asked') > Len(asked),
                      asked' # asked, "sessions" \notin Range(events), ~missed
               PROVE  shown[sel'] = cfg'.device
      OBVIOUS
  <2>1. ListTypes /\ shown = sessions
      BY DEF ListInv, ListIsCurrent
  <2>2. Len(asked) \in Nat
      BY <2>1, LenProperties DEF ListTypes
  <2>3. asked' # <<>>
      BY <2>2, EmptySeq
  <2>4. ~MonitorSelects
    <3>1. MonitorSelects => asked # <<>> /\ asked' = Tail(asked)
        BY DEF MonitorSelects
    <3>2. asked # <<>> => Len(Tail(asked)) < Len(asked) /\ Len(Tail(asked)) \in Nat
        BY <2>1, TailFacts DEF ListTypes
    <3> QED BY <2>2, <3>1, <3>2
  <2>5. ~NoProcess
      BY <2>3 DEF NoProcess
  <2>6. PICK i \in DOMAIN shown : ChooseDevice(i)
      BY <2>4, <2>5
      DEF Next, User, OtherLaunch, Start, CreateWindow, CreateBareWindow, TypePort,
          ChooseTheme, ClickBox, ClickStart, ClosePreview, OpenMenu, ChooseNothing,
          ChooseStartStop, ChooseTrayDevice, CloseMenu, ContinueSave, Resume,
          MonitorEnumerates, HandleSessionsChanged, HandleDeviceChanged,
          CheckForUpdate, End, monitor
  <2>7. sel' = i /\ SelectSession(i)
      BY <2>6 DEF ChooseDevice
  <2> QED BY <2>1, <2>6, <2>7, ResolvedItem
<1> QED BY <1>1, AlwaysListInv, PTL DEF Spec, ChosenIsShown

-----------------------------------------------------------------------------
(* The types of what the store and the form do not say.                    *)
WidgetTypes == /\ window \in {"none", "bare", "open"}
               /\ started \in BOOLEAN /\ checking \in BOOLEAN
               /\ preview \in {"none", "open", "failed"}
               /\ after \in {"none", "start", "preview"}
               /\ Len(menu) <= 1 /\ acts \in 0 .. MaxActs
DeviceTypes == /\ shown \in Lists \cup {<<>>}
               /\ selected \in Apps \cup {None} /\ watched \in Apps \cup {None}
               /\ Len(asked) <= MaxAsked /\ Len(events) <= EventCapacity
               /\ sel \in Nat

LEMMA Lengths == Len(<<>>) <= 1 /\ \A x : Len(<<x>>) <= 1
  OBVIOUS

LEMMA ActTyped == acts \in 0 .. MaxActs /\ Act => acts' \in 0 .. MaxActs
  BY SettingsAssumption DEF Act

LEMMA StepWidgetTypes == WidgetTypes /\ [Next]_vars => WidgetTypes'
<1> SUFFICES ASSUME WidgetTypes, [Next]_vars PROVE WidgetTypes'
    OBVIOUS
<1>1. started' \in BOOLEAN /\ checking' \in BOOLEAN
  <2>1. /\ started' \in {started, TRUE, FALSE} /\ checking' \in {checking, TRUE, FALSE}
      BY DEF Next, User, OtherLaunch, Start, CreateWindow, CreateBareWindow, TypePort,
             ChooseTheme, ClickBox, ClickStart, ClosePreview, ChooseDevice, OpenMenu,
             ChooseNothing, ChooseStartStop, ChooseTrayDevice, StartStop,
             StopWebServer, ContinueSave, Resume, MonitorSelects, MonitorEnumerates,
             HandleSessionsChanged, HandleDeviceChanged, CheckForUpdate, End,
             NoProcess, widgets, vars
  <2> QED BY <2>1, Zenon DEF WidgetTypes
<1>2. /\ window' \in {window, "none", "bare", "open"}
      /\ preview' \in {preview, "none", "open", "failed"}
      /\ after' \in {after, "none", "start", "preview"}
    BY DEF Next, User, OtherLaunch, Start, CreateWindow, CreateBareWindow, TypePort,
           ChooseTheme, ClickBox, ClickStart, ClosePreview, ChooseDevice, OpenMenu,
           ChooseNothing, ChooseStartStop, ChooseTrayDevice, StartStop,
           StopWebServer, DestroyWebView, ContinueSave, Resume, CreateWebView,
           MonitorSelects, MonitorEnumerates, HandleSessionsChanged,
           HandleDeviceChanged, CheckForUpdate, End, NoProcess, widgets, vars
<1>3. menu' = menu \/ menu' = <<>> \/ \E x : menu' = <<x>>
    BY DEF Next, User, OtherLaunch, Start, CreateWindow, CreateBareWindow, TypePort,
           ChooseTheme, ClickBox, ClickStart, ClosePreview, ChooseDevice, OpenMenu,
           CloseMenu, ChooseNothing, ChooseStartStop, ChooseTrayDevice,
           ContinueSave, Resume, MonitorSelects, MonitorEnumerates,
           HandleSessionsChanged, HandleDeviceChanged, CheckForUpdate, End,
           NoProcess, widgets, vars
<1>4. UNCHANGED acts \/ Act
    BY DEF Next, User, OtherLaunch, Start, CreateWindow, CreateBareWindow, TypePort,
           ChooseTheme, ClickBox, ClickStart, ClosePreview, ChooseDevice, OpenMenu,
           ChooseNothing, ChooseStartStop, ChooseTrayDevice, ContinueSave, Resume,
           MonitorSelects, MonitorEnumerates, HandleSessionsChanged,
           HandleDeviceChanged, CheckForUpdate, End, vars
<1> QED BY <1>1, <1>2, <1>3, <1>4, Lengths, ActTyped DEF WidgetTypes

LEMMA NotifyBound ==
    ASSUME NEW kinds \in Seq({"sessions", "device"}), Notify(kinds),
           events \in Seq({"sessions", "device"}), Len(events) <= EventCapacity
    PROVE  Len(events') <= EventCapacity
<1> DEFINE n == IF Len(kinds) < Room THEN Len(kinds) ELSE Room
           fitting == SubSeq(kinds, 1, n)
           used == Len(events)
<1>1. CASE window # "open"
    BY <1>1 DEF Notify
<1>2. CASE window = "open"
  <2>1. events' = events \o fitting
      BY <1>2 DEF Notify
  <2>2. Len(kinds) \in Nat /\ used \in Nat /\ EventCapacity \in Nat /\ Room = EventCapacity - used
      BY SettingsAssumption, LenProperties DEF Room
  <2> HIDE DEF used
  <2>3. n \in Nat /\ n <= Len(kinds) /\ n <= EventCapacity - used
      BY <2>2 DEF used
  <2>4. \A i \in 1 .. Len(kinds) : kinds[i] \in {"sessions", "device"}
      BY ElementOfSeq
  <2> HIDE DEF n
  <2>5. \A i \in 1 .. n : kinds[i] \in {"sessions", "device"}
      BY <2>2, <2>3, <2>4
  <2>6. fitting \in Seq({"sessions", "device"}) /\ Len(fitting) = n
      BY <2>3, <2>5, SubSeqProperties
  <2> HIDE DEF fitting
  <2>7. Len(events \o fitting) = used + n
      BY <2>6, ConcatProperties DEF used
  <2> QED BY <2>1, <2>2, <2>3, <2>7
<1> QED BY <1>1, <1>2

LEMMA AnyApp ==
    /\ \A apps \in Lists : apps \in Seq(Apps) /\ (apps # <<>> => apps[1] \in Apps)
    /\ \A c \in Config : c.device \in Apps \cup {None}
<1>1. ASSUME NEW apps \in Lists, apps # <<>> PROVE apps[1] \in Apps
  <2>1. apps \in Seq(Apps)
      BY SettingsAssumption
  <2>2. Len(apps) # 0 /\ Len(apps) \in Nat
      BY <1>1, <2>1, EmptySeq, LenProperties
  <2>3. \A i \in 1 .. Len(apps) : apps[i] \in Apps
      BY <2>1, ElementOfSeq
  <2> QED BY <2>2, <2>3
<1>2. ASSUME NEW c \in Config PROVE c["device"] \in Apps \cup {None}
    BY ConfigFields, SettingsAssumption
<1> QED BY <1>1, <1>2, SettingsAssumption

LEMMA StepDeviceTypes ==
    ProgramInv /\ ListInv /\ DeviceTypes /\ [Next]_vars => DeviceTypes'
<1> SUFFICES ASSUME ProgramInv, ListInv, DeviceTypes, [Next]_vars PROVE DeviceTypes'
    OBVIOUS
<1>1. UNCHANGED <<selected, watched, asked, events, shown, sel>> => DeviceTypes'
    BY DEF DeviceTypes
<1>2. NoProcess => DeviceTypes'
  <2>1. Len(<<>>) = 0 /\ EventCapacity \in Nat /\ MaxAsked \in Nat
      BY SettingsAssumption
  <2> QED BY <2>1 DEF NoProcess, DeviceTypes
<1>3. CASE Start
  <2>1. launched \in Launched
      BY <1>3 DEF Start, BecomeInstance, ProgramInv, StoreTypeOK
  <2>2. selected' = launched.cfg.device /\ launched.cfg \in Config
      BY <1>3, <2>1 DEF Start, Launched
  <2>3. selected' \in Apps \cup {None}
      BY <2>2, AnyApp
  <2> QED BY <1>3, <2>3 DEF Start, list, DeviceTypes
<1>4. ASSUME NEW apps \in Lists, MonitorEnumerates(apps) PROVE DeviceTypes'
  <2> DEFINE kinds == IF apps = <<>> THEN <<"sessions">> ELSE <<"sessions", "device">>
  <2>1. /\ UNCHANGED <<selected, asked, shown, sel>> /\ Notify(kinds)
        /\ watched' = (IF apps = <<>> THEN None
                       ELSE IF selected \in Range(apps) THEN selected ELSE apps[1])
      BY <1>4 DEF MonitorEnumerates
  <2>2. kinds \in Seq({"sessions", "device"})
    <3>1. /\ <<"sessions">> \in Seq({"sessions", "device"})
          /\ <<"sessions", "device">> \in Seq({"sessions", "device"})
        OBVIOUS
    <3> QED BY <3>1
  <2> HIDE DEF kinds
  <2>3. Len(events') <= EventCapacity
      BY <2>1, <2>2, NotifyBound DEF ListInv, ListTypes, DeviceTypes
  <2> QED BY <2>1, <2>3, AnyApp DEF DeviceTypes
<1>5. CASE MonitorSelects
  <2> DEFINE app == Head(asked)
             rest == Tail(asked)
             n == Len(asked)
  <2>1. /\ asked # <<>> /\ asked' = rest /\ selected' = app /\ UNCHANGED <<shown, sel>>
        /\ \/ watched' = app /\ Notify(<<"device">>)
           \/ UNCHANGED <<watched, events>>
      BY <1>5 DEF MonitorSelects
  <2>2. app \in Apps /\ Len(rest) < n /\ Len(rest) \in Nat
      BY <2>1, TailFacts, HeadTailProperties DEF ListInv, ListTypes
  <2>3. n \in Nat /\ n <= MaxAsked
      BY LenProperties DEF ListInv, ListTypes, DeviceTypes
  <2>4. <<"device">> \in Seq({"sessions", "device"})
      OBVIOUS
  <2>5. Len(events') <= EventCapacity
      BY <2>1, <2>4, NotifyBound DEF ListInv, ListTypes, DeviceTypes
  <2> HIDE DEF app, rest, n
  <2>6. Len(rest) <= MaxAsked
      BY <2>2, <2>3, SettingsAssumption
  <2> QED BY <2>1, <2>2, <2>5, <2>6 DEF DeviceTypes
<1>6. CASE HandleSessionsChanged \/ HandleDeviceChanged
  <2> DEFINE rest == Tail(events)
             n == Len(events)
  <2>1. /\ events # <<>> /\ events' = rest /\ UNCHANGED <<selected, watched, asked>>
        /\ shown' = shown \/ shown' = sessions
        /\ sel' \in {sel, 0, 1, First(cfg.device, sessions), Last(cfg.device, sessions)}
        /\ sel' \notin {sel, 0, 1} => cfg.device \in Range(sessions)
      BY <1>6 DEF HandleSessionsChanged, HandleDeviceChanged, Reselected, monitor
  <2>2. Len(rest) < n /\ Len(rest) \in Nat /\ n \in Nat /\ n <= EventCapacity
      BY <2>1, TailFacts, LenProperties DEF ListInv, ListTypes, DeviceTypes
  <2> HIDE DEF rest, n
  <2>3. Len(rest) <= EventCapacity
      BY <2>2, SettingsAssumption
  <2>4. sessions \in Seq(Apps) /\ DOMAIN sessions \subseteq Nat
      BY LenProperties DEF ListInv, ListTypes
  <2>5. sel' \in Nat
      BY <2>1, <2>4, FoundInList DEF DeviceTypes
  <2> QED BY <2>1, <2>3, <2>5 DEF ProgramInv, DeviceTypes
<1>7. ASSUME NEW i, SelectSession(i), Len(asked) < MaxAsked,
             UNCHANGED <<selected, watched, events, shown>>, sel' \in Nat
      PROVE  DeviceTypes'
  <2> DEFINE n == Len(asked)
  <2>1. asked' = asked \/ (i \in DOMAIN sessions /\ asked' = Append(asked, sessions[i]))
      BY <1>7 DEF SelectSession, Index
  <2>2. \A j \in DOMAIN sessions : sessions[j] \in Apps
      BY ElementOfSeq, LenProperties DEF ListInv, ListTypes
  <2>3. asked' = asked \/ Len(asked') = n + 1
      BY <2>1, <2>2, AppendProperties DEF ListInv, ListTypes
  <2>4. n \in Nat /\ n < MaxAsked
      BY <1>7, LenProperties DEF ListInv, ListTypes
  <2> HIDE DEF n
  <2>5. n + 1 <= MaxAsked
      BY <2>4, SettingsAssumption
  <2>6. Len(asked') <= MaxAsked
      BY <2>3, <2>5 DEF DeviceTypes
  <2> QED BY <1>7, <2>6 DEF DeviceTypes
<1>8. ASSUME NEW i \in DOMAIN shown, ChooseDevice(i) PROVE DeviceTypes'
  <2>1. i \in Nat
      BY LenProperties DEF ListInv, ListTypes
  <2> QED BY <1>7, <1>8, <2>1 DEF ChooseDevice
<1>9. ASSUME NEW i, ChooseTrayDevice(i) PROVE DeviceTypes'
    BY <1>7, <1>9 DEF ChooseTrayDevice, list, DeviceTypes
<1> QED
    BY <1>1, <1>2, <1>3, <1>4, <1>5, <1>6, <1>8, <1>9
    DEF Next, User, OtherLaunch, CreateWindow, CreateBareWindow, TypePort, ChooseTheme,
        ClickBox, ClickStart, ClosePreview, OpenMenu, ChooseNothing, ChooseStartStop,
        ContinueSave, Resume, CheckForUpdate, End, monitor, list, vars

(* The types of the store, the window and the monitor's side of it: what a *)
(* widget shows is a value of its field, but for a port that is no number, *)
(* and no queue exceeds its capacity.                                      *)
THEOREM SettingsTypes == Spec => []TypeOK
<1>1. Init => WidgetTypes /\ DeviceTypes
  <2>1. Init => WidgetTypes
    <3> SUFFICES ASSUME Init PROVE WidgetTypes
        OBVIOUS
    <3>1. started \in BOOLEAN /\ checking \in BOOLEAN
        BY Zenon DEF Init
    <3> QED BY <3>1, SettingsAssumption, Lengths DEF Init, WidgetTypes
  <2>2. Init => DeviceTypes
    <3>1. Len(<<>>) = 0 /\ EventCapacity \in Nat /\ MaxAsked \in Nat
        BY SettingsAssumption
    <3> QED BY <3>1 DEF Init, DeviceTypes
  <2> QED BY <2>1, <2>2
<1>2. ProgramInv /\ ListInv /\ WidgetTypes /\ DeviceTypes => TypeOK
  <2> SUFFICES ASSUME ProgramInv, ListInv, WidgetTypes, DeviceTypes PROVE TypeOK
      OBVIOUS
  <2> QED BY DEF ProgramInv, ListInv, ListTypes, WidgetTypes, DeviceTypes, FormOK,
                 FormTyped, TypeOK
<1> QED BY <1>1, <1>2, AlwaysProgramInv, AlwaysListInv, StepWidgetTypes,
           StepDeviceTypes, PTL DEF Spec
=============================================================================

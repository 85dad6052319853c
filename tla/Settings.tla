------------------------------ MODULE Settings ------------------------------
(***************************************************************************)
(* The settings window and the tray menu (internal/gui/gui.go), which run  *)
(* on one thread: what the user does becomes a changed configuration, a    *)
(* save, and perhaps a preview window (internal/webview).  The web server  *)
(* runs as long as the process does: "starting" it shows its addresses and *)
(* the preview.  A handler is an action up to its Save, the steps of the   *)
(* save are those of ConfigStore, and Resume is what comes after it.       *)
(*                                                                         *)
(* The list of devices is a copy of the monitor's list of sessions, kept   *)
(* up by messages that a goroutine posts for the events it receives.  The  *)
(* monitor is external here: Sessions is about it.                         *)
(*                                                                         *)
(* A configuration has the fields of FormFields and the device; the other  *)
(* two boxes of the window are saved as these are and left out.            *)
(***************************************************************************)
EXTENDS ConfigStore, Sequences, Functions

CONSTANTS NotANumber,  \* a port text that strconv.Atoi refuses
          PortTexts,   \* what a user may type: ports, in range or not, or that
          Themes,      \* the names in the directory "themes", in order
          NoTheme,     \* the empty string
          Clickable,   \* the boxes the user clicks, of "preview", "autoStart"
          Apps,        \* application ids
          None,        \* no application, the empty string
          Lists,       \* the lists of applications the monitor may report
          EventCapacity, \* what the bridge's channel and the message queue hold
          MaxAsked,    \* bound on the selections the monitor has yet to execute
          MaxActs,     \* bound on what the user and the players do
          Version,     \* of this program: a sequence of at most three numbers
          Tags         \* the versions of the latest release, such sequences

FormFields == {"port", "theme", "preview", "autoStart"}

(* The values of a field: its Go type, whatever the other fields hold.     *)
Values == [f \in DOMAIN Default |-> {c[f] : c \in Config}]

ASSUME SettingsAssumption ==
    /\ DOMAIN Default = FormFields \cup {"device"}
    /\ \A c \in Config, f \in DOMAIN Default : \A v \in Values[f] :
           [c EXCEPT ![f] = v] \in Config
    /\ PortTexts \subseteq Values["port"] \cup {NotANumber}
    /\ Themes \in Seq(Values["theme"]) /\ NoTheme \in Values["theme"]
    /\ Values["preview"] = BOOLEAN /\ Values["autoStart"] = BOOLEAN
    /\ Values["device"] = Apps \cup {None}
    /\ None \notin Apps /\ Clickable \subseteq {"preview", "autoStart"}
    /\ Lists \subseteq Seq(Apps) /\ Lists # {}
    /\ EventCapacity \in Nat \ {0}
    /\ MaxAsked \in Nat \ {0} /\ MaxActs \in Nat

VARIABLES
  window,     \* "none", "bare" (WmCreate gave up), "open"
  form,       \* what the widgets show, by field
  started,    \* serverStarted
  preview,    \* webViewWin: "none", "open", or "failed" to be created
  after,      \* what the handler does once its Save returns
  menu,       \* the tray menu, a sequence of at most one: the value of
              \* isServerRunning and the devices it was built with
  checking,   \* the update check has not returned
  sessions,   \* the monitor's sessions, by application
  selected, watched,  \* its selectedAppID, and the application it watches
  asked,      \* the calls of SelectDevice it has yet to execute
  events,     \* the events and messages on their way to the window
  shown, sel, \* the items of the device list, the selected one or 0
  missed,     \* history: one was lost since the list was last filled
  acts        \* counts what the user and the players do

widgets == <<window, form, started, preview, after, menu, checking>>
monitor == <<sessions, selected, watched, asked>>
list    == <<events, shown, sel, missed>>
vars    == <<storeVars, widgets, monitor, list, acts>>

NoForm == [f \in FormFields |-> Default[f]]

NoProcess == /\ window' = "none" /\ form' = NoForm /\ started' = FALSE
             /\ preview' = "none" /\ after' = "none" /\ menu' = <<>>
             /\ checking' = FALSE
             /\ sessions' = <<>> /\ selected' = None /\ watched' = None
             /\ asked' = <<>> /\ events' = <<>>
             /\ shown' = <<>> /\ sel' = 0 /\ missed' = FALSE

Init == /\ StoreInit /\ acts = 0
        /\ window = "none" /\ form = NoForm /\ started = FALSE
        /\ preview = "none" /\ after = "none" /\ menu = <<>>
        /\ checking = FALSE
        /\ sessions = <<>> /\ selected = None /\ watched = None
        /\ asked = <<>> /\ events = <<>>
        /\ shown = <<>> /\ sel = 0 /\ missed = FALSE

(* The thread is in its message loop; the menu has a loop of its own, in   *)
(* which posted messages are handled and the window's widgets are not.     *)
InLoop == running /\ window # "none" /\ saving = "none" /\ after = "none"
AtWidgets == InLoop /\ menu = <<>>

(* One more thing that the user or a player does, except for opening the   *)
(* menu and closing it without a choice, which repeat nothing new.         *)
Act == acts < MaxActs /\ acts' = acts + 1

-----------------------------------------------------------------------------
(* main: the process becomes the instance, and the monitor and the update  *)
(* check begin before the window is created.                               *)
Start == /\ BecomeInstance
         /\ selected' = launched.cfg.device
         /\ checking' = TRUE
         /\ UNCHANGED <<window, form, started, preview, after, menu, sessions,
                        watched, asked, list, acts>>

OtherLaunch == (Launch \/ RefuseInstance) /\ UNCHANGED <<widgets, monitor, list, acts>>

(* syncConfig. *)
Synced(shownForm) ==
    [f \in DOMAIN cfg |-> IF f \notin FormFields THEN cfg[f]
                          ELSE IF f = "port" /\ shownForm.port = NotANumber THEN cfg.port
                          ELSE shownForm[f]]

(* WmCreate.  When the themes cannot be read it gives up: no tray icon, no *)
(* events, no automatic start.                                             *)
FormFor(theme) == [f \in FormFields |-> IF f = "theme" THEN theme ELSE cfg[f]]
Preselected == IF cfg.theme \in Range(Themes) THEN cfg.theme
               ELSE IF Themes = <<>> THEN NoTheme
               ELSE Themes[1]

CreateBareWindow == /\ running /\ window = "none"
                    /\ window' = "bare" /\ form' = FormFor(NoTheme)
                    /\ UNCHANGED <<storeVars, started, preview, after, menu,
                                   checking, monitor, list, acts>>

CreateWindow == /\ running /\ window = "none"
                /\ window' = "open" /\ form' = FormFor(Preselected)
                /\ \/ /\ cfg.autoStart
                      /\ Save(Synced(FormFor(Preselected)))
                      /\ after' = "start"
                   \/ /\ ~cfg.autoStart
                      /\ UNCHANGED <<storeVars, after>>
                /\ UNCHANGED <<started, preview, menu, checking, monitor, list, acts>>

-----------------------------------------------------------------------------
(* The user types a port, or chooses a theme, which is saved only while    *)
(* the server is started.  Faulty variant: it is shown and not saved.      *)
TypePort(text) == /\ Act /\ AtWidgets
                  /\ form' = [form EXCEPT !.port = text]
                  /\ UNCHANGED <<storeVars, window, started, preview, after, menu,
                                 checking, monitor, list>>

SetThemeOnly(c) == cfg' = c /\ UNCHANGED <<disk, running, saving, outcome, launched>>
SetTheme(c) == Save(c)

ChooseTheme(theme) ==
    /\ Act /\ AtWidgets /\ window = "open"
    /\ form' = [form EXCEPT !.theme = theme]
    /\ \/ started /\ SetTheme([cfg EXCEPT !.theme = theme])
       \/ ~started /\ UNCHANGED storeVars
    /\ UNCHANGED <<window, started, preview, after, menu, checking, monitor, list>>

(* A box is clicked.                                                       *)
ClickBox(box) ==
    LET clicked == [form EXCEPT ![box] = ~@]
    IN  /\ Act /\ AtWidgets
        /\ form' = clicked
        /\ Save(Synced(clicked))
        /\ after' = IF box = "preview" THEN "preview" ELSE "none"
        /\ UNCHANGED <<window, started, preview, menu, checking, monitor, list>>

(* stopWebServer.                                                          *)
DestroyWebView == preview' = "none"
StopWebServer == /\ started' = FALSE
                 /\ DestroyWebView
                 /\ UNCHANGED <<storeVars, after>>

(* The button, and its entry in the menu, up to startWebServer.            *)
StartStop(isServerRunning) ==
    \/ isServerRunning /\ StopWebServer
    \/ /\ ~isServerRunning
       /\ Save(Synced(form))
       /\ after' = "start"
       /\ UNCHANGED <<started, preview>>

ClickStart == /\ Act /\ AtWidgets
              /\ StartStop(started)
              /\ UNCHANGED <<window, form, menu, checking, monitor, list>>

(* createWebView, which may fail, unless there is one.                     *)
CreateWebView == \/ preview = "open" /\ UNCHANGED preview
                 \/ preview # "open" /\ preview' \in {"open", "failed"}

(* startWebServer, which shows no preview when the interfaces cannot be    *)
(* listed, and the end of the preview box's handler.                       *)
Resume == /\ running /\ saving = "none" /\ after # "none"
          /\ after' = "none"
          /\ \/ /\ after = "start"
                /\ started' = TRUE
                /\ \/ form.preview /\ CreateWebView
                   \/ form.preview /\ preview' = "failed"
                   \/ ~form.preview /\ UNCHANGED preview
             \/ /\ after = "preview"
                /\ UNCHANGED started
                /\ \/ ~started /\ UNCHANGED preview
                   \/ started /\ form.preview /\ CreateWebView
                   \/ started /\ ~form.preview /\ DestroyWebView
          /\ UNCHANGED <<storeVars, window, form, menu, checking, monitor, list, acts>>

(* The user closes the preview: OnDestroy clears the box and saves nothing.*)
(* Faulty variant: the box stays.                                          *)
BoxKept == UNCHANGED form
ClearBox == form' = [form EXCEPT !.preview = FALSE]
ClosePreview == /\ Act /\ InLoop /\ started /\ preview = "open"
                /\ preview' = "none"
                /\ ClearBox
                /\ UNCHANGED <<storeVars, window, started, after, menu, checking,
                               monitor, list>>

-----------------------------------------------------------------------------
(* fanOut to the bridge, which posts a message.  What does not fit is lost.*)
(* Faulty variant: what is already there is not counted.                   *)
RoomOfEmpty == EventCapacity
Room == EventCapacity - Len(events)
Notify(kinds) ==
    IF window # "open" THEN missed' = TRUE /\ UNCHANGED events
    ELSE /\ events' = events \o SubSeq(kinds, 1, IF Len(kinds) < Room THEN Len(kinds)
                                                                    ELSE Room)
         /\ missed' = (missed \/ Room < Len(kinds))

Indices(app, apps) == {i \in DOMAIN apps : apps[i] = app}
First(app, apps) == CHOOSE i \in Indices(app, apps) :
                        \A j \in Indices(app, apps) : i <= j
Last(app, apps) == CHOOSE i \in Indices(app, apps) :
                        \A j \in Indices(app, apps) : j <= i

(* applySessionList and selectDevice of the monitor.                       *)
MonitorEnumerates(apps) ==
    /\ Act /\ running
    /\ sessions' = apps
    /\ watched' = IF apps = <<>> THEN None
                  ELSE IF selected \in Range(apps) THEN selected
                  ELSE apps[1]
    /\ Notify(IF apps = <<>> THEN <<"sessions">> ELSE <<"sessions", "device">>)
    /\ UNCHANGED <<storeVars, widgets, selected, asked, shown, sel>>

MonitorSelects ==
    /\ running /\ asked # <<>>
    /\ asked' = Tail(asked)
    /\ selected' = Head(asked)
    /\ \/ /\ Head(asked) \in Range(sessions)
          /\ watched' = Head(asked)
          /\ Notify(<<"device">>)
       \/ /\ Head(asked) \notin Range(sessions)
          /\ UNCHANGED <<watched, events, missed>>
    /\ UNCHANGED <<storeVars, widgets, sessions, shown, sel, acts>>

(* The handler of wmSessionsChanged fills the list anew and selects the    *)
(* last item of the device, or the first of all.  Faulty variant: it       *)
(* leaves the selection where it was.                                      *)
SelectionKept == sel
Reselected == IF sessions = <<>> THEN 0
              ELSE IF cfg.device \in Range(sessions) THEN Last(cfg.device, sessions)
              ELSE 1
HandleSessionsChanged ==
    /\ InLoop /\ events # <<>> /\ Head(events) = "sessions"
    /\ events' = Tail(events)
    /\ shown' = sessions /\ sel' = Reselected
    /\ missed' = FALSE
    /\ UNCHANGED <<storeVars, widgets, monitor, acts>>

(* That of wmDeviceChanged selects an index of the present list, which the *)
(* list shown may not have: then nothing is selected.                      *)
HandleDeviceChanged ==
    /\ InLoop /\ events # <<>> /\ Head(events) = "device"
    /\ events' = Tail(events)
    /\ sel' = IF cfg.device \notin Range(sessions) THEN sel
              ELSE IF First(cfg.device, sessions) > Len(shown) THEN 0
              ELSE First(cfg.device, sessions)
    /\ UNCHANGED <<storeVars, widgets, monitor, shown, missed, acts>>

(* An index is resolved against the present list.  Faulty variant: the     *)
(* indices are taken to begin at one.                                      *)
OffByOne(i) == i + 1
Index(i) == i
SelectSession(i) ==
    \/ /\ Index(i) \in DOMAIN sessions
       /\ asked' = Append(asked, sessions[Index(i)])
       /\ Save([cfg EXCEPT !.device = sessions[Index(i)]])
    \/ /\ Index(i) \notin DOMAIN sessions
       /\ UNCHANGED <<storeVars, asked>>

ChooseDevice(i) == /\ Act /\ AtWidgets /\ i \in DOMAIN shown
                   /\ Len(asked) < MaxAsked
                   /\ sel' = i
                   /\ SelectSession(i)
                   /\ UNCHANGED <<widgets, sessions, selected, watched, events,
                                  shown, missed>>

-----------------------------------------------------------------------------
(* The tray menu is shown with what is the case then.                      *)
OpenMenu == /\ AtWidgets /\ window = "open"
            /\ menu' = <<[running |-> started,
                          devices |-> IF started THEN sessions ELSE <<>>]>>
            /\ UNCHANGED <<storeVars, window, form, started, preview, after,
                           checking, monitor, list, acts>>

CloseMenu == menu # <<>> /\ InLoop /\ menu' = <<>>

ChooseNothing == /\ CloseMenu
                 /\ UNCHANGED <<storeVars, window, form, started, preview, after,
                                checking, monitor, list, acts>>

ChooseStartStop == /\ Act /\ CloseMenu
                   /\ StartStop(menu[1].running)
                   /\ UNCHANGED <<window, form, checking, monitor, list>>

ChooseTrayDevice(i) == /\ Act /\ CloseMenu /\ i \in DOMAIN menu[1].devices
                       /\ Len(asked) < MaxAsked
                       /\ SelectSession(i)
                       /\ UNCHANGED <<window, form, started, preview, after,
                                      checking, sessions, selected, watched, list>>

-----------------------------------------------------------------------------
(* compareVersions looks at three parts of both versions and stops at the  *)
(* first that differs; a part that is missing is an index past the end.    *)
PartsEqual(a, b, n) ==
    /\ n <= Len(a) /\ n <= Len(b)
    /\ \A i \in 1 .. n : a[i] = b[i]
PanicsOn(a, b) == \E n \in 0 .. 2 : PartsEqual(a, b, n) /\ (n + 1 > Len(a) \/ n + 1 > Len(b))

(* CheckForUpdate, on a goroutine: it fails, or logs what it has found, or *)
(* its panic ends the process.                                             *)
CheckForUpdate == /\ running /\ checking
                  /\ \/ /\ checking' = FALSE
                        /\ UNCHANGED <<storeVars, window, form, started, preview,
                                       after, menu, monitor, list, acts>>
                     \/ /\ \E tag \in Tags : PanicsOn(tag, Version)
                        /\ EndProcess
                        /\ NoProcess /\ UNCHANGED acts

(* The window is closed and the services end, or the process is killed.    *)
End == (EndProcess \/ PowerFails) /\ NoProcess /\ UNCHANGED acts

ContinueSave == SaveStep /\ UNCHANGED <<widgets, monitor, list, acts>>

-----------------------------------------------------------------------------
User == \/ \E text \in PortTexts : TypePort(text)
        \/ \E theme \in Range(Themes) : ChooseTheme(theme)
        \/ \E box \in Clickable : ClickBox(box)
        \/ \E i \in DOMAIN shown : ChooseDevice(i)
        \/ ClickStart \/ ClosePreview
        \/ OpenMenu \/ ChooseNothing \/ ChooseStartStop
        \/ \E m \in Range(menu) : \E i \in DOMAIN m.devices : ChooseTrayDevice(i)

Next == \/ OtherLaunch \/ Start \/ CreateWindow \/ CreateBareWindow \/ User
        \/ ContinueSave \/ Resume
        \/ MonitorSelects \/ \E apps \in Lists : MonitorEnumerates(apps)
        \/ HandleSessionsChanged \/ HandleDeviceChanged
        \/ CheckForUpdate \/ End

Spec == Init /\ [][Next]_vars

-----------------------------------------------------------------------------
TypeOK == /\ StoreTypeOK
          /\ window \in {"none", "bare", "open"}
          /\ DOMAIN form = FormFields
          /\ \A f \in FormFields :
                 form[f] \in Values[f] \/ (f = "port" /\ form[f] = NotANumber)
          /\ started \in BOOLEAN /\ checking \in BOOLEAN
          /\ preview \in {"none", "open", "failed"}
          /\ after \in {"none", "start", "preview"}
          /\ Len(menu) <= 1
          /\ sessions \in Lists \cup {<<>>} /\ shown \in Lists \cup {<<>>}
          /\ selected \in Apps \cup {None} /\ watched \in Apps \cup {None}
          /\ asked \in Seq(Apps) /\ Len(asked) <= MaxAsked
          /\ events \in Seq({"sessions", "device"}) /\ Len(events) <= EventCapacity
          /\ sel \in Nat /\ missed \in BOOLEAN /\ acts \in 0 .. MaxActs

(* The preview is there while the server is started and its box is checked *)
(* and only then, whether the button, the menu, the box or the preview     *)
(* itself was used last, except while a handler is saving or when it could *)
(* not be created.                                                         *)
PreviewFollowsBox ==
    /\ preview = "open" => started
    /\ running /\ saving = "none" /\ after = "none" =>
          /\ preview = "open" => form.preview
          /\ started /\ form.preview => preview # "none"

(* When the monitor and the window have done all there was to do, and no   *)
(* event was lost or came before the window subscribed, the list shows the *)
(* monitor's sessions, and the one selected in it is the configured device *)
(* and the one that is watched, if that device is there at all.            *)
Quiet == window = "open" /\ events = <<>> /\ asked = <<>> /\ ~missed
ListShowsWatched ==
    Quiet => /\ shown = sessions
             /\ cfg.device \in Range(sessions)
                   => sel # 0 /\ shown[sel] = cfg.device /\ watched = cfg.device

(* The device selected in the list is the one its item shows, unless the   *)
(* list has changed and the message that tells is on its way or was lost.  *)
ChosenIsShown ==
    [][menu = <<>> /\ window = "open" /\ asked' # asked /\ Len(asked') > Len(asked)
          => \/ shown[sel'] = cfg'.device
             \/ "sessions" \in Range(events) \/ missed]_vars
=============================================================================

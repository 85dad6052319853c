---------------------------- MODULE ThemeClient ----------------------------
(***************************************************************************)
(* A browser page of a theme (script/functions.js): its WebSocket and the  *)
(* retries after it closes, and what it makes of the messages, some of it  *)
(* at once and some when a timer fires.  JavaScript runs one callback at a *)
(* time, so that each is one action, and timers fire in any order: their   *)
(* delays are left out.  The callbacks of the theme only show what they    *)
(* are given; setExtendedInfo, setExtendedProgress and setPlayingStatus    *)
(* are left out because they show each message as it comes.                *)
(*                                                                         *)
(* The server is external here.  It keeps the last message of each kind,   *)
(* sends both to a page that connects, and each new one to a page that is  *)
(* connected, in order: ClientSync is about whether it does.               *)
(***************************************************************************)
EXTENDS Naturals, FiniteSets

CONSTANTS Tracks,        \* the pairs (title, artist)
          Arts,          \* album art URLs
          NoArt,         \* the empty one
          Points,        \* the pairs (position, duration)
          Infos,         \* the info messages
          Progresses,    \* the progress messages
          None,          \* null
          RECONNECT_MIN, RECONNECT_MAX  \* in seconds

ASSUME ThemeClientAssumption ==
    /\ None \notin Tracks \cup Points \cup Infos \cup Progresses
    /\ NoArt \in Arts
    /\ Infos \subseteq [track : Tracks, art : Arts]
    (* The status "stopped" is 0-3; moving: the playback rate is greater    *)
    (* than 0; stamped: lastUpdatedTime is not 0.                          *)
    /\ Progresses \subseteq [point : Points, moving : BOOLEAN, stamped : BOOLEAN,
                             status : {"playing", "paused", "stopped"}]
    /\ RECONNECT_MIN \in Nat \ {0} /\ RECONNECT_MAX \in Nat
    /\ RECONNECT_MIN <= RECONNECT_MAX

VARIABLES
  calm,          \* nothing is published and no connection breaks any more
  lastInfo, lastProgress,  \* the last messages the server published
  owed,          \* which of them, "info" and "progress", are on their way
  socket,        \* "connecting", "open" or "closed"
  reconnectDelay,
  retry,         \* the delay of the timer that will reconnect, 0 if none
  reloading,     \* the timer that will reload the page is armed
  currentTrack,  \* currentTitle and currentArtist
  currentAlbumArt,
  transitionTimer, pendingTrackInfo,
  playbackState, \* the last progress message
  idleTimer,
  animating,     \* rafId is not null
  shown,         \* what the theme was last told to show: track and art
  bar,           \* where its progress bar comes from
  transitioning, \* that class of the root element
  class,         \* the other one, "none" at first
  seen           \* history: the last info message

server  == <<calm, lastInfo, lastProgress>>
link    == <<owed, socket, reconnectDelay, retry, reloading>>
song    == <<currentTrack, currentAlbumArt, transitionTimer, pendingTrackInfo>>
play    == <<playbackState, idleTimer, animating>>
dom     == <<shown, bar, transitioning, class>>
vars    == <<server, link, song, play, dom, seen>>

Init == /\ calm = FALSE /\ lastInfo = None /\ lastProgress = None
        /\ owed = {} /\ socket = "connecting" /\ retry = 0
        /\ reconnectDelay = RECONNECT_MIN /\ reloading = FALSE
        /\ currentTrack = None /\ currentAlbumArt = NoArt
        /\ transitionTimer = FALSE /\ pendingTrackInfo = None
        /\ playbackState = None /\ idleTimer = FALSE /\ animating = FALSE
        /\ shown = [track |-> None, art |-> NoArt] /\ bar = None
        /\ transitioning = FALSE /\ class = "none"
        /\ seen = None

-----------------------------------------------------------------------------
(* The server publishes a message, when the one before it has reached the  *)
(* page or will not: only their order shows on the page.                   *)
Owes(kind) == owed' = IF socket = "open" THEN owed \cup {kind} ELSE owed

PublishInfo == /\ ~calm /\ "info" \notin owed
               /\ lastInfo' \in Infos
               /\ Owes("info")
               /\ UNCHANGED <<calm, lastProgress, socket, reconnectDelay, retry,
                              reloading, song, play, dom, seen>>

PublishProgress == /\ ~calm /\ "progress" \notin owed
                   /\ lastProgress' \in Progresses
                   /\ Owes("progress")
                   /\ UNCHANGED <<calm, lastInfo, socket, reconnectDelay, retry,
                                  reloading, song, play, dom, seen>>

CalmDown == /\ ~calm /\ calm' = TRUE
            /\ UNCHANGED <<lastInfo, lastProgress, link, song, play, dom, seen>>

-----------------------------------------------------------------------------
(* ws.onopen; the server answers with what it has.                         *)
Open == /\ socket = "connecting"
        /\ socket' = "open"
        /\ reconnectDelay' = RECONNECT_MIN
        /\ owed' = {k \in {"info", "progress"} :
                       (IF k = "info" THEN lastInfo ELSE lastProgress) # None}
        /\ UNCHANGED <<server, retry, reloading, song, play, dom, seen>>

(* The next delay.  Faulty variant: without the upper limit.               *)
Doubled == reconnectDelay * 2
Backoff == IF Doubled <= RECONNECT_MAX THEN Doubled ELSE RECONNECT_MAX

(* ws.onclose: the attempt failed or the connection broke.  Faulty         *)
(* variant: only an open connection is tried again.                        *)
RetryOpen == IF socket = "open" THEN reconnectDelay ELSE 0
Retry == reconnectDelay

Close == /\ ~calm
         /\ socket \in {"connecting", "open"}
         /\ socket' = "closed" /\ owed' = {}
         /\ retry' = Retry
         /\ reconnectDelay' = Backoff
         /\ UNCHANGED <<server, reloading, song, play, dom, seen>>

(* addWebSocket again. *)
Reconnect == /\ retry # 0
             /\ retry' = 0
             /\ socket' = "connecting"
             /\ UNCHANGED <<server, owed, reconnectDelay, reloading, song, play,
                            dom, seen>>

(* A reload message, and location.reload 100 ms later.                     *)
ReceiveReload == /\ ~calm
                 /\ socket = "open"
                 /\ reloading' = TRUE
                 /\ UNCHANGED <<server, owed, socket, reconnectDelay, retry, song,
                                play, dom, seen>>

Reload == /\ reloading
          /\ owed' = {} /\ socket' = "connecting" /\ retry' = 0
          /\ reconnectDelay' = RECONNECT_MIN /\ reloading' = FALSE
          /\ currentTrack' = None /\ currentAlbumArt' = NoArt
          /\ transitionTimer' = FALSE /\ pendingTrackInfo' = None
          /\ playbackState' = None /\ idleTimer' = FALSE /\ animating' = FALSE
          /\ shown' = [track |-> None, art |-> NoArt] /\ bar' = None
          /\ transitioning' = FALSE /\ class' = "none"
          /\ seen' = None
          /\ UNCHANGED server

-----------------------------------------------------------------------------
(* handleInfo.  The first track, or the one that was the last.             *)
Known(i) == currentTrack \in {None, i.track}

(* Its values replace those a pending transition will show.  Faulty        *)
(* variant: the transition shows those it was started with.                *)
UpdateCaptured(i) == /\ Known(i) /\ transitionTimer
                     /\ UNCHANGED <<shown, currentAlbumArt, transitionTimer,
                                    pendingTrackInfo, transitioning>>
UpdatePending(i) == /\ Known(i) /\ transitionTimer
                    /\ pendingTrackInfo' = i
                    /\ UNCHANGED <<shown, currentAlbumArt, transitionTimer,
                                   transitioning>>

(* Or they are shown, the art if it is another.                            *)
UpdateShown(i) == /\ Known(i) /\ ~transitionTimer
                  /\ shown' = [track |-> i.track,
                               art |-> IF i.art = currentAlbumArt THEN shown.art
                                                                  ELSE i.art]
                  /\ currentAlbumArt' = i.art
                  /\ UNCHANGED <<transitionTimer, pendingTrackInfo, transitioning>>

(* Another track: a transition is started, or started anew.  Faulty        *)
(* variant: what was started goes on, as if another track were the same.   *)
ChangeSongAtOnce(i) == /\ ~Known(i)
                       /\ shown' = i /\ currentAlbumArt' = i.art
                       /\ UNCHANGED <<transitionTimer, pendingTrackInfo,
                                      transitioning>>
ChangeSong(i) == /\ ~Known(i)
                 /\ transitioning' = TRUE
                 /\ pendingTrackInfo' = i
                 /\ transitionTimer' = TRUE
                 /\ UNCHANGED <<shown, currentAlbumArt>>

ReceiveInfo == /\ "info" \in owed
               /\ owed' = owed \ {"info"}
               /\ \/ UpdatePending(lastInfo) \/ UpdateShown(lastInfo)
                  \/ ChangeSong(lastInfo)
               /\ currentTrack' = lastInfo.track
               /\ seen' = lastInfo
               /\ UNCHANGED <<server, socket, reconnectDelay, retry, reloading,
                              play, bar, class>>

(* The timeout of 300 ms. *)
EndTransition == /\ transitionTimer
                 /\ transitionTimer' = FALSE
                 /\ shown' = pendingTrackInfo
                 /\ currentAlbumArt' = pendingTrackInfo.art
                 /\ pendingTrackInfo' = None
                 /\ transitioning' = FALSE
                 /\ UNCHANGED <<server, link, currentTrack, play, bar, class, seen>>

-----------------------------------------------------------------------------
(* handleProgress.  Whether the idle timer is armed afterwards.  Faulty    *)
(* variant: it is not cleared for a paused player.                         *)
KeepsIdleTimer(status) == status = "stopped" \/ (status = "paused" /\ idleTimer)
ArmsIdleTimer(status) == status = "stopped"

ReceiveProgress ==
    /\ "progress" \in owed
    /\ owed' = owed \ {"progress"}
    /\ playbackState' = lastProgress
    /\ class' = lastProgress.status
    /\ idleTimer' = ArmsIdleTimer(lastProgress.status)
    /\ \/ /\ lastProgress.status = "playing" /\ lastProgress.stamped
          /\ animating' = TRUE
          /\ UNCHANGED bar
       \/ /\ lastProgress.status # "playing" \/ ~lastProgress.stamped
          /\ animating' = FALSE
          /\ bar' = lastProgress.point
    /\ UNCHANGED <<server, socket, reconnectDelay, retry, reloading, song, shown,
                   transitioning, seen>>

(* The timeout of hideDelay. *)
FireIdleTimer == /\ idleTimer
                 /\ class' = "idle"
                 /\ idleTimer' = FALSE
                 /\ UNCHANGED <<server, link, song, playbackState, animating,
                                shown, bar, transitioning, seen>>

(* A frame of animationLoop moves the bar, on from the last position.      *)
Animate == /\ animating
           /\ playbackState.moving /\ playbackState.status = "playing"
           /\ bar # playbackState.point
           /\ bar' = playbackState.point
           /\ UNCHANGED <<server, link, song, play, shown, transitioning, class,
                          seen>>

-----------------------------------------------------------------------------
Timers == Reconnect \/ Reload \/ EndTransition \/ FireIdleTimer \/ Animate
Messages == ReceiveInfo \/ ReceiveProgress

Next == \/ PublishInfo \/ PublishProgress \/ CalmDown
        \/ Open \/ Close \/ ReceiveReload
        \/ Messages \/ Timers

Spec == Init /\ [][Next]_vars

(* Messages on their way arrive, timers fire, frames are drawn, and once   *)
(* nothing breaks any more an attempt to connect succeeds.                 *)
FairSpec == /\ Spec
            /\ WF_vars(Messages) /\ WF_vars(calm /\ Open)
            /\ WF_vars(Reconnect) /\ WF_vars(Reload)
            /\ WF_vars(EndTransition) /\ WF_vars(FireIdleTimer) /\ WF_vars(Animate)

-----------------------------------------------------------------------------
TypeOK == /\ calm \in BOOLEAN
          /\ lastInfo \in Infos \cup {None} /\ lastProgress \in Progresses \cup {None}
          /\ owed \subseteq {"info", "progress"}
          /\ socket \in {"connecting", "open", "closed"}
          /\ reconnectDelay \in RECONNECT_MIN .. RECONNECT_MAX
          /\ retry \in 0 .. RECONNECT_MAX
          /\ reloading \in BOOLEAN /\ idleTimer \in BOOLEAN
          /\ animating \in BOOLEAN
          /\ transitionTimer \in BOOLEAN /\ transitioning \in BOOLEAN
          /\ currentTrack \in Tracks \cup {None} /\ currentAlbumArt \in Arts
          /\ pendingTrackInfo \in Infos \cup {None}
          /\ playbackState \in Progresses \cup {None}
          /\ shown \in [track : Tracks \cup {None}, art : Arts]
          /\ bar \in Points \cup {None}
          /\ class \in {"none", "playing", "paused", "stopped", "idle"}
          /\ seen \in Infos \cup {None}

(* The page shows the track and the art of the last info message, or will  *)
(* when the pending transition ends, whatever came while it was pending    *)
(* and although unchanged art is not shown again.                          *)
LastInfoWins == seen # None =>
                    IF transitionTimer THEN pendingTrackInfo = seen ELSE shown = seen

(* The page is hidden, or will be, only while the player is stopped: an    *)
(* idle timer armed earlier never hides a playing or a paused one.         *)
IdleOnlyWhenStopped ==
    idleTimer \/ class = "idle" => playbackState # None /\ playbackState.status = "stopped"

(* One track gives way to another only while the page has the class        *)
(* "transitioning" (README.md:435), or by a reload.                        *)
SongsFadeOut ==
    [][shown'.track # shown.track =>
          transitioning \/ None \in {shown.track, shown'.track}]_vars

(* Whatever closed, came late or was reloaded before: once the server is   *)
(* silent and can be reached, the page ends up showing its last messages.  *)
(* The progress of a player whose rate is not above 0 is left where it is. *)
InfoShown == lastInfo # None => shown = lastInfo /\ ~transitioning
ProgressShown ==
    lastProgress # None =>
        /\ class = IF lastProgress.status = "stopped" THEN "idle"
                                                     ELSE lastProgress.status
        /\ \/ bar = lastProgress.point
           \/ animating /\ ~lastProgress.moving
PageSettles == calm ~> [](socket = "open" /\ InfoShown /\ ProgressShown)
=============================================================================

------------------------- MODULE ThemeClientProofs -------------------------
(***************************************************************************)
(* The safety of ThemeClient for all sets of messages and all limits of    *)
(* the delay: what the page shows depends on three timers and on copies of *)
(* what came last, and these agree.                                        *)
(***************************************************************************)
EXTENDS ThemeClient, TLAPS

(* The page's copies of the last info message and the flags of a           *)
(* transition agree, and the art that was pushed last is the one shown.    *)
CopiesAgree ==
    /\ currentTrack = IF seen = None THEN None ELSE seen.track
    /\ transitionTimer => pendingTrackInfo # None /\ seen # None
    /\ transitioning = transitionTimer
    /\ seen = None => shown.track = None
    /\ currentAlbumArt = shown.art

(* Only a position that was received moves. *)
AnimatesSomething == animating => playbackState # None

(* Only what was published is on its way. *)
OwedExists == /\ "info" \in owed => lastInfo # None
              /\ "progress" \in owed => lastProgress # None

IInv == /\ TypeOK /\ OwedExists /\ CopiesAgree /\ AnimatesSomething
        /\ LastInfoWins /\ IdleOnlyWhenStopped

-----------------------------------------------------------------------------
(* The next delay stays between the limits.                                *)
LEMMA BackoffBounds ==
    ASSUME reconnectDelay \in RECONNECT_MIN .. RECONNECT_MAX
    PROVE  Backoff \in RECONNECT_MIN .. RECONNECT_MAX
BY ThemeClientAssumption DEF Backoff, Doubled

(* A page that has just been loaded.                                       *)
LEMMA InvInit == Init => IInv
<1> SUFFICES ASSUME Init PROVE IInv
  OBVIOUS
<1>1. /\ calm \in BOOLEAN /\ reloading \in BOOLEAN /\ idleTimer \in BOOLEAN
      /\ animating \in BOOLEAN /\ transitionTimer \in BOOLEAN
      /\ transitioning \in BOOLEAN /\ transitioning = transitionTimer
  BY DEF Init
<1>2. shown \in [track : Tracks \cup {None}, art : Arts]
  BY ThemeClientAssumption DEF Init
<1>3. TypeOK
  BY <1>1, <1>2, ThemeClientAssumption DEF Init, TypeOK
<1>4. CopiesAgree
  BY <1>1 DEF Init, CopiesAgree
<1>5. OwedExists /\ AnimatesSomething /\ LastInfoWins /\ IdleOnlyWhenStopped
  BY DEF Init, OwedExists, AnimatesSomething, LastInfoWins, IdleOnlyWhenStopped
<1> QED BY <1>3, <1>4, <1>5 DEF IInv

(* Actions that leave the page itself alone.                               *)
LEMMA OutsideKeepsInv ==
    ASSUME IInv, UNCHANGED <<song, play, dom, seen>>,
           calm' \in BOOLEAN, reloading' \in BOOLEAN,
           lastInfo' \in Infos \cup {None}, lastProgress' \in Progresses \cup {None},
           owed' \subseteq {"info", "progress"},
           socket' \in {"connecting", "open", "closed"},
           reconnectDelay' \in RECONNECT_MIN .. RECONNECT_MAX,
           retry' \in 0 .. RECONNECT_MAX,
           OwedExists'
    PROVE  IInv'
<1> USE DEF IInv, song, play, dom
<1>1. TypeOK' BY DEF TypeOK
<1>2. CopiesAgree' /\ AnimatesSomething' BY DEF CopiesAgree, AnimatesSomething
<1>3. LastInfoWins' BY DEF LastInfoWins
<1>4. IdleOnlyWhenStopped' BY DEF IdleOnlyWhenStopped
<1> QED BY <1>1, <1>2, <1>3, <1>4

LEMMA LinkKeepsInv ==
    IInv /\ (PublishInfo \/ PublishProgress \/ CalmDown \/ Open \/ Close
             \/ Reconnect \/ ReceiveReload \/ UNCHANGED vars) => IInv'
<1> SUFFICES ASSUME IInv PROVE
      (PublishInfo \/ PublishProgress \/ CalmDown \/ Open \/ Close
       \/ Reconnect \/ ReceiveReload \/ UNCHANGED vars) => IInv'
  OBVIOUS
<1> USE OutsideKeepsInv, ThemeClientAssumption DEF server, link, OwedExists
<1>1. CASE PublishInfo
  BY <1>1 DEF PublishInfo, Owes, IInv, TypeOK
<1>2. CASE PublishProgress
  BY <1>2 DEF PublishProgress, Owes, IInv, TypeOK
<1>3. CASE CalmDown
  BY <1>3 DEF CalmDown, IInv, TypeOK
<1>4. CASE Open
  BY <1>4 DEF Open, IInv, TypeOK
<1>5. CASE Close
  BY <1>5, BackoffBounds DEF Close, Retry, IInv, TypeOK
<1>6. CASE Reconnect
  BY <1>6 DEF Reconnect, IInv, TypeOK
<1>7. CASE ReceiveReload
  BY <1>7 DEF ReceiveReload, IInv, TypeOK
<1>8. CASE UNCHANGED vars
  BY <1>8 DEF vars, IInv, TypeOK
<1> QED BY <1>1, <1>2, <1>3, <1>4, <1>5, <1>6, <1>7, <1>8

LEMMA ReloadKeepsInv == IInv /\ Reload => IInv'
<1> SUFFICES ASSUME IInv, Reload PROVE IInv'
  OBVIOUS
<1>1. /\ calm' \in BOOLEAN /\ reloading' \in BOOLEAN /\ idleTimer' \in BOOLEAN
      /\ animating' \in BOOLEAN /\ transitionTimer' \in BOOLEAN
      /\ transitioning' \in BOOLEAN /\ transitioning' = transitionTimer'
  BY DEF Reload, server, IInv, TypeOK
<1>2. shown' \in [track : Tracks \cup {None}, art : Arts]
  BY ThemeClientAssumption DEF Reload
<1>3. TypeOK'
  BY <1>1, <1>2, ThemeClientAssumption DEF Reload, server, IInv, TypeOK
<1>4. CopiesAgree'
  BY <1>1 DEF Reload, CopiesAgree
<1>5. OwedExists' /\ AnimatesSomething' /\ LastInfoWins' /\ IdleOnlyWhenStopped'
  BY DEF Reload, OwedExists, AnimatesSomething, LastInfoWins, IdleOnlyWhenStopped
<1> QED BY <1>3, <1>4, <1>5 DEF IInv

(* handleInfo: the three cases.                                            *)
LEMMA ReceiveInfoKeepsInv == IInv /\ ReceiveInfo => IInv'
<1> SUFFICES ASSUME IInv, ReceiveInfo PROVE IInv'
  OBVIOUS
<1> DEFINE i == lastInfo
<1>1. /\ owed' \subseteq {"info", "progress"}
      /\ currentTrack' = i.track /\ seen' = i
      /\ UNCHANGED <<server, socket, reconnectDelay, retry, reloading, play, bar, class>>
  BY DEF ReceiveInfo, IInv, TypeOK
<1>2. i \in Infos /\ i # None /\ i.track \in Tracks /\ i.art \in Arts
      /\ i.track # None
  BY ThemeClientAssumption DEF ReceiveInfo, IInv, TypeOK, OwedExists
<1>3. /\ TypeOK /\ CopiesAgree /\ LastInfoWins /\ OwedExists'
      /\ AnimatesSomething' /\ IdleOnlyWhenStopped'
  BY <1>1
  DEF ReceiveInfo, IInv, OwedExists, AnimatesSomething, IdleOnlyWhenStopped, server,
      play
<1>4. CASE UpdatePending(i)
  <2>1. TypeOK' BY <1>1, <1>2, <1>3, <1>4 DEF UpdatePending, TypeOK, server, play
  <2>2. CopiesAgree' BY <1>1, <1>2, <1>3, <1>4 DEF UpdatePending, CopiesAgree
  <2>3. LastInfoWins' BY <1>1, <1>2, <1>3, <1>4 DEF UpdatePending, LastInfoWins
  <2> QED BY <1>3, <2>1, <2>2, <2>3 DEF IInv
<1>5. CASE UpdateShown(i)
  <2>1. shown' = i
    <3>1. shown' = [track |-> i.track, art |-> i.art]
      BY <1>3, <1>5 DEF UpdateShown, CopiesAgree
    <3> QED BY <1>2, <3>1, ThemeClientAssumption
  <2>2. i \in [track : Tracks \cup {None}, art : Arts]
    BY <1>2, ThemeClientAssumption
  <2>3. currentAlbumArt' = i.art /\ ~transitionTimer
        /\ UNCHANGED <<transitionTimer, pendingTrackInfo, transitioning>>
    BY <1>5 DEF UpdateShown
  <2> HIDE DEF i
  <2>4. TypeOK' BY <1>1, <1>2, <1>3, <2>1, <2>2, <2>3 DEF TypeOK, server, play
  <2>5. CopiesAgree' BY <1>1, <1>2, <1>3, <2>1, <2>3 DEF CopiesAgree
  <2>6. LastInfoWins' BY <1>1, <2>1, <2>3 DEF LastInfoWins
  <2> QED BY <1>3, <2>4, <2>5, <2>6 DEF IInv
<1>6. CASE ChangeSong(i)
  <2>1. TypeOK' BY <1>1, <1>2, <1>3, <1>6 DEF ChangeSong, TypeOK, server, play
  <2>2. CopiesAgree' BY <1>1, <1>2, <1>3, <1>6 DEF ChangeSong, CopiesAgree
  <2>3. LastInfoWins' BY <1>1, <1>2, <1>6 DEF ChangeSong, LastInfoWins
  <2> QED BY <1>3, <2>1, <2>2, <2>3 DEF IInv
<1> QED BY <1>4, <1>5, <1>6 DEF ReceiveInfo

(* The end of a transition shows the last info message.                    *)
LEMMA EndTransitionKeepsInv == IInv /\ EndTransition => IInv'
<1> SUFFICES ASSUME IInv, EndTransition PROVE IInv'
  OBVIOUS
<1>1. /\ pendingTrackInfo \in Infos /\ pendingTrackInfo = seen
      /\ pendingTrackInfo \in [track : Tracks \cup {None}, art : Arts]
      /\ pendingTrackInfo.art \in Arts
  BY ThemeClientAssumption
  DEF EndTransition, IInv, TypeOK, CopiesAgree, LastInfoWins
<1>2. TypeOK'
  <2>1. transitionTimer' \in BOOLEAN /\ transitioning' \in BOOLEAN
    BY DEF EndTransition
  <2> QED BY <1>1, <2>1 DEF EndTransition, IInv, TypeOK, server, link, play
<1>3. CopiesAgree'
  <2>1. transitioning' = transitionTimer' /\ ~transitionTimer'
    BY DEF EndTransition
  <2> QED BY <1>1, <2>1 DEF EndTransition, IInv, CopiesAgree
<1>4. LastInfoWins'
  BY <1>1 DEF EndTransition, LastInfoWins
<1>5. OwedExists' /\ AnimatesSomething' /\ IdleOnlyWhenStopped'
  BY DEF EndTransition, IInv, OwedExists, AnimatesSomething, IdleOnlyWhenStopped,
         server, link, play
<1> QED BY <1>2, <1>3, <1>4, <1>5 DEF IInv

(* Progress messages, the idle timer and the frames of the animation.      *)
LEMMA ProgressKeepsInv ==
    IInv /\ (ReceiveProgress \/ FireIdleTimer \/ Animate) => IInv'
<1> SUFFICES ASSUME IInv, ReceiveProgress \/ FireIdleTimer \/ Animate PROVE IInv'
  OBVIOUS
<1>1. UNCHANGED <<server, socket, reconnectDelay, retry, reloading, song, shown,
                  transitioning, seen>>
  BY DEF ReceiveProgress, FireIdleTimer, Animate, link
<1>2. CopiesAgree' /\ LastInfoWins'
  BY <1>1 DEF IInv, CopiesAgree, LastInfoWins, song
<1>3. CASE ReceiveProgress
  <2>1. /\ lastProgress \in Progresses /\ lastProgress # None
        /\ lastProgress.point \in Points
        /\ lastProgress.status \in {"playing", "paused", "stopped"}
    BY <1>3, ThemeClientAssumption DEF ReceiveProgress, IInv, TypeOK, OwedExists
  <2>2. TypeOK'
    BY <1>1, <1>3, <2>1
    DEF ReceiveProgress, ArmsIdleTimer, IInv, TypeOK, server, song
  <2>3. OwedExists' /\ AnimatesSomething' /\ IdleOnlyWhenStopped'
    BY <1>1, <1>3, <2>1
    DEF ReceiveProgress, ArmsIdleTimer, IInv, OwedExists, AnimatesSomething,
        IdleOnlyWhenStopped, server
  <2> QED BY <1>2, <2>2, <2>3 DEF IInv
<1>4. CASE FireIdleTimer
  <2>1. idleTimer' \in BOOLEAN
    BY <1>4 DEF FireIdleTimer
  <2>2. TypeOK'
    BY <1>4, <2>1 DEF FireIdleTimer, IInv, TypeOK, server, link, song
  <2>3. OwedExists' /\ AnimatesSomething' /\ IdleOnlyWhenStopped'
    BY <1>4 DEF FireIdleTimer, IInv, OwedExists, AnimatesSomething,
                IdleOnlyWhenStopped, server, link
  <2> QED BY <1>2, <2>2, <2>3 DEF IInv
<1>5. CASE Animate
  <2>1. playbackState.point \in Points
    BY <1>5, ThemeClientAssumption DEF Animate, IInv, TypeOK, AnimatesSomething
  <2>2. TypeOK'
    BY <1>5, <2>1 DEF Animate, IInv, TypeOK, server, link, song, play
  <2>3. OwedExists' /\ AnimatesSomething' /\ IdleOnlyWhenStopped'
    BY <1>5 DEF Animate, IInv, OwedExists, AnimatesSomething, IdleOnlyWhenStopped,
                server, link, play
  <2> QED BY <1>2, <2>2, <2>3 DEF IInv
<1> QED BY <1>3, <1>4, <1>5

LEMMA InvNext == IInv /\ [Next]_vars => IInv'
BY LinkKeepsInv, ReloadKeepsInv, ReceiveInfoKeepsInv, EndTransitionKeepsInv,
   ProgressKeepsInv
DEF Next, Messages, Timers

LEMMA ThemeClientInv == Spec => []IInv
BY InvInit, InvNext, PTL DEF Spec

-----------------------------------------------------------------------------
(* Every variable of the page keeps its type, and the delay its limits.    *)
THEOREM PageTypes == Spec => []TypeOK
<1>1. IInv => TypeOK BY DEF IInv
<1> QED BY <1>1, ThemeClientInv, PTL

(* Whatever comes while a transition is pending, the page shows the last   *)
(* info message or will when it ends.                                      *)
THEOREM PageFollowsInfo == Spec => []LastInfoWins
<1>1. IInv => LastInfoWins BY DEF IInv
<1> QED BY <1>1, ThemeClientInv, PTL

(* An idle timer never hides the page of a player that is not stopped.     *)
THEOREM PageHidesStopped == Spec => []IdleOnlyWhenStopped
<1>1. IInv => IdleOnlyWhenStopped BY DEF IInv
<1> QED BY <1>1, ThemeClientInv, PTL

(* No step but those of a transition replaces one track by another.        *)
THEOREM PageFadesSongs == Spec => SongsFadeOut
<1>1. IInv /\ [Next]_vars =>
        [shown'.track # shown.track =>
           transitioning \/ None \in {shown.track, shown'.track}]_vars
  <2> SUFFICES ASSUME IInv, Next, shown'.track # shown.track
               PROVE  transitioning \/ None \in {shown.track, shown'.track}
    OBVIOUS
  <2>1. CASE ReceiveInfo
    <3>1. UpdateShown(lastInfo)
      BY <2>1 DEF ReceiveInfo, UpdatePending, ChangeSong
    <3>2. seen = None
      <4>1. /\ shown'.track = lastInfo.track /\ ~transitionTimer
            /\ currentTrack \in {None, lastInfo.track}
        BY <3>1 DEF UpdateShown, Known
      <4>2. seen # None => shown = seen /\ currentTrack = seen.track
                           /\ seen.track # None
        BY <4>1, ThemeClientAssumption DEF IInv, TypeOK, CopiesAgree, LastInfoWins
      <4> QED BY <4>1, <4>2
    <3> QED BY <3>2 DEF IInv, CopiesAgree
  <2>2. CASE EndTransition
    BY <2>2 DEF EndTransition, IInv, CopiesAgree
  <2>3. CASE Reload
    BY <2>3 DEF Reload
  <2>4. CASE UNCHANGED shown
    BY <2>4
  <2> QED
    BY <2>1, <2>2, <2>3, <2>4
    DEF Next, Messages, Timers, PublishInfo, PublishProgress, CalmDown, Open, Close,
        Reconnect, ReceiveReload, ReceiveProgress, FireIdleTimer, Animate, dom
<1> QED BY <1>1, ThemeClientInv, PTL DEF Spec, SongsFadeOut
=============================================================================

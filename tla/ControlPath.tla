---------------------------- MODULE ControlPath ----------------------------
(***************************************************************************)
(* How the other goroutines make the SMTC monitor do something for them,   *)
(* and how the services of the process end (internal/smtc/control.go and   *)
(* smtc.go, the users of both in internal/server and internal/gui, and     *)
(* cmd/smtc-now-playing/main.go).  Everything goes through cmdChan:        *)
(* sendControl and GetCapabilities try to send a command and then wait for *)
(* its result, WinRT callbacks try to send and give up, SelectDevice waits *)
(* until it can send.  The monitor executes one command at a time.         *)
(*                                                                         *)
(* A command is named for its sender: a Request, Ui or Callback.  What a   *)
(* command does to the media session is not modelled, only that it ends:   *)
(* every wait of the monitor for WinRT is bounded (waitForAsync).          *)
(***************************************************************************)
EXTENDS Naturals, Sequences, FiniteSets, Functions

CONSTANTS Requests,      \* the goroutines of the web server that call the monitor
          HttpRequests,  \* those of them that httpSrv.Shutdown waits for
          Ui,            \* the UI thread of the settings window
          Callback,      \* a WinRT callback, or the thumbnail retry timer
          QueueCapacity  \* cmdChanCapacity

ASSUME ControlPathAssumption ==
    /\ IsFiniteSet(Requests) /\ HttpRequests \subseteq Requests
    /\ Ui \notin Requests /\ Callback \notin Requests \cup {Ui}
    /\ QueueCapacity \in Nat \ {0}

VARIABLES
  monitor,   \* Smtc.Run: "starting", "running" or "ended"
  server,    \* Server.Run: "serving", "draining" (in Shutdown) or "ended"
  window,    \* Gui.Run: "creating", "open", "bare" (made without its themes,
             \* and without what WmCreate does after them), "fatal" (a message
             \* box precedes os.Exit), or "ended", from the start if headless
  ctxDone,   \* the context of the errgroup is done
  exited,    \* g.Wait has returned and the process ends
  queue,     \* cmdChan
  sendq,     \* the SelectDevice calls blocked on it: at most one
  busy,      \* the command the monitor executes: at most one
  call,      \* of each request: "idle" or "waiting"
  answered   \* the requests whose result channel holds the result

services == <<monitor, server, window, ctxDone, exited>>
commands == <<queue, sendq, busy>>
calls    == <<call, answered>>
vars     == <<services, commands, calls>>

Sender == Requests \cup {Ui, Callback}

Init == /\ monitor = "starting" /\ server = "serving"
        /\ window \in {"creating", "ended"}
        /\ ctxDone = FALSE /\ exited = FALSE
        /\ queue = <<>> /\ sendq = <<>> /\ busy = <<>>
        /\ call = [r \in Requests |-> "idle"] /\ answered = {}

HasRoom == Len(queue) < QueueCapacity

-----------------------------------------------------------------------------
(* sendControl, GetCapabilities: on a full channel they return at once     *)
(* with an error, or with no capabilities, which changes nothing here.  A  *)
(* handler that is already running may call while the server drains, and   *)
(* after the grace period.                                                 *)
Request(r) == /\ ~exited
              /\ call[r] = "idle"
              /\ HasRoom
              /\ queue' = Append(queue, r)
              /\ call' = [call EXCEPT ![r] = "waiting"]
              /\ UNCHANGED <<services, sendq, busy, answered>>

(* The caller receives its result.  Faulty variant: it gives up waiting.   *)
ReturnEarly(r) == /\ ~exited
                  /\ call[r] = "waiting"
                  /\ call' = [call EXCEPT ![r] = "idle"]
                  /\ answered' = answered \ {r}
                  /\ UNCHANGED <<services, commands>>
Return(r) == /\ ~exited
             /\ call[r] = "waiting"
             /\ r \in answered
             /\ call' = [call EXCEPT ![r] = "idle"]
             /\ answered' = answered \ {r}
             /\ UNCHANGED <<services, commands>>

(* The UI thread calls SelectDevice, which blocks on a full channel.  A    *)
(* bare window has no devices to choose from.                              *)
SelectDevice == /\ ~exited
                /\ window = "open"
                /\ sendq = <<>>
                /\ \/ HasRoom /\ queue' = Append(queue, Ui) /\ UNCHANGED sendq
                   \/ ~HasRoom /\ sendq' = <<Ui>> /\ UNCHANGED queue
                /\ UNCHANGED <<services, busy, calls>>

(* A callback or a timer posts a command unless the channel is full.  They *)
(* are armed before the loop is reached, and one may be late for its end.  *)
(* Faulty variant: the bound is not heeded.                                *)
PostUnchecked == /\ ~exited
                 /\ queue' = Append(queue, Callback)
                 /\ UNCHANGED <<services, sendq, busy, calls>>
PostEvent == /\ ~exited
             /\ HasRoom
             /\ queue' = Append(queue, Callback)
             /\ UNCHANGED <<services, sendq, busy, calls>>

-----------------------------------------------------------------------------
(* What a goroutine of the errgroup that returns an error does to it; all  *)
(* three services return one, if only that the context was cancelled.      *)
Fail == ctxDone' = TRUE

(* Run reaches its loop, or cannot start or is cancelled before it.        *)
StartMonitor == /\ monitor = "starting"
                /\ \/ monitor' = "running" /\ UNCHANGED ctxDone
                   \/ monitor' = "ended" /\ Fail
                /\ UNCHANGED <<server, window, exited, commands, calls>>

(* The loop takes a command.  A send that was blocked takes the place it   *)
(* frees, as Go's channels do.                                             *)
Unblock == queue' = Tail(queue) \o sendq /\ sendq' = <<>>

Take == /\ monitor = "running"
        /\ busy = <<>>
        /\ queue # <<>>
        /\ busy' = <<Head(queue)>>
        /\ Unblock
        /\ UNCHANGED <<services, calls>>

(* A command is executed.  The result channels have room for one result,   *)
(* so that the monitor does not wait for the caller.  Faulty variants: a   *)
(* path through executeControl that forgets the result; a wait for WinRT   *)
(* without its time limit, in a callback.                                  *)
SometimesAnswered == {answered, answered \cup (Range(busy) \cap Requests)}
Answered == {answered \cup (Range(busy) \cap Requests)}

ExecuteUntimed == /\ monitor = "running"
                  /\ busy # <<>> /\ busy # <<Callback>>
                  /\ answered' \in Answered
                  /\ busy' = <<>>
                  /\ UNCHANGED <<services, queue, sendq, call>>
Execute == /\ monitor = "running"
           /\ busy # <<>>
           /\ answered' \in Answered
           /\ busy' = <<>>
           /\ UNCHANGED <<services, queue, sendq, call>>

(* The loop sees that the context is done and returns; cmdChan is left as  *)
(* it is, with the commands and the blocked send it holds.                 *)
EndMonitor == /\ monitor = "running"
              /\ busy = <<>>
              /\ ctxDone
              /\ monitor' = "ended"
              /\ UNCHANGED <<server, window, ctxDone, exited, commands, calls>>

-----------------------------------------------------------------------------
(* A signal cancels the context.                                           *)
Signal == /\ ~ctxDone
          /\ Fail
          /\ UNCHANGED <<monitor, server, window, exited, commands, calls>>

(* Server.Run sees the cancellation, or its listener or watcher fails.     *)
DrainServer == /\ server = "serving"
               /\ server' = "draining"
               /\ UNCHANGED <<monitor, window, ctxDone, exited, commands, calls>>

(* httpSrv.Shutdown returns: no request is being handled, or the grace     *)
(* period is over.  Faulty variant: there is no grace period.              *)
NoGrace == FALSE
Drained == \A r \in HttpRequests : call[r] = "idle"
GraceOver == TRUE

EndServer == /\ server = "draining"
             /\ Drained \/ GraceOver
             /\ server' = "ended"
             /\ Fail
             /\ UNCHANGED <<monitor, window, exited, commands, calls>>

(* WmCreate returns early when the themes cannot be read, before it starts *)
(* the goroutine that posts WM_CLOSE when the context is done, and the     *)
(* program exits when there is no tray icon, each after a message box.     *)
CreateWindow == /\ window = "creating"
                /\ window' \in {"open", "bare", "fatal"}
                /\ UNCHANGED <<monitor, server, ctxDone, exited, commands, calls>>

(* The window is destroyed: by the user, or by the WM_CLOSE posted when    *)
(* the context is done.  The UI thread must be in its message loop.        *)
EndWindow == /\ window \in {"open", "bare"}
             /\ sendq = <<>>
             /\ window' = "ended"
             /\ Fail
             /\ UNCHANGED <<monitor, server, exited, commands, calls>>

(* The user dismisses the message box and os.Exit ends everything.         *)
ExitFatal == /\ window = "fatal"
             /\ window' = "ended" /\ monitor' = "ended" /\ server' = "ended"
             /\ exited' = TRUE
             /\ UNCHANGED <<ctxDone, commands, calls>>

(* g.Wait returns when every service has.                                  *)
Exit == /\ monitor = "ended" /\ server = "ended" /\ window = "ended"
        /\ ~exited
        /\ exited' = TRUE
        /\ UNCHANGED <<monitor, server, window, ctxDone, commands, calls>>

-----------------------------------------------------------------------------
Monitor == StartMonitor \/ Take \/ Execute \/ EndMonitor

Next == \/ Monitor \/ Signal \/ DrainServer \/ EndServer
        \/ CreateWindow \/ EndWindow \/ ExitFatal \/ Exit
        \/ SelectDevice \/ PostEvent
        \/ \E r \in Requests : Request(r) \/ Return(r)

Spec == Init /\ [][Next]_vars

(* Goroutines that can run do; Go's select takes every ready case some     *)
(* time, so that a monitor kept busy still sees that the context is done;  *)
(* the grace period of Shutdown passes; an open window, and only that, is  *)
(* sent WM_CLOSE when the context is done.  Nothing is assumed of requests,*)
(* callbacks, signals, failures or the user.                               *)
FairSpec == /\ Spec
            /\ WF_vars(Monitor) /\ SF_vars(EndMonitor)
            /\ WF_vars(ctxDone /\ DrainServer) /\ WF_vars(EndServer)
            /\ WF_vars(CreateWindow)
            /\ WF_vars(ctxDone /\ window = "open" /\ EndWindow) /\ WF_vars(Exit)
            /\ \A r \in Requests : WF_vars(Return(r))

-----------------------------------------------------------------------------
TypeOK == /\ monitor \in {"starting", "running", "ended"}
          /\ server \in {"serving", "draining", "ended"}
          /\ window \in {"creating", "open", "bare", "fatal", "ended"}
          /\ ctxDone \in BOOLEAN /\ exited \in BOOLEAN
          /\ queue \in Seq(Sender) /\ Len(queue) <= QueueCapacity
          /\ sendq \in {<<>>, <<Ui>>}
          /\ busy \in Seq(Sender) /\ Len(busy) <= 1
          /\ call \in [Requests -> {"idle", "waiting"}]
          /\ answered \in SUBSET Requests

(* Each call has one command on its way or one result, never both: nobody  *)
(* is answered twice or with the result of an earlier call, and a result   *)
(* channel always has room, so that no answer blocks the monitor.          *)
Commands(r) == Cardinality({i \in DOMAIN queue : queue[i] = r})
               + Cardinality({i \in DOMAIN busy : busy[i] = r})
OneCommandPerCall ==
    \A r \in Requests :
        Commands(r) + (IF r \in answered THEN 1 ELSE 0)
            = IF call[r] = "waiting" THEN 1 ELSE 0

(* While the monitor runs, whoever waits for a result gets it.  A call     *)
(* whose command is still in cmdChan when Run returns, or that is made     *)
(* afterwards, waits for ever; hence the second alternative.               *)
CallsReturn == \A r \in Requests :
                  call[r] = "waiting" ~> call[r] = "idle" \/ monitor = "ended"

(* While the monitor runs, SelectDevice does not hold the UI thread for    *)
(* ever, even if callbacks keep the channel full.                          *)
SelectDeviceReturns == sendq # <<>> ~> sendq = <<>> \/ monitor = "ended"

(* A cancelled context or a service that fails ends the process, although  *)
(* requests may be left waiting for a monitor that has ended, unless the   *)
(* UI thread is: nothing takes its command off the full channel any more;  *)
(* or nobody tells the window, which WmCreate left before the goroutine    *)
(* that would: then the process stays until the user closes the window.    *)
UiHangs == monitor = "ended" /\ sendq # <<>>
NobodyCloses == window \in {"bare", "fatal"}
ProcessEnds == ctxDone ~> exited \/ UiHangs \/ NobodyCloses
=============================================================================

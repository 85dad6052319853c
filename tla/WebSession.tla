----------------------------- MODULE WebSession -----------------------------
(***************************************************************************)
(* One WebSocket connection as the server keeps it up                      *)
(* (internal/server/server.go, internal/wsproto): the heartbeat goroutine, *)
(* the messages the client sends, and the controls that are executed on    *)
(* goroutines of their own and acknowledged.  What is broadcast to the     *)
(* connection is in ClientSync, what a control does in ControlPath; here   *)
(* it returns.  A client's ping is answered and changes nothing.           *)
(*                                                                         *)
(* Time passes in units, in which what the server does takes no time       *)
(* unless a write blocks, as it does while the client does not read, and   *)
(* except for OnOpen: it stores the time and then asks the monitor for its *)
(* capabilities, an answer that may take any time and may never come.      *)
(***************************************************************************)
EXTENDS Naturals

CONSTANTS HeartbeatInterval, HeartbeatTimeout,
          AnswerTime,  \* the longest that the pong of a prompt client takes
          MaxAge,      \* bound on the time that passes without a pong
          Ids          \* the messages with an id that the client sends

ASSUME WebSessionAssumption ==
    /\ HeartbeatInterval \in Nat \ {0} /\ HeartbeatTimeout \in Nat
    /\ AnswerTime \in Nat /\ MaxAge \in Nat
    /\ HeartbeatInterval + AnswerTime <= HeartbeatTimeout

VARIABLES
  socket,   \* "open" or "closed"
  reason,   \* who closed it: "none", "timeout", "protocol", "peer"
  hb,       \* runHeartbeat: "opening" (OnOpen has not started it), "waiting",
            \* "pinging", "closing", "ended"
  age,      \* time since the last pong, or since OnOpen stored its time
  opened,   \* history: the age when OnOpen started the heartbeat, 0 again
            \* once a pong has come, unless the heartbeat had given up
  wait,     \* time until the ticker's next tick
  due,      \* a tick is in the ticker's channel, which holds one
  pings,    \* the ages of the pings that a prompt client has yet to answer
  prompt,   \* the client answers every ping within AnswerTime
  reads,    \* the client "reads", is "stalled", or reads "again"
  refusing, \* a handler is in closeUnsupportedProtocol
  control   \* by id: "unsent", "running", "acking", "acked" or "lost"

heartbeat == <<hb, age, wait, due, pings>>
client    == <<prompt, reads>>
messages  == <<refusing, control>>
conn      == <<socket, reason>>
vars      == <<conn, heartbeat, opened, client, messages>>

Init == /\ socket = "open" /\ reason = "none"
        /\ hb = "opening" /\ age = 0 /\ wait = HeartbeatInterval /\ due = FALSE
        /\ pings = {} /\ opened = 0
        /\ prompt = TRUE /\ reads = "reads"
        /\ refusing = FALSE /\ control = [i \in Ids |-> "unsent"]

(* A write returns: what it writes is taken, or the connection is closed.  *)
WriteReturns == socket = "closed" \/ reads # "stalled"

Close(why) == /\ socket' = "closed"
              /\ reason' = IF socket = "open" THEN why ELSE reason

-----------------------------------------------------------------------------
(* OnOpen has the capabilities, has written hello and the state and starts *)
(* the heartbeat.                                                          *)
StartHeartbeat == /\ hb = "opening" /\ WriteReturns
                  /\ hb' = "waiting"
                  /\ opened' = age
                  /\ UNCHANGED <<conn, age, wait, due, pings, client, messages>>

(* Time passes once the heartbeat has done what is due.  A tick that finds *)
(* another in the channel is dropped.  Faulty variant: the ticker runs out.*)
Idle == \/ hb = "waiting" /\ ~due
        \/ hb \in {"opening", "ended"}
        \/ hb \in {"pinging", "closing"} /\ ~WriteReturns
Ticking == hb \notin {"opening", "ended"}
OneShot == wait - 1
NextWait == IF wait = 1 THEN HeartbeatInterval ELSE wait - 1
Elapse == /\ Idle
          /\ prompt => \A p \in pings : p < AnswerTime
          /\ age < MaxAge
          /\ age' = age + 1
          /\ pings' = {p + 1 : p \in pings}
          /\ \/ /\ Ticking
                /\ wait' = NextWait
                /\ due' = (due \/ wait = 1)
             \/ ~Ticking /\ UNCHANGED <<wait, due>>
          /\ UNCHANGED <<conn, hb, opened, client, messages>>

(* On a tick the connection is closed if the last pong is too old,         *)
(* else a ping is sent.                                                    *)
Beat == /\ hb = "waiting" /\ due
        /\ due' = FALSE
        /\ hb' = IF age > HeartbeatTimeout THEN "closing" ELSE "pinging"
        /\ UNCHANGED <<conn, age, wait, pings, opened, client, messages>>

SendPing == /\ hb = "pinging" /\ WriteReturns
            /\ \/ /\ socket = "open"
                  /\ pings' = IF prompt THEN pings \cup {0} ELSE pings
                  /\ hb' = "waiting"
               \/ /\ socket = "closed"
                  /\ hb' = "ended"
                  /\ UNCHANGED pings
            /\ UNCHANGED <<conn, age, wait, due, opened, client, messages>>

TimeOut == /\ hb = "closing" /\ WriteReturns
           /\ Close("timeout")
           /\ hb' = "ended"
           /\ UNCHANGED <<age, wait, due, pings, opened, client, messages>>

-----------------------------------------------------------------------------
(* OnMessage, and OnPong: a pong, as a message or a frame, is the answer to*)
(* a ping, or one that nobody asked for.  Faulty variant: it is ignored.   *)
Ignored == UNCHANGED age
Touch == age' = 0
ReceivePong == /\ socket = "open" /\ reads # "stalled" /\ hb # "opening"
               /\ Touch
               /\ opened' = IF hb = "closing" THEN opened ELSE 0
               /\ \/ UNCHANGED pings
                  \/ \E p \in pings : pings' = pings \ {p}
               /\ UNCHANGED <<conn, hb, wait, due, client, messages>>

Receive(i) == socket = "open" /\ hb # "opening" /\ control[i] = "unsent"

(* A control is executed on a goroutine of its own, in no order with       *)
(* others,                                                                 *)
ReceiveControl(i) == /\ Receive(i)
                     /\ control' = [control EXCEPT ![i] = "running"]
                     /\ UNCHANGED <<conn, heartbeat, opened, client, refusing>>

(* one without an action, or a message of another type with an id, is only *)
(* acknowledged, as a failure.  Faulty variant: it is dropped.             *)
Dropped == "dropped"
Refused == "acking"
ReceiveInvalid(i) == /\ Receive(i)
                     /\ control' = [control EXCEPT ![i] = Refused]
                     /\ UNCHANGED <<conn, heartbeat, opened, client, refusing>>

(* Anything else closes the connection: what is no envelope of version 2   *)
(* with a type, or is of another type and has no id.                       *)
ReceiveUnsupported == /\ socket = "open" /\ hb # "opening"
                      /\ refusing' = TRUE
                      /\ UNCHANGED <<conn, heartbeat, opened, client, control>>

CloseUnsupported == /\ refusing /\ WriteReturns
                    /\ Close("protocol")
                    /\ refusing' = FALSE
                    /\ UNCHANGED <<heartbeat, opened, client, control>>

ExecuteControl(i) == /\ control[i] = "running"
                     /\ control' = [control EXCEPT ![i] = "acking"]
                     /\ UNCHANGED <<conn, heartbeat, opened, client, refusing>>

WriteControlAck(i) == /\ control[i] = "acking" /\ WriteReturns
                      /\ control' = [control EXCEPT ![i] =
                                         IF socket = "open" THEN "acked" ELSE "lost"]
                      /\ UNCHANGED <<conn, heartbeat, opened, client, refusing>>

-----------------------------------------------------------------------------
(* The client becomes slow to answer, stops reading and reads again, or    *)
(* goes away.                                                              *)
Slow == /\ prompt
        /\ prompt' = FALSE /\ pings' = {}
        /\ UNCHANGED <<conn, hb, age, wait, due, opened, reads, messages>>

Stall == /\ reads # "stalled"
         /\ reads' = "stalled" /\ prompt' = FALSE /\ pings' = {}
         /\ UNCHANGED <<conn, hb, age, wait, due, opened, messages>>

Unstall == /\ reads = "stalled"
           /\ reads' = "again"
           /\ UNCHANGED <<conn, heartbeat, opened, prompt, messages>>

PeerCloses == /\ socket = "open"
              /\ Close("peer")
              /\ UNCHANGED <<heartbeat, opened, client, messages>>

-----------------------------------------------------------------------------
Next == \/ StartHeartbeat \/ Elapse \/ Beat \/ SendPing \/ TimeOut
        \/ ReceivePong \/ ReceiveUnsupported \/ CloseUnsupported
        \/ \E i \in Ids : \/ ReceiveControl(i) \/ ReceiveInvalid(i)
                          \/ ExecuteControl(i) \/ WriteControlAck(i)
        \/ Slow \/ Stall \/ Unstall \/ PeerCloses

(* Goroutines that can go on do.  Nothing is assumed of the client.        *)
Fairness == \A i \in Ids : /\ WF_vars(ExecuteControl(i))
                           /\ WF_vars(WriteControlAck(i))

Spec == Init /\ [][Next]_vars /\ Fairness

-----------------------------------------------------------------------------
TypeOK == /\ socket \in {"open", "closed"}
          /\ reason \in {"none", "timeout", "protocol", "peer"}
          /\ hb \in {"opening", "waiting", "pinging", "closing", "ended"}
          /\ age \in Nat /\ wait \in 1 .. HeartbeatInterval /\ due \in BOOLEAN
          /\ pings \subseteq Nat /\ opened \in Nat
          /\ prompt \in BOOLEAN /\ reads \in {"reads", "stalled", "again"}
          /\ refusing \in BOOLEAN
          /\ control \in [Ids -> {"unsent", "running", "acking", "acked", "lost"}]

(* No pong has come, and OnOpen took so long that the age of the time it   *)
(* stored can pass the timeout before the answer to the first ping is in.  *)
Late == opened + HeartbeatInterval + AnswerTime > HeartbeatTimeout

(* The heartbeat never closes the connection of a client that answers      *)
(* every ping within AnswerTime, although it compares ages only on ticks   *)
(* and a pong may come between the comparison and the next ping; with one  *)
(* exception, a client that OnOpen kept waiting.                           *)
NoFalseTimeout == reason = "timeout" => ~prompt \/ Late

(* And one that reads and is silent is closed at the latest an interval    *)
(* after the timeout, or after the heartbeat has started.  (One that does  *)
(* not read is not: the ping blocks.)                                      *)
Limit == IF opened > HeartbeatTimeout THEN opened ELSE HeartbeatTimeout
NoSilentClient == socket = "open" /\ reads = "reads" /\ hb # "opening"
                      => age <= Limit + HeartbeatInterval

(* Both: once OnOpen has returned, and was not late, a connection times out*)
(* when, and only when, its client is silent.                              *)
TimeoutMeansSilence == NoFalseTimeout /\ NoSilentClient

(* A message with an id that the server has received is acknowledged       *)
(* unless the connection closes, however slow its client or other controls *)
(* are, and unless the client does not read.                               *)
ControlsAcked == \A i \in Ids : control[i] # "unsent"
                     ~> control[i] \in {"acked", "lost"} \/ reads = "stalled"
=============================================================================

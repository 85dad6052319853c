-------------------------- MODULE WebSessionProofs --------------------------
(***************************************************************************)
(* A connection times out when, and only when, its client is silent, for   *)
(* every interval, timeout and answer time that the assumption relates,    *)
(* and however long OnOpen takes: what that can excuse is in the property. *)
(* The clock is discrete; the argument bounds the age of the last pong by  *)
(* what the ticker and the pings under way say of the time that has passed.*)
(***************************************************************************)
EXTENDS WebSession, TLAPS

USE WebSessionAssumption

(* What prompt stands for.                                                 *)
PromptReads == /\ prompt => reads = "reads"
               /\ \A p \in pings : prompt /\ p <= AnswerTime

(* Until OnOpen has returned no tick has come and no ping is under way.    *)
Opening == hb = "opening" => /\ pings = {} /\ ~due /\ wait = HeartbeatInterval

(* The time since the ticker started or ticked last, at the latest.        *)
SinceTick == IF due \/ hb # "waiting" THEN HeartbeatInterval
             ELSE HeartbeatInterval - wait

(* While the client is prompt, the last pong is no older than OnOpen was   *)
(* long and the present interval is, or a ping that bounds it is under way.*)
PongIsRecent ==
    prompt /\ hb \notin {"opening", "ended"} =>
        \/ age <= opened + SinceTick
        \/ \E p \in pings : age <= opened + HeartbeatInterval + p

(* The heartbeat gives up on no prompt client unless OnOpen was late.      *)
NeverOnPrompt == /\ hb = "closing" => ~prompt \/ Late
                 /\ reason = "timeout" => (~prompt \/ Late) /\ socket = "closed"
                                          /\ hb # "opening"

(* While the client reads, every tick finds the age within the timeout or  *)
(* closes the connection.                                                  *)
TickDecides ==
    /\ hb = "ended" => socket = "closed"
    /\ socket = "open" /\ reads = "reads" =>
          /\ hb = "waiting" => age <= Limit + SinceTick
          /\ hb = "pinging" => age <= HeartbeatTimeout
          /\ hb = "closing" => age <= Limit + HeartbeatInterval

IInv == /\ TypeOK /\ PromptReads /\ Opening /\ PongIsRecent
        /\ NeverOnPrompt /\ TickDecides

-----------------------------------------------------------------------------
LEMMA InitIInv == Init => IInv
<1> SUFFICES ASSUME Init PROVE IInv
    OBVIOUS
<1>1. TypeOK
  <2>1. due \in BOOLEAN /\ prompt \in BOOLEAN /\ refusing \in BOOLEAN
      BY Zenon DEF Init
  <2> QED BY <2>1, SMT DEF Init, TypeOK
<1>2. PromptReads /\ Opening
    BY SMT DEF Init, PromptReads, Opening
<1>3. PongIsRecent /\ NeverOnPrompt /\ TickDecides
    BY DEF Init, PongIsRecent, NeverOnPrompt, TickDecides
<1> QED BY <1>1, <1>2, <1>3 DEF IInv

(* The time since the last tick is one, whatever the ticker's channel has. *)
LEMMA SinceTickInNat == TypeOK' => SinceTick' \in Nat
<1> SUFFICES ASSUME TypeOK' PROVE SinceTick' \in Nat
    OBVIOUS
<1>1. SinceTick' = HeartbeatInterval \/ SinceTick' = HeartbeatInterval - wait'
    BY Zenon DEF SinceTick
<1>2. wait' \in 1 .. HeartbeatInterval
    BY DEF TypeOK
<1> QED BY <1>1, <1>2, SMT

LEMMA Slack == ASSUME NEW a \in Nat, NEW b \in Nat, NEW c \in Nat, a <= b
               PROVE  a <= b + c
  BY SMT

LEMMA InvImplies == IInv => TimeoutMeansSilence
  BY SMT DEF IInv, TypeOK, Opening, NeverOnPrompt, TickDecides, SinceTick,
         TimeoutMeansSilence, NoFalseTimeout, NoSilentClient, Limit

-----------------------------------------------------------------------------
(* Types.                                                                  *)
LEMMA TypeStep == TypeOK /\ [Next]_vars => TypeOK'
<1> SUFFICES ASSUME TypeOK, [Next]_vars PROVE TypeOK'
    OBVIOUS
<1> USE DEF TypeOK, conn, heartbeat, client, messages
<1>1. CASE StartHeartbeat
    BY <1>1, SMT DEF StartHeartbeat
<1>2. CASE Elapse
  <2>1. pings' \subseteq Nat
      BY <1>2, SMT DEF Elapse
  <2>2. wait' \in 1 .. HeartbeatInterval
      BY <1>2, SMT DEF Elapse, NextWait
  <2>3. due' \in BOOLEAN
    <3>1. CASE UNCHANGED <<wait, due>>
        BY <3>1, SMT
    <3>2. CASE due' = (due \/ wait = 1)
        BY <3>2, Zenon
    <3> QED BY <1>2, <3>1, <3>2 DEF Elapse
  <2>4. age' \in Nat /\ UNCHANGED <<conn, hb, opened, client, messages>>
      BY <1>2, SMT DEF Elapse
  <2> QED BY <2>1, <2>2, <2>3, <2>4, SMT
<1>3. CASE Beat
  <2>1. due' \in BOOLEAN
      BY <1>3, Zenon DEF Beat
  <2>2. /\ hb' \in {"pinging", "closing"}
        /\ UNCHANGED <<conn, age, wait, pings, opened, client, messages>>
      BY <1>3, SMT DEF Beat
  <2> QED BY <2>1, <2>2, SMT
<1>4. CASE SendPing
  <2>1. pings' = pings \cup {0} \/ pings' = pings
      BY <1>4, Zenon DEF SendPing
  <2>2. pings' \subseteq Nat
    <3>1. \A q \in pings \cup {0} : q \in Nat
        BY SMT
    <3> QED BY <2>1, <3>1, Zenon
  <2>3. /\ hb' \in {"waiting", "ended"}
        /\ UNCHANGED <<conn, age, wait, due, opened, client, messages>>
      BY <1>4, Zenon DEF SendPing
  <2> QED BY <2>2, <2>3, Zenon
<1>5. CASE TimeOut
    BY <1>5, SMT DEF TimeOut, Close
<1>6. CASE ReceivePong
  <2>1. pings' \subseteq Nat
      BY <1>6, Zenon DEF ReceivePong
  <2>2. age' = 0 /\ UNCHANGED <<conn, hb, wait, due, client, messages>>
      BY <1>6, Zenon DEF ReceivePong, Touch
  <2>3. opened' = opened \/ opened' = 0
      BY <1>6, Zenon DEF ReceivePong
  <2>4. age' \in Nat /\ opened' \in Nat
      BY <2>2, <2>3, SMT
  <2> QED BY <2>1, <2>2, <2>4, Zenon
<1>7. CASE ReceiveUnsupported
  <2>1. refusing' \in BOOLEAN
      BY <1>7, Zenon DEF ReceiveUnsupported
  <2>2. UNCHANGED <<conn, heartbeat, opened, client, control>>
      BY <1>7, Zenon DEF ReceiveUnsupported
  <2> QED BY <2>1, <2>2, SMT
<1>8. CASE CloseUnsupported
  <2>1. refusing' \in BOOLEAN
      BY <1>8, Zenon DEF CloseUnsupported
  <2>2. UNCHANGED <<heartbeat, opened, client, control>> /\ Close("protocol")
      BY <1>8, Zenon DEF CloseUnsupported
  <2> QED BY <2>1, <2>2, SMT DEF Close
<1>9. ASSUME NEW i \in Ids,
             ReceiveControl(i) \/ ReceiveInvalid(i) \/ ExecuteControl(i) \/ WriteControlAck(i)
      PROVE  TypeOK'
  <2>1. PICK s \in {"running", "acking", "acked", "lost"} :
            control' = [control EXCEPT ![i] = s]
      BY <1>9, Zenon DEF ReceiveControl, ReceiveInvalid, Refused, ExecuteControl, WriteControlAck
  <2>2. control' \in [Ids -> {"unsent", "running", "acking", "acked", "lost"}]
      BY <2>1, SMT
  <2>3. UNCHANGED <<conn, heartbeat, opened, client, refusing>>
      BY <1>9, Zenon DEF ReceiveControl, ReceiveInvalid, ExecuteControl, WriteControlAck
  <2> QED BY <2>2, <2>3, Zenon
<1>10. CASE Slow \/ Stall
  <2>1. prompt' \in BOOLEAN
      BY <1>10, Zenon DEF Slow, Stall
  <2>2. /\ pings' = {} /\ reads' \in {"reads", "stalled", "again"}
        /\ UNCHANGED <<conn, hb, age, wait, due, opened, messages>>
      BY <1>10, SMT DEF Slow, Stall
  <2> QED BY <2>1, <2>2, SMT
<1>11. CASE Unstall
    BY <1>11, SMT DEF Unstall
<1>12. CASE PeerCloses
    BY <1>12, SMT DEF PeerCloses, Close
<1>13. CASE UNCHANGED vars
    BY <1>13, SMT DEF vars
<1> QED
    BY <1>1, <1>2, <1>3, <1>4, <1>5, <1>6, <1>7, <1>8, <1>9, <1>10, <1>11, <1>12, <1>13
    DEF Next

-----------------------------------------------------------------------------
(* Time passes: the bound on the age grows with it.                        *)
LEMMA ElapseStep == IInv /\ TypeOK' /\ Elapse
                       => PromptReads' /\ Opening' /\ PongIsRecent' /\ NeverOnPrompt' /\ TickDecides'
<1> SUFFICES ASSUME IInv, TypeOK', Elapse
             PROVE  PromptReads' /\ Opening' /\ PongIsRecent' /\ NeverOnPrompt' /\ TickDecides'
    OBVIOUS
<1> USE DEF IInv, conn, client, messages
<1>0. /\ age \in Nat /\ wait \in 1 .. HeartbeatInterval /\ pings \subseteq Nat
      /\ age' = age + 1 /\ pings' = {p + 1 : p \in pings}
      /\ UNCHANGED <<socket, reason, hb, opened, prompt, reads>> /\ opened \in Nat
    BY SMT DEF TypeOK, Elapse
<1>1. PromptReads'
  <2>1. ASSUME NEW q \in pings' PROVE prompt' /\ q <= AnswerTime
    <3>1. PICK p \in pings : q = p + 1
        BY <1>0, <2>1
    <3>2. prompt /\ p < AnswerTime
        BY <3>1 DEF PromptReads, Elapse
    <3> QED BY <1>0, <3>1, <3>2, SMT
  <2> QED BY <1>0, <2>1 DEF PromptReads
<1>2. Opening'
  <2>1. SUFFICES ASSUME hb = "opening"
                 PROVE  pings' = {} /\ ~due' /\ wait' = HeartbeatInterval
      BY <1>0 DEF Opening
  <2>2. UNCHANGED <<wait, due>>
      BY <2>1 DEF Elapse, Ticking
  <2>3. pings' = {}
      BY <1>0, <2>1 DEF Opening
  <2> QED BY <1>0, <2>1, <2>2, <2>3, SMT DEF Opening
<1>3. ASSUME hb = "waiting"
      PROVE  ~due /\ SinceTick' = SinceTick + 1 /\ SinceTick \in Nat
  <2>1. ~due /\ wait' = NextWait /\ (due' <=> wait = 1)
      BY <1>3 DEF Elapse, Ticking, Idle
  <2>2. SinceTick = HeartbeatInterval - wait
      BY <1>3, <2>1 DEF SinceTick
  <2>3. SinceTick' = HeartbeatInterval - wait + 1
    <3>1. CASE wait = 1
        BY <1>0, <1>3, <2>1, <3>1, SMT DEF SinceTick
    <3>2. CASE wait # 1
        BY <1>0, <1>3, <2>1, <3>2, SMT DEF SinceTick, NextWait
    <3> QED BY <3>1, <3>2
  <2> QED BY <1>0, <2>1, <2>2, <2>3, SMT
<1>4. hb \in {"pinging", "closing"} => socket = "open" /\ reads # "reads"
    BY SMT DEF Elapse, Idle, WriteReturns, TypeOK
<1>5. PongIsRecent'
  <2>1. SUFFICES ASSUME prompt, hb \notin {"opening", "ended"}
                 PROVE  \/ age' <= opened + SinceTick'
                        \/ \E p \in pings' : age' <= opened + HeartbeatInterval + p
      BY <1>0 DEF PongIsRecent
  <2>2. hb = "waiting"
      BY <1>4, <2>1 DEF PromptReads, TypeOK
  <2>3. CASE age <= opened + SinceTick
      BY <1>0, <1>3, <2>2, <2>3, SMT
  <2>4. ASSUME NEW p \in pings, age <= opened + HeartbeatInterval + p
        PROVE  \E q \in pings' : age' <= opened + HeartbeatInterval + q
    <3>1. p + 1 \in pings'
        BY <1>0
    <3>2. age' <= opened + HeartbeatInterval + (p + 1)
        BY <1>0, <2>4, SMT
    <3> QED BY <3>1, <3>2
  <2> QED BY <2>1, <2>3, <2>4 DEF PongIsRecent
<1>6. NeverOnPrompt'
    BY <1>0 DEF NeverOnPrompt, Late
<1>7. TickDecides'
  <2>1. hb = "waiting" => SinceTick' = SinceTick + 1 /\ SinceTick \in Nat
      BY <1>3
  <2>2. Limit \in Nat /\ Limit' = Limit
      BY <1>0 DEF Limit
  <2> QED BY <1>0, <1>4, <2>1, <2>2, SMT DEF TickDecides
<1> QED BY <1>1, <1>2, <1>5, <1>6, <1>7

(* A tick: a prompt client passes.                                         *)
LEMMA BeatStep == IInv /\ TypeOK' /\ Beat
                     => PromptReads' /\ Opening' /\ PongIsRecent' /\ NeverOnPrompt' /\ TickDecides'
<1> SUFFICES ASSUME IInv, TypeOK', Beat
             PROVE  PromptReads' /\ Opening' /\ PongIsRecent' /\ NeverOnPrompt' /\ TickDecides'
    OBVIOUS
<1> USE DEF IInv, conn, client, messages
<1>0. /\ age \in Nat /\ pings \subseteq Nat /\ hb = "waiting" /\ due
      /\ hb' = IF age > HeartbeatTimeout THEN "closing" ELSE "pinging"
      /\ UNCHANGED <<socket, reason, age, wait, pings, opened, prompt, reads>>
      /\ opened \in Nat
    BY SMT DEF TypeOK, Beat
<1>1. SinceTick = HeartbeatInterval /\ SinceTick' = HeartbeatInterval
    BY <1>0 DEF SinceTick
<1>2. prompt => age <= HeartbeatTimeout \/ Late
  <2>1. CASE age <= opened + HeartbeatInterval
      BY <1>0, <2>1, SMT DEF Late
  <2>2. ASSUME NEW p \in pings, age <= opened + HeartbeatInterval + p
        PROVE  age <= HeartbeatTimeout \/ Late
    <3>1. p <= AnswerTime
        BY <2>2 DEF PromptReads
    <3> QED BY <1>0, <2>2, <3>1, SMT DEF Late
  <2> QED BY <1>0, <1>1, <2>1, <2>2 DEF PongIsRecent
<1>3. PromptReads' /\ Opening'
    BY <1>0 DEF PromptReads, Opening
<1>4. PongIsRecent'
    BY <1>0, <1>1 DEF PongIsRecent
<1>5. NeverOnPrompt'
  <2>1. Late' = Late
      BY <1>0 DEF Late
  <2> QED BY <1>0, <1>2, <2>1, SMT DEF NeverOnPrompt
<1>6. TickDecides'
  <2>1. Limit \in Nat /\ Limit' = Limit
      BY <1>0 DEF Limit
  <2> QED BY <1>0, <1>1, <2>1, SMT DEF TickDecides
<1> QED BY <1>3, <1>4, <1>5, <1>6

(* The ping is sent, and bounds the age from now on.                       *)
LEMMA SendPingStep == IInv /\ TypeOK' /\ SendPing
                         => PromptReads' /\ Opening' /\ PongIsRecent' /\ NeverOnPrompt' /\ TickDecides'
<1> SUFFICES ASSUME IInv, TypeOK', SendPing
             PROVE  PromptReads' /\ Opening' /\ PongIsRecent' /\ NeverOnPrompt' /\ TickDecides'
    OBVIOUS
<1> USE DEF IInv, conn, client, messages
<1>0. /\ age \in Nat /\ pings \subseteq Nat /\ wait \in 1 .. HeartbeatInterval
      /\ hb = "pinging" /\ hb' # "opening" /\ hb' # "closing"
      /\ UNCHANGED <<socket, reason, age, wait, due, opened, prompt, reads>>
      /\ opened \in Nat
    BY SMT DEF TypeOK, SendPing
<1>1. SinceTick = HeartbeatInterval /\ SinceTick' \in Nat
    BY <1>0, SinceTickInNat DEF SinceTick
<1>2. CASE socket = "open"
  <2>1. hb' = "waiting" /\ pings' = IF prompt THEN pings \cup {0} ELSE pings
      BY <1>2 DEF SendPing
  <2>2. PromptReads'
      BY <1>0, <2>1, SMT DEF PromptReads
  <2>3. PongIsRecent'
    <3>1. SUFFICES ASSUME prompt
                   PROVE  \E p \in pings' : age <= opened + HeartbeatInterval + p
        BY <1>0 DEF PongIsRecent
    <3>2. pings' = pings \cup {0}
        BY <2>1, <3>1
    <3>3. CASE age <= opened + HeartbeatInterval
      <4>1. age <= opened + HeartbeatInterval + 0
          BY <1>0, <3>3, SMT
      <4> QED BY <3>2, <4>1
    <3> QED BY <1>0, <1>1, <3>1, <3>2, <3>3 DEF PongIsRecent
  <2>4. TickDecides'
    <3>1. SUFFICES ASSUME reads = "reads"
                   PROVE  age <= Limit' + SinceTick'
        BY <1>0, <1>2, <2>1 DEF TickDecides
    <3>2. age <= HeartbeatTimeout
        BY <1>0, <1>2, <3>1 DEF TickDecides
    <3>3. Limit' \in Nat /\ HeartbeatTimeout <= Limit'
        BY <1>0, SMT DEF Limit
    <3>4. age <= Limit'
        BY <1>0, <3>2, <3>3, SMT
    <3> QED BY <1>0, <1>1, <3>3, <3>4, Slack, Zenon
  <2> QED BY <1>0, <2>2, <2>3, <2>4 DEF Opening, NeverOnPrompt, Late
<1>3. CASE socket = "closed"
  <2>1. hb' = "ended" /\ pings' = pings
      BY <1>3 DEF SendPing
  <2> QED
      BY <1>0, <1>3, <2>1
      DEF PromptReads, Opening, PongIsRecent, NeverOnPrompt, Late, TickDecides
<1> QED BY <1>2, <1>3 DEF TypeOK

-----------------------------------------------------------------------------
LEMMA NextIInv == IInv /\ [Next]_vars => IInv'
<1> SUFFICES ASSUME IInv, [Next]_vars PROVE IInv'
    OBVIOUS
<1>0. TypeOK /\ TypeOK'
    BY TypeStep DEF IInv
<1>1. CASE StartHeartbeat
  <2>1. /\ age \in Nat /\ hb = "opening" /\ hb' = "waiting" /\ opened' = age
        /\ UNCHANGED <<socket, reason, age, wait, due, pings, prompt, reads>>
      BY <1>0, <1>1, SMT DEF TypeOK, StartHeartbeat, conn, client
  <2>2. /\ ~due /\ wait = HeartbeatInterval
        /\ PromptReads /\ NeverOnPrompt /\ TickDecides
      BY <2>1 DEF IInv, Opening
  <2>3. SinceTick' = HeartbeatInterval - HeartbeatInterval
      BY <2>1, <2>2 DEF SinceTick
  <2>4. PromptReads' /\ Opening' /\ NeverOnPrompt'
      BY <2>1, <2>2 DEF PromptReads, Opening, NeverOnPrompt
  <2>5. PongIsRecent'
      BY <2>1, <2>2, <2>3, SMT DEF PongIsRecent, PromptReads
  <2>6. TickDecides'
    <3>1. Limit' \in Nat /\ age <= Limit'
        BY <2>1, SMT DEF Limit
    <3>2. age' <= Limit' + SinceTick'
        BY <1>0, <2>1, <3>1, SinceTickInNat, Slack, Zenon
    <3> QED BY <2>1, <2>2, <3>2 DEF TickDecides
  <2> QED BY <1>0, <2>4, <2>5, <2>6 DEF IInv
<1>2. CASE Elapse
    BY <1>0, <1>2, ElapseStep DEF IInv
<1>3. CASE Beat
    BY <1>0, <1>3, BeatStep DEF IInv
<1>4. CASE SendPing
    BY <1>0, <1>4, SendPingStep DEF IInv
<1>5. CASE TimeOut
  <2>1. /\ hb = "closing" /\ hb' = "ended" /\ socket' = "closed"
        /\ UNCHANGED <<pings, opened, prompt, reads>>
      BY <1>5 DEF TimeOut, Close, client
  <2>2. ~prompt \/ Late'
      BY <2>1 DEF IInv, NeverOnPrompt, Late
  <2> QED
      BY <1>0, <2>1, <2>2
      DEF IInv, PromptReads, Opening, PongIsRecent, NeverOnPrompt, Late, TickDecides
<1>6. CASE ReceivePong
  <2>1. /\ age' = 0 /\ hb # "opening"
        /\ pings' \subseteq pings
        /\ opened' = (IF hb = "closing" THEN opened ELSE 0)
        /\ socket = "open"
        /\ UNCHANGED <<socket, reason, hb, wait, due, prompt, reads>>
      BY <1>6 DEF ReceivePong, Touch, conn, client
  <2>2. SinceTick' \in Nat
      BY <1>0, SinceTickInNat
  <2>3. /\ age' <= opened' + SinceTick' /\ age' <= Limit' + SinceTick'
        /\ age' <= HeartbeatTimeout /\ age' <= Limit' + HeartbeatInterval
    <3>1. opened' \in Nat /\ Limit' \in Nat
        BY <1>0 DEF TypeOK, Limit
    <3>2. \A n \in Nat : 0 \in Nat /\ 0 <= n
        BY SMT
    <3>3. HeartbeatInterval \in Nat /\ HeartbeatTimeout \in Nat
        BY SMT
    <3> QED BY <2>1, <2>2, <3>1, <3>2, <3>3, Slack, Zenon
  <2>4. PromptReads' /\ Opening' /\ NeverOnPrompt'
      BY <2>1 DEF IInv, PromptReads, Opening, NeverOnPrompt, Late
  <2>5. PongIsRecent'
      BY <2>3 DEF PongIsRecent
  <2>6. TickDecides'
      BY <2>1, <2>3, Zenon DEF IInv, TickDecides
  <2> QED BY <1>0, <2>4, <2>5, <2>6 DEF IInv
<1>7. CASE CloseUnsupported \/ PeerCloses
  <2>1. /\ socket' = "closed"
        /\ reason' # "timeout" \/ reason' = reason
        /\ UNCHANGED <<hb, age, wait, due, pings, opened, prompt, reads>>
      BY <1>7 DEF CloseUnsupported, PeerCloses, Close, heartbeat, client
  <2> QED
      BY <1>0, <1>7, <2>1
      DEF IInv, PromptReads, Opening, PongIsRecent, SinceTick, NeverOnPrompt, Late, Limit,
          TickDecides, CloseUnsupported, PeerCloses, Close, client, heartbeat
<1>8. CASE Slow \/ Stall
  <2>1. /\ ~prompt' /\ pings' = {}
        /\ reads' = reads \/ reads' = "stalled"
        /\ UNCHANGED <<socket, reason, hb, age, wait, due, opened>>
      BY <1>8 DEF Slow, Stall, conn
  <2> QED
      BY <1>0, <2>1
      DEF IInv, PromptReads, Opening, PongIsRecent, SinceTick, NeverOnPrompt, Late, Limit, TickDecides
<1>9. CASE Unstall
  <2>1. /\ reads = "stalled" /\ reads' = "again"
        /\ UNCHANGED <<socket, reason, hb, age, wait, due, pings, opened, prompt>>
      BY <1>9 DEF Unstall, conn, heartbeat
  <2> QED
      BY <1>0, <2>1
      DEF IInv, PromptReads, Opening, PongIsRecent, SinceTick, NeverOnPrompt, Late, Limit, TickDecides
<1>10. ASSUME UNCHANGED <<conn, heartbeat, opened, client>> PROVE IInv'
    BY <1>0, <1>10
    DEF IInv, PromptReads, Opening, PongIsRecent, SinceTick, NeverOnPrompt, Late, Limit,
        TickDecides, conn, heartbeat, client
<1>11. CASE ReceiveUnsupported
    BY <1>10, <1>11 DEF ReceiveUnsupported
<1>12. ASSUME NEW i \in Ids,
              ReceiveControl(i) \/ ReceiveInvalid(i) \/ ExecuteControl(i) \/ WriteControlAck(i)
       PROVE  IInv'
    BY <1>10, <1>12 DEF ReceiveControl, ReceiveInvalid, ExecuteControl, WriteControlAck
<1>13. CASE UNCHANGED vars
    BY <1>10, <1>13 DEF vars
<1> QED
    BY <1>1, <1>2, <1>3, <1>4, <1>5, <1>6, <1>7, <1>8, <1>9, <1>11, <1>12, <1>13 DEF Next

-----------------------------------------------------------------------------
(* The type invariant of the connection.                                   *)
THEOREM TypeCorrect == Spec => []TypeOK
<1>1. Init => TypeOK
    BY InitIInv DEF IInv
<1>2. TypeOK /\ [Next]_vars => TypeOK'
    BY TypeStep
<1> QED BY <1>1, <1>2, PTL DEF Spec

(* Once it has started, the heartbeat closes a connection when its client  *)
(* is silent (runHeartbeat compares with the timeout on every tick), and   *)
(* no other, unless OnOpen has taken so long that the time it stored is    *)
(* too old before the first pong can be in.                                *)
THEOREM TimesOutTheSilent == Spec => []TimeoutMeansSilence
<1>1. Init => IInv
    BY InitIInv
<1>2. IInv /\ [Next]_vars => IInv'
    BY NextIInv
<1>3. IInv => TimeoutMeansSilence
    BY InvImplies
<1> QED BY <1>1, <1>2, <1>3, PTL DEF Spec
=============================================================================

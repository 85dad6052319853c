-------------------------- MODULE EventFanoutProofs --------------------------
(***************************************************************************)
(* What the run of EventFanout checks on two small buffers, proved for     *)
(* every finite set of subscribers and every choice of buffer sizes: the   *)
(* type invariant, NoPanic, EveryEventAccountedFor, and that every step is *)
(* a step of EventFeed.  The two liveness properties stay with TLC.        *)
(***************************************************************************)
EXTENDS EventFanout, TLAPS, SequenceTheorems

(* TypeOK without the bound on sub.dropped, which is a consequence of the  *)
(* accounting; fanOut numbers its event before it offers it.               *)
Types == /\ phase \in {"starting", "running", "ended"}
         /\ holder \in {"none", "fanOut", "cleanup"}
         /\ todo \in SUBSET Subscribers
         /\ subscribers \in SUBSET Subscribers
         /\ channel \in [Subscribers -> {"absent", "open", "closed"}]
         /\ buffer \in [Subscribers -> Seq(1 .. MaxEvents)]
         /\ \A s \in Subscribers : Len(buffer[s]) <= BufSize[s]
         /\ dropped \in [Subscribers -> Nat]
         /\ reader \in [Subscribers -> {"absent", "reading", "stopped", "done"}]
         /\ published \in 0 .. MaxEvents
         /\ holder = "fanOut" => published > 0
         /\ got \in [Subscribers -> Seq(1 .. MaxEvents)]
         /\ joined \in [Subscribers -> 0 .. MaxEvents]

(* The loop works on listed subscribers only.  NoPanic by itself is not    *)
(* inductive: FanOutUnlock has to know that the channels already visited   *)
(* are still open, which they are because nobody else can take subsMu.     *)
ListInv == /\ todo \subseteq subscribers
           /\ holder = "none" => todo = {}
           /\ holder # "cleanup" => \A s \in subscribers : channel[s] = "open"
           /\ holder = "cleanup" => \A s \in todo : channel[s] = "open"
           /\ \A s \in Subscribers :
                 channel[s] = "absent" => reader[s] = "absent"

(* What became of the events of one subscriber.  The two lengths have names *)
(* of their own: the prover does its arithmetic with numbers.               *)
Received(s) == Len(got[s])
Waiting(s) == Len(buffer[s])
Count(s) == Received(s) + Waiting(s) + dropped[s]

(* The accounting for every subscriber, listed or not: nothing happens on  *)
(* a channel before Subscribe makes it, and nothing more is published to   *)
(* it once it is off the list.                                             *)
CountOK(s) ==
    /\ channel[s] = "absent" => Count(s) = 0 /\ s \notin subscribers
    /\ s \in subscribers => Count(s) + Pending(s) = published - joined[s]
    /\ channel[s] # "absent" => Count(s) <= published - joined[s]

CountInv == \A s \in Subscribers : CountOK(s)

-----------------------------------------------------------------------------
(* Every variable keeps its type. *)
LEMMA TypesInit == Init => Types
BY BufSizeAssumption, MaxEventsAssumption DEF Init, Types

LEMMA TypesNext == Types /\ [Next]_vars => Types'
<1> SUFFICES ASSUME Types, [Next]_vars PROVE Types'
  OBVIOUS
<1> USE BufSizeAssumption, MaxEventsAssumption DEF Types
<1>1. CASE RunStart BY <1>1 DEF RunStart
<1>2. CASE FanOutLock BY <1>2 DEF FanOutLock
<1>3. CASE FanOutUnlock BY <1>3 DEF FanOutUnlock
<1>4. CASE CleanupLock BY <1>4 DEF CleanupLock
<1>5. CASE CleanupUnlock BY <1>5 DEF CleanupUnlock
<1>6. ASSUME NEW s \in Subscribers, FanOutSend(s) PROVE Types'
  <2>1. published \in 1 .. MaxEvents
    BY <1>6 DEF FanOutSend
  <2>2. UNCHANGED <<phase, holder, subscribers, channel, reader, published,
                    got, joined>> /\ todo' = todo \ {s}
    BY <1>6 DEF FanOutSend
  <2>3. CASE /\ Len(buffer[s]) < BufSize[s]
             /\ buffer' = [buffer EXCEPT ![s] = Append(@, published)]
             /\ UNCHANGED dropped
    <3>1. /\ Append(buffer[s], published) \in Seq(1 .. MaxEvents)
          /\ Len(Append(buffer[s], published)) = Len(buffer[s]) + 1
      BY <2>1
    <3>2. buffer' \in [Subscribers -> Seq(1 .. MaxEvents)]
      BY <2>3, <3>1
    <3>3. \A x \in Subscribers : Len(buffer'[x]) <= BufSize[x]
      BY <2>3, <3>1
    <3> QED BY <2>2, <2>3, <3>2, <3>3
  <2>4. CASE /\ Len(buffer[s]) >= BufSize[s]
             /\ dropped' = [dropped EXCEPT ![s] = @ + 1]
             /\ UNCHANGED buffer
    BY <2>2, <2>4
  <2> QED BY <1>6, <2>3, <2>4 DEF FanOutSend, Offer
<1>7. ASSUME NEW s \in Subscribers, CleanupClose(s) PROVE Types'
  BY <1>7 DEF CleanupClose, Closed
<1>8. ASSUME NEW s \in Subscribers, Subscribe(s) PROVE Types'
  BY <1>8 DEF Subscribe
<1>9. ASSUME NEW s \in Subscribers, Unsubscribe(s) PROVE Types'
  BY <1>9 DEF Unsubscribe, Unlisted
<1>10. ASSUME NEW s \in Subscribers, Receive(s) PROVE Types'
  <2>1. UNCHANGED <<phase, holder, todo, subscribers, channel, dropped,
                    published, joined>>
    BY <1>10 DEF Receive
  <2>2. CASE /\ buffer[s] # <<>>
             /\ got' = [got EXCEPT ![s] = Append(@, Head(buffer[s]))]
             /\ buffer' = [buffer EXCEPT ![s] = Tail(@)]
             /\ UNCHANGED reader
    <3>1. /\ Tail(buffer[s]) \in Seq(1 .. MaxEvents)
          /\ Len(Tail(buffer[s])) = Len(buffer[s]) - 1
          /\ Head(buffer[s]) \in 1 .. MaxEvents
      BY <2>2, HeadTailProperties
    <3>2. got' \in [Subscribers -> Seq(1 .. MaxEvents)]
      BY <2>2, <3>1
    <3>3. buffer' \in [Subscribers -> Seq(1 .. MaxEvents)]
      BY <2>2, <3>1
    <3>4. \A x \in Subscribers : Len(buffer'[x]) <= BufSize[x]
      BY <2>2, <3>1
    <3> QED BY <2>1, <2>2, <3>2, <3>3, <3>4
  <2>3. CASE /\ reader' = [reader EXCEPT ![s] = "done"]
             /\ UNCHANGED <<got, buffer>>
    BY <2>1, <2>3
  <2> QED BY <1>10, <2>2, <2>3 DEF Receive
<1>11. ASSUME NEW s \in Subscribers, StopReading(s) PROVE Types'
  BY <1>11 DEF StopReading
<1>12. CASE UNCHANGED vars BY <1>12 DEF vars
<1> QED
  BY <1>1, <1>2, <1>3, <1>4, <1>5, <1>6, <1>7, <1>8, <1>9, <1>10, <1>11, <1>12
  DEF Next, Monitor

LEMMA TypesInvariant == Spec => []Types
BY TypesInit, TypesNext, PTL DEF Spec

-----------------------------------------------------------------------------
(* The list: who is on it, and which channels are open. *)
LEMMA ListNext == Types /\ ListInv /\ [Next]_vars => ListInv'
<1> SUFFICES ASSUME Types, ListInv, [Next]_vars PROVE ListInv'
  OBVIOUS
<1> USE DEF Types, ListInv
<1>1. CASE RunStart BY <1>1 DEF RunStart
<1>2. CASE FanOutLock BY <1>2 DEF FanOutLock
<1>3. CASE FanOutUnlock BY <1>3 DEF FanOutUnlock
<1>4. CASE CleanupLock BY <1>4 DEF CleanupLock
<1>5. CASE CleanupUnlock BY <1>5 DEF CleanupUnlock
<1>6. ASSUME NEW s \in Subscribers, FanOutSend(s) PROVE ListInv'
  BY <1>6 DEF FanOutSend
<1>7. ASSUME NEW s \in Subscribers, CleanupClose(s) PROVE ListInv'
  BY <1>7 DEF CleanupClose, Closed
<1>8. ASSUME NEW s \in Subscribers, Subscribe(s) PROVE ListInv'
  BY <1>8 DEF Subscribe
<1>9. ASSUME NEW s \in Subscribers, Unsubscribe(s) PROVE ListInv'
  BY <1>9 DEF Unsubscribe, Unlisted
<1>10. ASSUME NEW s \in Subscribers, Receive(s) PROVE ListInv'
  BY <1>10 DEF Receive
<1>11. ASSUME NEW s \in Subscribers, StopReading(s) PROVE ListInv'
  BY <1>11 DEF StopReading
<1>12. CASE UNCHANGED vars BY <1>12 DEF vars
<1> QED
  BY <1>1, <1>2, <1>3, <1>4, <1>5, <1>6, <1>7, <1>8, <1>9, <1>10, <1>11, <1>12
  DEF Next, Monitor

LEMMA ListInvariant == Spec => []ListInv
<1>1. Init => ListInv
  BY DEF Init, ListInv
<1> QED BY <1>1, ListNext, TypesInvariant, PTL DEF Spec

(* fanOut never sends on a closed channel and no channel is closed twice,  *)
(* for any number of subscribers.                                          *)
THEOREM NeverPanics == Spec => []NoPanic
<1>1. ListInv => NoPanic
  BY DEF ListInv, NoPanic
<1> QED BY <1>1, ListInvariant, PTL

-----------------------------------------------------------------------------
(* The accounting, for one subscriber at a time. *)
LEMMA CountTypes ==
    ASSUME Types, NEW s \in Subscribers
    PROVE  /\ Received(s) \in Nat /\ Waiting(s) \in Nat
           /\ dropped[s] \in Nat /\ Count(s) \in Nat
           /\ joined[s] \in Nat /\ published \in Nat
           /\ Pending(s) \in {0, 1}
<1>1. Received(s) \in Nat /\ Waiting(s) \in Nat
  BY DEF Types, Received, Waiting
<1> QED BY <1>1, MaxEventsAssumption DEF Types, Count, Pending

(* A step that changes nothing the accounting reads keeps it.              *)
LEMMA CountUnchanged ==
    ASSUME CountInv,
           UNCHANGED <<holder, todo, subscribers, channel, buffer, dropped,
                       published, got, joined>>
    PROVE  CountInv'
BY DEF CountInv, CountOK, Count, Received, Waiting, Pending

LEMMA CountNext == Types /\ ListInv /\ CountInv /\ [Next]_vars => CountInv'
<1> SUFFICES ASSUME Types, ListInv, CountInv, [Next]_vars,
                    NEW x \in Subscribers
             PROVE  CountOK(x)'
  BY DEF CountInv
<1>0. /\ CountOK(x)
      /\ Received(x) \in Nat /\ Waiting(x) \in Nat /\ dropped[x] \in Nat
      /\ Count(x) \in Nat /\ joined[x] \in Nat /\ published \in Nat
      /\ Pending(x) \in {0, 1}
  BY CountTypes DEF CountInv
<1>1. CASE RunStart
  BY <1>1, CountUnchanged DEF RunStart, CountInv
<1>2. CASE FanOutLock
  <2>1. /\ Count(x)' = Count(x)
        /\ published' = published + 1
        /\ UNCHANGED <<subscribers, channel, joined>>
    BY <1>2 DEF FanOutLock, Count, Received, Waiting
  <2>2. /\ Pending(x) = 0
        /\ x \in subscribers => Pending(x)' = 1
    BY <1>2 DEF FanOutLock, Pending
  <2> QED BY <1>0, <2>1, <2>2 DEF CountOK
<1>3. CASE FanOutUnlock
  <2>1. /\ Count(x)' = Count(x) /\ Pending(x)' = Pending(x)
        /\ UNCHANGED <<subscribers, channel, joined, published>>
    BY <1>3 DEF FanOutUnlock, Count, Received, Waiting, Pending
  <2> QED BY <1>0, <2>1 DEF CountOK
<1>4. CASE CleanupLock
  <2>1. /\ Count(x)' = Count(x) /\ Pending(x)' = Pending(x)
        /\ UNCHANGED <<subscribers, channel, joined, published>>
    BY <1>4 DEF CleanupLock, Count, Received, Waiting, Pending
  <2> QED BY <1>0, <2>1 DEF CountOK
<1>5. CASE CleanupUnlock
  <2>1. /\ Count(x)' = Count(x) /\ subscribers' = {}
        /\ UNCHANGED <<channel, joined, published>>
    BY <1>5 DEF CleanupUnlock, Count, Received, Waiting
  <2> QED BY <1>0, <2>1 DEF CountOK
<1>6. ASSUME NEW s \in Subscribers, FanOutSend(s) PROVE CountOK(x)'
  <2>1. UNCHANGED <<subscribers, channel, published, joined>>
    BY <1>6 DEF FanOutSend
  <2>2. CASE x = s
    <3>1. Pending(x) = 1 /\ Pending(x)' = 0
      BY <1>6, <2>2 DEF FanOutSend, Pending
    <3>2. x \in subscribers /\ channel[x] = "open"
      BY <1>6, <2>2 DEF FanOutSend, ListInv
    <3>3. Count(x)' = Count(x) + 1
      <4>1. CASE /\ buffer' = [buffer EXCEPT ![s] = Append(@, published)]
                 /\ UNCHANGED dropped
        <5>1. buffer'[x] = Append(buffer[x], published)
          BY <4>1, <2>2 DEF Types
        <5>2. Len(Append(buffer[x], published)) = Len(buffer[x]) + 1
          <6>1. published \in 1 .. MaxEvents
            BY <1>6, MaxEventsAssumption DEF FanOutSend, Types
          <6> QED BY <6>1, AppendProperties DEF Types
        <5>3. Waiting(x)' = Waiting(x) + 1
          BY <5>1, <5>2 DEF Waiting
        <5>4. Received(x)' = Received(x) /\ dropped'[x] = dropped[x]
          BY <1>6, <4>1 DEF FanOutSend, Received
        <5> QED BY <1>0, <5>3, <5>4 DEF Count
      <4>2. CASE /\ dropped' = [dropped EXCEPT ![s] = @ + 1]
                 /\ UNCHANGED buffer
        <5>1. /\ dropped'[x] = dropped[x] + 1
              /\ Received(x)' = Received(x) /\ Waiting(x)' = Waiting(x)
          BY <1>6, <2>2, <4>2 DEF FanOutSend, Types, Received, Waiting
        <5> QED BY <1>0, <5>1 DEF Count
      <4> QED BY <1>6, <4>1, <4>2 DEF FanOutSend, Offer
    <3> QED BY <1>0, <2>1, <3>1, <3>2, <3>3 DEF CountOK
  <2>3. CASE x # s
    <3>1. Pending(x)' = Pending(x)
      BY <1>6, <2>3 DEF FanOutSend, Pending
    <3>2. got'[x] = got[x] /\ buffer'[x] = buffer[x] /\ dropped'[x] = dropped[x]
      BY <1>6, <2>3 DEF FanOutSend, Offer, Types
    <3>3. Count(x)' = Count(x)
      BY <3>2 DEF Count, Received, Waiting
    <3> QED BY <1>0, <2>1, <3>1, <3>3 DEF CountOK
  <2> QED BY <2>2, <2>3
<1>7. ASSUME NEW s \in Subscribers, CleanupClose(s) PROVE CountOK(x)'
  <2>1. /\ Count(x)' = Count(x) /\ Pending(x)' = Pending(x)
        /\ UNCHANGED <<subscribers, joined, published>>
    BY <1>7 DEF CleanupClose, Count, Received, Waiting, Pending
  <2>2. channel'[x] = "absent" <=> channel[x] = "absent"
    BY <1>7 DEF CleanupClose, Closed, Types
  <2> QED BY <1>0, <2>1, <2>2 DEF CountOK
<1>8. ASSUME NEW s \in Subscribers, Subscribe(s) PROVE CountOK(x)'
  <2>1. Count(x)' = Count(x) /\ Pending(x)' = 0 /\ Pending(x) = 0
    BY <1>8 DEF Subscribe, Count, Received, Waiting, Pending
  <2>2. CASE x = s
    <3>1. /\ channel[x] = "absent" /\ channel'[x] = "open"
          /\ joined'[x] = published /\ published' = published
      BY <1>8, <2>2 DEF Subscribe, Types
    <3> QED BY <1>0, <2>1, <3>1 DEF CountOK
  <2>3. CASE x # s
    <3>1. /\ channel'[x] = channel[x] /\ joined'[x] = joined[x]
          /\ published' = published
          /\ x \in subscribers' <=> x \in subscribers
      BY <1>8, <2>3 DEF Subscribe, Types
    <3> QED BY <1>0, <2>1, <3>1 DEF CountOK
  <2> QED BY <2>2, <2>3
<1>9. ASSUME NEW s \in Subscribers, Unsubscribe(s) PROVE CountOK(x)'
  <2>1. /\ Count(x)' = Count(x) /\ Pending(x)' = Pending(x)
        /\ UNCHANGED <<joined, published>>
    BY <1>9 DEF Unsubscribe, Count, Received, Waiting, Pending
  <2>2. /\ channel'[x] = "absent" <=> channel[x] = "absent"
        /\ x \in subscribers' => x \in subscribers
    BY <1>9 DEF Unsubscribe, Unlisted, Types
  <2> QED BY <1>0, <2>1, <2>2 DEF CountOK
<1>10. ASSUME NEW s \in Subscribers, Receive(s) PROVE CountOK(x)'
  <2>1. /\ Pending(x)' = Pending(x)
        /\ UNCHANGED <<subscribers, channel, joined, published>>
    BY <1>10 DEF Receive, Pending
  <2>2. Count(x)' = Count(x)
    <3>1. CASE x # s \/ UNCHANGED <<got, buffer>>
      <4>1. /\ got'[x] = got[x] /\ buffer'[x] = buffer[x]
            /\ dropped'[x] = dropped[x]
        BY <1>10, <3>1 DEF Receive, Types
      <4> QED BY <4>1 DEF Count, Received, Waiting
    <3>2. CASE /\ x = s
               /\ buffer[s] # <<>>
               /\ got' = [got EXCEPT ![s] = Append(@, Head(buffer[s]))]
               /\ buffer' = [buffer EXCEPT ![s] = Tail(@)]
      <4>1. /\ Len(Tail(buffer[x])) = Len(buffer[x]) - 1
            /\ Head(buffer[x]) \in 1 .. MaxEvents
        BY <3>2, HeadTailProperties DEF Types
      <4>2. Len(Append(got[x], Head(buffer[x]))) = Len(got[x]) + 1
        BY <4>1, AppendProperties DEF Types
      <4>3. /\ got'[x] = Append(got[x], Head(buffer[x]))
            /\ buffer'[x] = Tail(buffer[x])
            /\ dropped'[x] = dropped[x]
        BY <1>10, <3>2 DEF Receive, Types
      <4>4. /\ Received(x)' = Received(x) + 1 /\ Waiting(x)' = Waiting(x) - 1
        BY <4>1, <4>2, <4>3 DEF Received, Waiting
      <4> QED BY <1>0, <4>3, <4>4 DEF Count
    <3> QED BY <1>10, <3>1, <3>2 DEF Receive
  <2> QED BY <1>0, <2>1, <2>2 DEF CountOK
<1>11. ASSUME NEW s \in Subscribers, StopReading(s) PROVE CountOK(x)'
  BY <1>11, CountUnchanged DEF StopReading, CountInv
<1>12. CASE UNCHANGED vars
  BY <1>12, CountUnchanged DEF vars, CountInv
<1> QED
  BY <1>1, <1>2, <1>3, <1>4, <1>5, <1>6, <1>7, <1>8, <1>9, <1>10, <1>11, <1>12
  DEF Next, Monitor

LEMMA CountInvariant == Spec => []CountInv
<1>1. Init => CountInv
  BY DEF Init, CountInv, CountOK, Count, Received, Waiting, Pending
<1> QED BY <1>1, CountNext, ListInvariant, TypesInvariant, PTL DEF Spec

(* Every published event is received, waiting or counted as dropped, for   *)
(* every listed subscriber and every buffer size.                          *)
THEOREM AccountingHolds == Spec => []EveryEventAccountedFor
<1>1. Types /\ CountInv => EveryEventAccountedFor
  BY DEF CountInv, CountOK, Count, Received, Waiting, Types, EveryEventAccountedFor
<1> QED BY <1>1, CountInvariant, TypesInvariant, PTL

(* Type correctness; the bound on sub.dropped comes from the accounting.   *)
THEOREM TypeCorrect == Spec => []TypeOK
<1>1. Types /\ CountInv => TypeOK
  <2> SUFFICES ASSUME Types, CountInv, NEW s \in Subscribers
               PROVE  dropped[s] \in 0 .. MaxEvents
    BY DEF Types, TypeOK
  <2>1. dropped[s] <= published
    <3>1. dropped[s] <= Count(s)
      BY CountTypes DEF Count
    <3> QED BY <3>1, CountTypes DEF CountInv, CountOK
  <2> QED BY <2>1, MaxEventsAssumption DEF Types
<1> QED BY <1>1, CountInvariant, TypesInvariant, PTL

-----------------------------------------------------------------------------
(* The order of one subscriber's events: what waits is newer than what was *)
(* received, increasing, and never newer than the last event offered.      *)
Newest(s) == Feed!NewestOf(got[s])
Horizon(s) == published - Pending(s)

OrderOK(s) ==
    /\ Newest(s) <= Horizon(s)
    /\ \A i \in 1 .. Waiting(s) : /\ Newest(s) < buffer[s][i]
                                  /\ buffer[s][i] <= Horizon(s)
    /\ \A i, j \in 1 .. Waiting(s) : i < j => buffer[s][i] < buffer[s][j]

OrderInv == \A s \in Subscribers : OrderOK(s)

LEMMA OrderTypes ==
    ASSUME Types, NEW s \in Subscribers
    PROVE  /\ Newest(s) \in Nat /\ Horizon(s) \in Int /\ published \in Nat
           /\ Pending(s) \in {0, 1}
           /\ Waiting(s) \in Nat
           /\ \A i \in 1 .. Waiting(s) : buffer[s][i] \in Nat
<1>1. got[s] \in Seq(1 .. MaxEvents) /\ buffer[s] \in Seq(1 .. MaxEvents)
  BY DEF Types
<1>2. Newest(s) \in Nat
  <2>1. CASE got[s] = <<>>
    BY <2>1 DEF Newest, Feed!NewestOf
  <2>2. CASE got[s] # <<>>
    <3>1. Len(got[s]) \in 1 .. Len(got[s])
      BY <1>1, <2>2, EmptySeq, LenProperties
    <3>2. got[s][Len(got[s])] \in 1 .. MaxEvents
      BY <1>1, <3>1, ElementOfSeq
    <3> QED BY <2>2, <3>2, MaxEventsAssumption DEF Newest, Feed!NewestOf
  <2> QED BY <2>1, <2>2
<1>3. \A i \in 1 .. Waiting(s) : buffer[s][i] \in Nat
  BY <1>1, ElementOfSeq, MaxEventsAssumption DEF Waiting
<1> QED BY <1>2, <1>3, CountTypes, MaxEventsAssumption
        DEF Types, Horizon, Pending

(* A step that leaves a subscriber's events alone and does not move its    *)
(* horizon back keeps their order.                                         *)
LEMMA OrderKept ==
    ASSUME Types, Types', NEW s \in Subscribers, OrderOK(s),
           got'[s] = got[s], buffer'[s] = buffer[s],
           Horizon(s) <= Horizon(s)'
    PROVE  OrderOK(s)'
<1>1. Newest(s)' = Newest(s) /\ Waiting(s)' = Waiting(s)
  BY DEF Newest, Waiting
<1>2. /\ Horizon(s) \in Int /\ Horizon(s)' \in Int /\ Newest(s) \in Nat
      /\ \A i \in 1 .. Waiting(s) : buffer[s][i] \in Nat
  <2>1. Horizon(s)' \in Int
    BY MaxEventsAssumption DEF Types, Horizon, Pending
  <2> QED BY <2>1, OrderTypes
<1>3. Newest(s) <= Horizon(s)'
  BY <1>2 DEF OrderOK
<1>4. \A i \in 1 .. Waiting(s) : buffer[s][i] <= Horizon(s)'
  BY <1>2 DEF OrderOK
<1> QED BY <1>1, <1>3, <1>4 DEF OrderOK

LEMMA OrderNext ==
    Types /\ Types' /\ ListInv /\ OrderInv /\ [Next]_vars => OrderInv'
<1> SUFFICES ASSUME Types, Types', ListInv, OrderInv, [Next]_vars,
                    NEW x \in Subscribers
             PROVE  OrderOK(x)'
  BY DEF OrderInv
<1>0. /\ OrderOK(x)
      /\ Newest(x) \in Nat /\ Horizon(x) \in Int /\ published \in Nat
      /\ Pending(x) \in {0, 1}
      /\ Waiting(x) \in Nat
      /\ \A i \in 1 .. Waiting(x) : buffer[x][i] \in Nat
  BY OrderTypes DEF OrderInv
<1>a. ASSUME got'[x] = got[x], buffer'[x] = buffer[x],
             published' = published, Pending(x)' <= Pending(x)
      PROVE  OrderOK(x)'
  <2>1. Pending(x)' \in {0, 1}
    BY DEF Pending
  <2>2. Horizon(x) <= Horizon(x)'
    BY <1>0, <1>a, <2>1 DEF Horizon
  <2> QED BY <1>0, <1>a, <2>2, OrderKept
<1>1. CASE RunStart
  BY <1>0, <1>1, <1>a DEF RunStart, Pending
<1>2. CASE FanOutLock
  <2>1. Pending(x) = 0 /\ Pending(x)' \in {0, 1} /\ published' = published + 1
    BY <1>2 DEF FanOutLock, Pending
  <2>2. Horizon(x) <= Horizon(x)'
    BY <1>0, <2>1 DEF Horizon
  <2>3. got'[x] = got[x] /\ buffer'[x] = buffer[x]
    BY <1>2 DEF FanOutLock
  <2> QED BY <1>0, <2>2, <2>3, OrderKept
<1>3. CASE FanOutUnlock
  <2>1. Pending(x)' = 0
    BY <1>3 DEF FanOutUnlock, Pending
  <2> QED BY <1>0, <1>3, <1>a, <2>1 DEF FanOutUnlock
<1>4. CASE CleanupLock
  <2>1. Pending(x)' = 0
    BY <1>4 DEF CleanupLock, Pending
  <2> QED BY <1>0, <1>4, <1>a, <2>1 DEF CleanupLock
<1>5. CASE CleanupUnlock
  <2>1. Pending(x)' = 0
    BY <1>5 DEF CleanupUnlock, Pending
  <2> QED BY <1>0, <1>5, <1>a, <2>1 DEF CleanupUnlock
<1>6. ASSUME NEW s \in Subscribers, FanOutSend(s) PROVE OrderOK(x)'
  <2>1. published' = published /\ got' = got
    BY <1>6 DEF FanOutSend
  <2>2. Pending(x)' <= Pending(x)
    <3>1. Pending(x)' = 1 => Pending(x) = 1
      BY <1>6 DEF FanOutSend, Pending
    <3>2. Pending(x)' \in {0, 1}
      BY DEF Pending
    <3> QED BY <1>0, <3>1, <3>2
  <2>3. CASE buffer'[x] = buffer[x]
    BY <1>a, <2>1, <2>2, <2>3
  <2>4. CASE x = s /\ buffer' = [buffer EXCEPT ![s] = Append(@, published)]
    <3>1. Pending(x) = 1 /\ Pending(x)' = 0
      BY <1>6, <2>4 DEF FanOutSend, Pending
    <3>2. Horizon(x) = published - 1 /\ Horizon(x)' = published
      BY <1>0, <2>1, <3>1 DEF Horizon
    <3>3. published \in 1 .. MaxEvents
      BY <1>6, MaxEventsAssumption DEF FanOutSend, Types
    <3> DEFINE n == Waiting(x)
    <3>4. /\ buffer'[x] = Append(buffer[x], published)
          /\ buffer[x] \in Seq(1 .. MaxEvents)
      BY <2>4 DEF Types
    <3>5. /\ Waiting(x)' = n + 1
          /\ \A i \in 1 .. n : buffer'[x][i] = buffer[x][i]
          /\ buffer'[x][n + 1] = published
      BY <3>3, <3>4, AppendProperties DEF Waiting
    <3>6. Newest(x)' = Newest(x) /\ Newest(x) < published
      <4>1. Newest(x)' = Newest(x)
        BY <2>1 DEF Newest
      <4> QED BY <4>1, <1>0, <3>2 DEF OrderOK
    <3>7. \A i \in 1 .. n : Newest(x) < buffer[x][i] /\ buffer[x][i] < published
      BY <1>0, <3>2 DEF OrderOK
    <3>8. \A i \in 1 .. n + 1 : \/ i \in 1 .. n
                                \/ i = n + 1
      BY <1>0
    <3>9. \A i \in 1 .. n + 1 : Newest(x) < buffer'[x][i] /\ buffer'[x][i] <= published
      BY <1>0, <3>5, <3>6, <3>7, <3>8
    <3>10. \A i, j \in 1 .. n + 1 : i < j => buffer'[x][i] < buffer'[x][j]
      <4> SUFFICES ASSUME NEW i \in 1 .. n + 1, NEW j \in 1 .. n + 1, i < j
                   PROVE  buffer'[x][i] < buffer'[x][j]
        OBVIOUS
      <4>1. i \in 1 .. n
        BY <1>0
      <4>2. CASE j = n + 1
        BY <3>5, <3>7, <4>1, <4>2
      <4>3. CASE j \in 1 .. n
        BY <1>0, <3>5, <4>1, <4>3 DEF OrderOK
      <4> QED BY <3>8, <4>2, <4>3
    <3>11. Newest(x)' <= Horizon(x)'
      BY <1>0, <3>2, <3>6
    <3> QED BY <3>2, <3>5, <3>6, <3>9, <3>10, <3>11 DEF OrderOK
  <2> QED BY <1>6, <2>3, <2>4 DEF FanOutSend, Offer, Types
<1>7. ASSUME NEW s \in Subscribers, CleanupClose(s) PROVE OrderOK(x)'
  <2>1. Pending(x)' = 0
    BY <1>7 DEF CleanupClose, Pending
  <2> QED BY <1>0, <1>7, <1>a, <2>1 DEF CleanupClose
<1>8. ASSUME NEW s \in Subscribers, Subscribe(s) PROVE OrderOK(x)'
  <2>1. Pending(x)' = 0
    BY <1>8 DEF Subscribe, Pending
  <2> QED BY <1>0, <1>8, <1>a, <2>1 DEF Subscribe
<1>9. ASSUME NEW s \in Subscribers, Unsubscribe(s) PROVE OrderOK(x)'
  <2>1. Pending(x)' = 0
    BY <1>9 DEF Unsubscribe, Pending
  <2> QED BY <1>0, <1>9, <1>a, <2>1 DEF Unsubscribe
<1>10. ASSUME NEW s \in Subscribers, Receive(s) PROVE OrderOK(x)'
  <2>1. /\ Pending(x)' = Pending(x) /\ published' = published
        /\ Horizon(x)' = Horizon(x)
    BY <1>10 DEF Receive, Pending, Horizon
  <2>2. CASE got'[x] = got[x] /\ buffer'[x] = buffer[x]
    BY <1>0, <1>a, <2>1, <2>2
  <2>3. CASE /\ x = s /\ buffer[s] # <<>>
             /\ got' = [got EXCEPT ![s] = Append(@, Head(buffer[s]))]
             /\ buffer' = [buffer EXCEPT ![s] = Tail(@)]
    <3> DEFINE n == Waiting(x)
    <3>1. /\ got'[x] = Append(got[x], Head(buffer[x]))
          /\ buffer'[x] = Tail(buffer[x])
          /\ got[x] \in Seq(1 .. MaxEvents) /\ buffer[x] \in Seq(1 .. MaxEvents)
          /\ buffer[x] # <<>>
      BY <2>3 DEF Types
    <3>2. /\ n \in Nat \ {0}
          /\ Head(buffer[x]) = buffer[x][1] /\ Head(buffer[x]) \in 1 .. MaxEvents
          /\ Waiting(x)' = n - 1
          /\ \A i \in 1 .. n - 1 : buffer'[x][i] = buffer[x][i + 1]
      <4>1. Len(buffer[x]) # 0
        BY <3>1, EmptySeq
      <4>2. n \in Nat \ {0}
        BY <1>0, <4>1 DEF Waiting
      <4>3. /\ Head(buffer[x]) = buffer[x][1] /\ Head(buffer[x]) \in 1 .. MaxEvents
        <5>1. Head(buffer[x]) \in 1 .. MaxEvents
          BY <3>1, HeadTailProperties
        <5>2. Head(buffer[x]) = buffer[x][1]
          BY <3>1
        <5> QED BY <5>1, <5>2
      <4>4. /\ Waiting(x)' = n - 1
            /\ \A i \in 1 .. n - 1 : buffer'[x][i] = buffer[x][i + 1]
        BY <3>1, HeadTailProperties DEF Waiting
      <4> QED BY <4>2, <4>3, <4>4
    <3>3. Newest(x)' = buffer[x][1]
      <4>1. /\ Len(got'[x]) = Len(got[x]) + 1
            /\ got'[x][Len(got[x]) + 1] = buffer[x][1]
            /\ got'[x] # <<>>
        BY <3>1, <3>2, AppendProperties
      <4> QED BY <4>1 DEF Newest, Feed!NewestOf
    <3>4. buffer[x][1] <= Horizon(x)'
      BY <1>0, <2>1, <3>2 DEF OrderOK
    <3>5. \A i \in 1 .. n - 1 : i + 1 \in 1 .. n /\ 1 < i + 1
      BY <3>2
    <3>6. \A i \in 1 .. n - 1 : /\ buffer[x][1] < buffer'[x][i]
                                /\ buffer'[x][i] <= Horizon(x)'
      BY <1>0, <2>1, <3>2, <3>5 DEF OrderOK
    <3>7. \A i, j \in 1 .. n - 1 : i < j => buffer'[x][i] < buffer'[x][j]
      BY <1>0, <3>2, <3>5 DEF OrderOK
    <3> QED BY <3>2, <3>3, <3>4, <3>6, <3>7 DEF OrderOK
  <2> QED BY <1>10, <2>2, <2>3 DEF Receive, Types
<1>11. ASSUME NEW s \in Subscribers, StopReading(s) PROVE OrderOK(x)'
  BY <1>0, <1>11, <1>a DEF StopReading, Pending
<1>12. CASE UNCHANGED vars
  BY <1>0, <1>12, <1>a DEF vars, Pending
<1> QED
  BY <1>1, <1>2, <1>3, <1>4, <1>5, <1>6, <1>7, <1>8, <1>9, <1>10, <1>11, <1>12
  DEF Next, Monitor

LEMMA OrderInvariant == Spec => []OrderInv
<1>1. Init => OrderInv
  BY DEF Init, OrderInv, OrderOK, Newest, Horizon, Pending, Waiting, Feed!NewestOf
<1> QED BY <1>1, OrderNext, ListInvariant, TypesInvariant, PTL DEF Spec

-----------------------------------------------------------------------------
(* The refinement, step by step: fanOut's lock is FeedPublish, a receive   *)
(* is FeedDeliver or FeedFinish, everything else stutters.                 *)
LEMMA ImplementsStep ==
    Types /\ ListInv /\ OrderInv /\ [Next]_vars
        => [Feed!FeedNext]_(Feed!feedVars)
<1> SUFFICES ASSUME Types, ListInv, OrderInv, [Next]_vars
             PROVE  [Feed!FeedNext]_(Feed!feedVars)
  OBVIOUS
<1>a. ASSUME UNCHANGED <<published, got, reader>>
      PROVE  UNCHANGED Feed!feedVars
  BY <1>a DEF Feed!feedVars, Finished
<1>1. CASE RunStart BY <1>1, <1>a DEF RunStart
<1>2. CASE FanOutLock
  <2>1. Feed!FeedPublish
    BY <1>2 DEF FanOutLock, Feed!FeedPublish, Finished
  <2> QED BY <2>1 DEF Feed!FeedNext
<1>3. CASE FanOutUnlock BY <1>3, <1>a DEF FanOutUnlock
<1>4. CASE CleanupLock BY <1>4, <1>a DEF CleanupLock
<1>5. CASE CleanupUnlock BY <1>5, <1>a DEF CleanupUnlock
<1>6. ASSUME NEW s \in Subscribers, FanOutSend(s)
      PROVE  UNCHANGED Feed!feedVars
  BY <1>6, <1>a DEF FanOutSend
<1>7. ASSUME NEW s \in Subscribers, CleanupClose(s)
      PROVE  UNCHANGED Feed!feedVars
  BY <1>7, <1>a DEF CleanupClose
<1>8. ASSUME NEW s \in Subscribers, Subscribe(s)
      PROVE  UNCHANGED Feed!feedVars
  <2>1. reader[s] = "absent" /\ reader' = [reader EXCEPT ![s] = "reading"]
    BY <1>8 DEF Subscribe, ListInv
  <2>2. Finished' = Finished
    BY <2>1 DEF Finished, Types
  <2> QED BY <1>8, <2>2 DEF Subscribe, Feed!feedVars
<1>9. ASSUME NEW s \in Subscribers, Unsubscribe(s)
      PROVE  UNCHANGED Feed!feedVars
  BY <1>9, <1>a DEF Unsubscribe
<1>10. ASSUME NEW s \in Subscribers, Receive(s) PROVE Feed!FeedNext
  <2>1. published' = published /\ reader[s] = "reading" /\ s \notin Finished
    BY <1>10 DEF Receive, Finished
  <2>2. CASE /\ buffer[s] # <<>>
             /\ got' = [got EXCEPT ![s] = Append(@, Head(buffer[s]))]
             /\ UNCHANGED reader
    <3> DEFINE e == Head(buffer[s])
    <3>1. e = buffer[s][1] /\ 1 \in 1 .. Waiting(s)
      <4>1. Len(buffer[s]) # 0
        BY <2>2, EmptySeq DEF Types
      <4>2. 1 \in 1 .. Waiting(s)
        BY <4>1, CountTypes DEF Waiting
      <4>3. e = buffer[s][1]
        BY <2>2 DEF Types
      <4> QED BY <4>2, <4>3
    <3>2. Newest(s) < e /\ e <= Horizon(s)
      BY <3>1 DEF OrderInv, OrderOK
    <3>3. e \in (Newest(s) + 1) .. published
      <4>1. e \in Nat
        BY <3>1, OrderTypes
      <4> QED BY <3>2, <4>1, OrderTypes DEF Horizon
    <3>4. Finished' = Finished
      BY <2>2 DEF Finished
    <3>5. Feed!FeedDeliver(s)
      BY <2>1, <2>2, <3>3, <3>4 DEF Feed!FeedDeliver, Newest
    <3> QED BY <3>5 DEF Feed!FeedNext
  <2>3. CASE reader' = [reader EXCEPT ![s] = "done"] /\ UNCHANGED got
    <3>1. Finished' = Finished \cup {s}
      BY <2>3 DEF Finished, Types
    <3>2. Feed!FeedFinish(s)
      BY <2>1, <2>3, <3>1 DEF Feed!FeedFinish
    <3> QED BY <3>2 DEF Feed!FeedNext
  <2> QED BY <1>10, <2>2, <2>3 DEF Receive
<1>11. ASSUME NEW s \in Subscribers, StopReading(s)
       PROVE  UNCHANGED Feed!feedVars
  <2>1. Finished' = Finished
    BY <1>11 DEF StopReading, Finished, Types
  <2> QED BY <1>11, <2>1 DEF StopReading, Feed!feedVars
<1>12. CASE UNCHANGED vars BY <1>12, <1>a DEF vars
<1> QED
  BY <1>1, <1>2, <1>3, <1>4, <1>5, <1>6, <1>7, <1>8, <1>9, <1>10, <1>11, <1>12
  DEF Next, Monitor

(* EventFanout implements EventFeed: whatever the buffers and the          *)
(* interleavings, a subscriber sees published events in order, each at     *)
(* most once, and nothing after the close.                                 *)
THEOREM FanoutImplementsFeed == Spec => ImplementsFeed
<1>1. Init => Feed!FeedInit
  BY DEF Init, Feed!FeedInit, Finished
<1> QED BY <1>1, ImplementsStep, OrderInvariant, ListInvariant, TypesInvariant, PTL
        DEF Spec, ImplementsFeed, Feed!FeedSpec
=============================================================================

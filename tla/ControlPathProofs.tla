------------------------- MODULE ControlPathProofs -------------------------
(***************************************************************************)
(* Every call of the monitor has exactly one command on its way or one     *)
(* result, for any finite set of requests and any capacity of cmdChan.     *)
(* The argument counts: what a send adds to the number of commands of a    *)
(* sender, what taking the first command takes away, and that the result   *)
(* appears when the command that was executed goes.                        *)
(***************************************************************************)
EXTENDS ControlPath, TLAPS, FiniteSetTheorems, FunctionTheorems, SequenceTheorems

Places(s, x) == {i \in DOMAIN s : s[i] = x}
Count(s, x) == Cardinality(Places(s, x))

-----------------------------------------------------------------------------
(* How often a value occurs in a sequence, and in a longer or shorter one. *)
LEMMA PlacesFinite ==
    ASSUME NEW S, NEW s \in Seq(S), NEW x
    PROVE  IsFiniteSet(Places(s, x)) /\ Count(s, x) \in Nat
<1>1. Len(s) \in Int /\ Places(s, x) \in SUBSET (1 .. Len(s))
    BY DEF Places
<1>2. IsFiniteSet(1 .. Len(s))
    BY <1>1, FS_Interval
<1>3. IsFiniteSet(Places(s, x))
    BY <1>1, <1>2, FS_Subset
<1> QED BY <1>3, FS_CardinalityType DEF Count

LEMMA CountEmpty == ASSUME NEW x PROVE Count(<<>>, x) = 0
<1>1. Places(<<>>, x) = {}
    BY DEF Places
<1> QED BY <1>1, FS_EmptySet DEF Count

LEMMA CountAppend ==
    ASSUME NEW S, NEW s \in Seq(S), NEW y \in S, NEW x
    PROVE  Count(Append(s, y), x) = Count(s, x) + (IF x = y THEN 1 ELSE 0)
<1> DEFINE n == Len(s) + 1
           t == Append(s, y)
<1>1. /\ DOMAIN s = 1 .. Len(s) /\ DOMAIN t = 1 .. n /\ Len(s) \in Nat
      /\ \A i \in 1 .. Len(s) : t[i] = s[i]
      /\ t[n] = y
    BY AppendProperties
<1> HIDE DEF t
<1>2. n \notin Places(s, x)
    BY <1>1 DEF Places
<1>3. CASE x = y
  <2>1. Places(t, x) = Places(s, x) \cup {n}
      BY <1>1, <1>3 DEF Places
  <2>2. Cardinality(Places(s, x) \cup {n}) = Cardinality(Places(s, x)) + 1
      BY <1>2, PlacesFinite, FS_AddElement
  <2> QED BY <1>3, <2>1, <2>2 DEF Count, t
<1>4. CASE x # y
  <2>1. Places(t, x) = Places(s, x)
      BY <1>1, <1>4 DEF Places
  <2>2. Count(s, x) \in Nat
      BY PlacesFinite
  <2> QED BY <1>4, <2>1, <2>2 DEF Count, t
<1> QED BY <1>3, <1>4

LEMMA CountOne ==
    ASSUME NEW y, NEW x
    PROVE  Count(<<y>>, x) = IF x = y THEN 1 ELSE 0
<1>1. Places(<<y>>, x) = IF x = y THEN {1} ELSE {}
    BY DEF Places
<1> QED BY <1>1, FS_Singleton, FS_EmptySet DEF Count

(* The places of the tail are those of the rest, one further on.           *)
LEMMA CountTail ==
    ASSUME NEW S, NEW s \in Seq(S), s # <<>>, NEW x
    PROVE  Count(s, x) = Count(Tail(s), x) + (IF x = Head(s) THEN 1 ELSE 0)
<1> DEFINE t == Tail(s)
           rest == Places(s, x) \ {1}
           next == [i \in Places(t, x) |-> i + 1]
<1>1. /\ t \in Seq(S) /\ Len(s) \in Nat /\ Len(t) = Len(s) - 1
      /\ DOMAIN s = 1 .. Len(s) /\ DOMAIN t = 1 .. (Len(s) - 1)
      /\ \A i \in DOMAIN t : t[i] = s[i + 1]
      /\ 1 \in DOMAIN s /\ s[1] = Head(s)
    BY HeadTailProperties
<1> HIDE DEF t
<1>2. /\ \A i \in Places(t, x) : i \in Nat /\ i + 1 \in rest
      /\ \A j \in rest : j - 1 \in Places(t, x) /\ (j - 1) + 1 = j
    BY <1>1 DEF Places
<1>3. next \in Bijection(Places(t, x), rest)
  <2>1. next \in [Places(t, x) -> rest]
      BY <1>2
  <2>2. \A a, b \in Places(t, x) : next[a] = next[b] => a = b
      BY <1>2
  <2>3. \A j \in rest : \E i \in Places(t, x) : next[i] = j
      BY <1>2
  <2> QED BY <2>1, <2>2, <2>3, Fun_IsBij
<1>4. IsFiniteSet(Places(t, x)) /\ IsFiniteSet(Places(s, x))
    BY <1>1, PlacesFinite
<1>5. Cardinality(rest) = Count(t, x)
    BY <1>3, <1>4, FS_Bijection DEF ExistsBijection, Count
<1>6. Count(s, x) \in Nat /\ Count(t, x) \in Nat
    BY <1>1, PlacesFinite
<1>7. Cardinality(rest) = IF 1 \in Places(s, x) THEN Count(s, x) - 1 ELSE Count(s, x)
    BY <1>4, FS_RemoveElement DEF Count
<1>8. 1 \in Places(s, x) <=> x = Head(s)
    BY <1>1 DEF Places
<1> QED BY <1>5, <1>6, <1>7, <1>8 DEF t

-----------------------------------------------------------------------------
LEMMA InitTypeOK == Init => TypeOK
<1> SUFFICES ASSUME Init PROVE TypeOK
    OBVIOUS
<1> USE ControlPathAssumption
<1>1. ctxDone \in BOOLEAN /\ exited \in BOOLEAN
    BY Zenon DEF Init
<1> QED BY <1>1, SMT DEF Init, TypeOK

(* What a step of each kind leaves of the types.                           *)
LEMMA TypeStep == TypeOK /\ [Next]_vars => TypeOK'
<1> SUFFICES ASSUME TypeOK, [Next]_vars PROVE TypeOK'
    OBVIOUS
<1> USE DEF TypeOK, Sender, services, commands, calls
<1>1. ASSUME NEW x \in Sender, HasRoom, queue' = Append(queue, x)
      PROVE  queue' \in Seq(Sender) /\ Len(queue') <= QueueCapacity
    BY <1>1, AppendProperties, ControlPathAssumption DEF HasRoom
<1>2. ASSUME NEW r \in Requests, Request(r) PROVE TypeOK'
  <2>1. queue' \in Seq(Sender) /\ Len(queue') <= QueueCapacity
      BY <1>1, <1>2 DEF Request
  <2> QED BY <1>2, <2>1 DEF Request
<1>3. ASSUME NEW r \in Requests, Return(r) PROVE TypeOK'
    BY <1>3 DEF Return
<1>4. CASE SelectDevice
  <2>1. CASE HasRoom /\ queue' = Append(queue, Ui) /\ UNCHANGED sendq
    <3>1. queue' \in Seq(Sender) /\ Len(queue') <= QueueCapacity
        BY <1>1, <2>1
    <3> QED BY <1>4, <2>1, <3>1 DEF SelectDevice
  <2>2. CASE ~HasRoom /\ sendq' = <<Ui>> /\ UNCHANGED queue
      BY <1>4, <2>2 DEF SelectDevice
  <2> QED BY <1>4, <2>1, <2>2 DEF SelectDevice
<1>5. CASE PostEvent
  <2>1. queue' \in Seq(Sender) /\ Len(queue') <= QueueCapacity
      BY <1>1, <1>5 DEF PostEvent
  <2> QED BY <1>5, <2>1 DEF PostEvent
<1>6. CASE Take
  <2>1. /\ Head(queue) \in Sender /\ Tail(queue) \in Seq(Sender)
        /\ Len(Tail(queue)) = Len(queue) - 1 /\ Len(queue) \in Nat
      BY <1>6, HeadTailProperties DEF Take
  <2>2. sendq \in Seq(Sender) /\ Len(sendq) \in {0, 1}
    <3>1. CASE sendq = <<>>
        BY <3>1
    <3>2. CASE sendq = <<Ui>>
      <4>1. Ui \in Sender
          OBVIOUS
      <4> QED BY <3>2, <4>1
    <3> QED BY <3>1, <3>2
  <2>3. queue' \in Seq(Sender) /\ Len(queue') = Len(Tail(queue)) + Len(sendq)
      BY <1>6, <2>1, <2>2, ConcatProperties DEF Take, Unblock
  <2>4. Len(queue') <= QueueCapacity
    <3>1. ASSUME NEW m \in Nat, NEW n, NEW k, NEW l \in {0, 1}, NEW c \in Nat,
                 m <= c, n = m - 1, k = n + l
          PROVE  k <= c
        BY <3>1
    <3>2. Len(queue) <= QueueCapacity /\ QueueCapacity \in Nat
        BY ControlPathAssumption
    <3> QED BY <2>1, <2>2, <2>3, <3>1, <3>2, Zenon
  <2>5. busy' \in Seq(Sender) /\ Len(busy') <= 1
      BY <1>6, <2>1 DEF Take
  <2> QED BY <1>6, <2>3, <2>4, <2>5 DEF Take, Unblock
<1>7. CASE Execute
  <2>1. busy' = <<>> /\ answered' \in SUBSET Requests
      BY <1>7 DEF Execute, Answered
  <2> QED BY <1>7, <2>1 DEF Execute
<1>8. CASE StartMonitor \/ EndMonitor \/ Signal \/ DrainServer \/ EndServer
           \/ CreateWindow \/ EndWindow \/ ExitFatal \/ Exit
  <2>1. ctxDone' \in BOOLEAN /\ exited' \in BOOLEAN
      BY <1>8, Zenon DEF StartMonitor, EndMonitor, Signal, DrainServer, EndServer,
                         CreateWindow, EndWindow, ExitFatal, Exit, Fail
  <2> QED BY <1>8, <2>1 DEF StartMonitor, EndMonitor, Signal, DrainServer,
                            EndServer, CreateWindow, EndWindow, ExitFatal, Exit
<1>9. CASE UNCHANGED vars
    BY <1>9 DEF vars
<1> QED BY <1>2, <1>3, <1>4, <1>5, <1>6, <1>7, <1>8, <1>9, Zenon DEF Next, Monitor

(* The state is well typed: cmdChan holds no more than its capacity, one   *)
(* command is executed at a time, and one SelectDevice is blocked at most. *)
THEOREM TypeCorrect == Spec => []TypeOK
<1> QED BY InitTypeOK, TypeStep, PTL DEF Spec

-----------------------------------------------------------------------------
(* The number of commands of a request, and its result as a number.        *)
Result(r) == IF r \in answered THEN 1 ELSE 0
Waits(r) == IF call[r] = "waiting" THEN 1 ELSE 0

LEMMA Balance ==
    ASSUME TypeOK, OneCommandPerCall, NEW r \in Requests
    PROVE  /\ Count(queue, r) \in Nat /\ Count(busy, r) \in Nat
           /\ Count(queue, r) + Count(busy, r) + Result(r) = Waits(r)
<1>1. Count(queue, r) \in Nat /\ Count(busy, r) \in Nat
    BY PlacesFinite DEF TypeOK
<1>2. Commands(r) = Count(queue, r) + Count(busy, r)
    BY DEF Commands, Count, Places
<1> QED BY <1>1, <1>2 DEF OneCommandPerCall, Result, Waits

LEMMA Balanced ==
    ASSUME \A r \in Requests :
               Count(queue', r) + Count(busy', r) + Result(r)' = Waits(r)'
    PROVE  OneCommandPerCall'
<1>1. \A r \in Requests : Commands(r)' = Count(queue', r) + Count(busy', r)
    BY DEF Commands, Count, Places
<1> QED BY <1>1 DEF OneCommandPerCall, Result, Waits

(* A step that changes no command, no result and no call.                  *)
LEMMA ElsewhereStep == OneCommandPerCall /\ UNCHANGED <<commands, calls>> => OneCommandPerCall'
BY DEF OneCommandPerCall, Commands, commands, calls

(* A sender that is no request joins the queue.                            *)
LEMMA OtherSend ==
    ASSUME TypeOK, OneCommandPerCall, NEW x \in {Ui, Callback},
           queue' = Append(queue, x), UNCHANGED <<busy, calls>>
    PROVE  OneCommandPerCall'
<1>1. x \in Sender /\ queue \in Seq(Sender)
    BY DEF Sender, TypeOK
<1>2. ASSUME NEW r \in Requests
      PROVE  Count(queue', r) + Count(busy', r) + Result(r)' = Waits(r)'
  <2>1. r # x
      BY ControlPathAssumption
  <2>2. Count(queue', r) = Count(queue, r) + 0
      BY <1>1, <2>1, CountAppend
  <2>3. Count(queue', r) = Count(queue, r)
      BY <2>2, Balance
  <2> QED BY <2>3, Balance DEF Result, Waits, calls
<1> QED BY <1>2, Balanced

(* A call begins with its command at the end of the queue.                 *)
LEMMA RequestStep ==
    ASSUME TypeOK, OneCommandPerCall, NEW r \in Requests, Request(r)
    PROVE  OneCommandPerCall'
<1>1. /\ call[r] = "idle" /\ call' = [call EXCEPT ![r] = "waiting"]
      /\ queue' = Append(queue, r) /\ UNCHANGED <<busy, answered>>
      /\ call \in [Requests -> {"idle", "waiting"}]
      /\ r \in Sender /\ queue \in Seq(Sender)
    BY DEF Request, TypeOK, Sender
<1>2. ASSUME NEW q \in Requests
      PROVE  Count(queue', q) + Count(busy', q) + Result(q)' = Waits(q)'
  <2>1. Count(queue', q) = Count(queue, q) + (IF q = r THEN 1 ELSE 0)
      BY <1>1, CountAppend
  <2>2. Waits(q)' = IF q = r THEN 1 ELSE Waits(q)
      BY <1>1 DEF Waits
  <2>3. Result(q)' = Result(q) /\ Result(q) \in {0, 1}
      BY <1>1 DEF Result
  <2>4. q = r => Waits(q) = 0
      BY <1>1 DEF Waits
  <2> QED BY <1>1, <2>1, <2>2, <2>3, <2>4, Balance
<1> QED BY <1>2, Balanced

(* It returns with its result.                                             *)
LEMMA ReturnStep ==
    ASSUME TypeOK, OneCommandPerCall, NEW r \in Requests, Return(r)
    PROVE  OneCommandPerCall'
<1>1. /\ call[r] = "waiting" /\ call' = [call EXCEPT ![r] = "idle"]
      /\ r \in answered /\ answered' = answered \ {r}
      /\ UNCHANGED <<queue, busy>>
      /\ call \in [Requests -> {"idle", "waiting"}]
    BY DEF Return, TypeOK, commands
<1>2. ASSUME NEW q \in Requests
      PROVE  Count(queue', q) + Count(busy', q) + Result(q)' = Waits(q)'
  <2>1. Waits(q)' = IF q = r THEN 0 ELSE Waits(q)
      BY <1>1 DEF Waits
  <2>2. Result(q)' = IF q = r THEN 0 ELSE Result(q)
      BY <1>1 DEF Result
  <2>3. q = r => Waits(q) = 1 /\ Result(q) = 1
      BY <1>1 DEF Waits, Result
  <2> QED BY <1>1, <2>1, <2>2, <2>3, Balance
<1> QED BY <1>2, Balanced

(* Its command is taken; the blocked SelectDevice that takes the freed     *)
(* place belongs to no request.                                            *)
LEMMA TakeStep ==
    ASSUME TypeOK, OneCommandPerCall, Take
    PROVE  OneCommandPerCall'
<1>1. /\ busy = <<>> /\ queue # <<>> /\ queue \in Seq(Sender)
      /\ busy' = <<Head(queue)>> /\ UNCHANGED <<call, answered>>
      /\ queue' = Tail(queue) \o sendq /\ sendq \in {<<>>, <<Ui>>}
    BY DEF Take, Unblock, TypeOK, calls
<1>2. Tail(queue) \in Seq(Sender) /\ Ui \in Sender
    BY <1>1, HeadTailProperties DEF Sender
<1>3. ASSUME NEW q \in Requests PROVE Count(queue', q) = Count(Tail(queue), q)
  <2>1. CASE sendq = <<>>
      BY <1>1, <1>2, <2>1, ConcatEmptySeq
  <2>2. CASE sendq = <<Ui>>
    <3>1. queue' = Append(Tail(queue), Ui)
        BY <1>1, <1>2, <2>2, AppendIsConcat
    <3>2. q # Ui
        BY ControlPathAssumption
    <3>3. Count(Append(Tail(queue), Ui), q)
              = Count(Tail(queue), q) + (IF q = Ui THEN 1 ELSE 0)
      <4> DEFINE rest == Tail(queue)
      <4>1. rest \in Seq(Sender) /\ Ui \in Sender
          BY <1>2
      <4> HIDE DEF rest
      <4>2. Count(Append(rest, Ui), q) = Count(rest, q) + (IF q = Ui THEN 1 ELSE 0)
          BY <4>1, CountAppend
      <4> QED BY <4>2 DEF rest
    <3>4. Count(Tail(queue), q) \in Nat
        BY <1>2, PlacesFinite
    <3> QED BY <3>1, <3>2, <3>3, <3>4
  <2> QED BY <1>1, <2>1, <2>2
<1>4. ASSUME NEW q \in Requests
      PROVE  Count(queue', q) + Count(busy', q) + Result(q)' = Waits(q)'
  <2>1. Count(queue, q) = Count(Tail(queue), q) + (IF q = Head(queue) THEN 1 ELSE 0)
      BY <1>1, CountTail
  <2>2. Count(busy, q) = 0 /\ Count(busy', q) = IF q = Head(queue) THEN 1 ELSE 0
      BY <1>1, CountEmpty, CountOne
  <2>3. Count(Tail(queue), q) \in Nat
      BY <1>2, PlacesFinite
  <2>4. Result(q)' = Result(q) /\ Waits(q)' = Waits(q) /\ Result(q) \in {0, 1}
      BY <1>1 DEF Result, Waits
  <2> QED BY <1>3, <2>1, <2>2, <2>3, <2>4, Balance
<1> QED BY <1>4, Balanced

(* The result appears when the command is done with, and there was none.   *)
LEMMA ExecuteStep ==
    ASSUME TypeOK, OneCommandPerCall, Execute
    PROVE  OneCommandPerCall'
<1> DEFINE x == busy[1]
<1>1. /\ busy \in Seq(Sender) /\ Len(busy) \in Nat /\ Len(busy) <= 1 /\ busy # <<>>
      /\ busy' = <<>> /\ UNCHANGED <<queue, call>>
      /\ answered' = answered \cup (Range(busy) \cap Requests)
    BY DEF Execute, TypeOK, Answered
<1>2. Len(busy) = 1 /\ busy = <<x>>
    BY <1>1
<1>3. Range(busy) = {x}
    BY <1>2 DEF Range
<1> HIDE DEF x
<1>4. ASSUME NEW q \in Requests
      PROVE  Count(queue', q) + Count(busy', q) + Result(q)' = Waits(q)'
  <2>1. Count(busy, q) = (IF q = x THEN 1 ELSE 0) /\ Count(busy', q) = 0
      BY <1>1, <1>2, CountEmpty, CountOne
  <2>2. Result(q)' = IF q = x THEN 1 ELSE Result(q)
      BY <1>1, <1>3 DEF Result
  <2>3. Waits(q)' = Waits(q) /\ Waits(q) \in {0, 1} /\ Result(q) \in {0, 1}
      BY <1>1 DEF Waits, Result
  <2> QED BY <1>1, <2>1, <2>2, <2>3, Balance
<1> QED BY <1>4, Balanced

LEMMA CallStep == TypeOK /\ OneCommandPerCall /\ [Next]_vars => OneCommandPerCall'
<1> SUFFICES ASSUME TypeOK, OneCommandPerCall, [Next]_vars PROVE OneCommandPerCall'
    OBVIOUS
<1>1. CASE SelectDevice
  <2>1. CASE queue' = Append(queue, Ui)
    <3>1. UNCHANGED <<busy, calls>>
        BY <1>1 DEF SelectDevice
    <3> QED BY <2>1, <3>1, OtherSend
  <2>2. CASE UNCHANGED queue
      BY <1>1, <2>2 DEF SelectDevice, OneCommandPerCall, Commands, calls
  <2> QED BY <1>1, <2>1, <2>2 DEF SelectDevice
<1>2. CASE PostEvent
  <2>1. queue' = Append(queue, Callback) /\ UNCHANGED <<busy, calls>>
      BY <1>2 DEF PostEvent
  <2> QED BY <2>1, OtherSend
<1>3. CASE StartMonitor \/ EndMonitor \/ Signal \/ DrainServer \/ EndServer
           \/ CreateWindow \/ EndWindow \/ ExitFatal \/ Exit \/ UNCHANGED vars
  <2>1. UNCHANGED <<commands, calls>>
      BY <1>3, Zenon DEF StartMonitor, EndMonitor, Signal, DrainServer, EndServer,
                         CreateWindow, EndWindow, ExitFatal, Exit, vars
  <2> QED BY <2>1, ElsewhereStep
<1> QED BY <1>1, <1>2, <1>3, RequestStep, ReturnStep, TakeStep, ExecuteStep, Zenon
        DEF Next, Monitor

(* Each call of the monitor has one command on its way or one result and   *)
(* never both (sendControl, executeControl): no caller is given the answer *)
(* to an earlier call, and no answer finds its result channel full.        *)
THEOREM OneCommandForEachCall == Spec => []OneCommandPerCall
<1>1. Init => OneCommandPerCall
  <2> SUFFICES ASSUME Init PROVE OneCommandPerCall
      OBVIOUS
  <2>1. queue = <<>> /\ busy = <<>> /\ answered = {}
        /\ call = [r \in Requests |-> "idle"]
      BY DEF Init
  <2>2. ASSUME NEW r \in Requests
        PROVE  Commands(r) + (IF r \in answered THEN 1 ELSE 0)
                   = IF call[r] = "waiting" THEN 1 ELSE 0
    <3>1. Commands(r) = Count(<<>>, r) + Count(<<>>, r)
        BY <2>1 DEF Commands, Count, Places
    <3>2. Commands(r) = 0
        BY <3>1, CountEmpty
    <3> QED BY <2>1, <3>2
  <2> QED BY <2>2 DEF OneCommandPerCall
<1> QED BY <1>1, CallStep, TypeCorrect, PTL DEF Spec
=============================================================================

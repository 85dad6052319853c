-------------------------- MODULE ClientSyncProofs --------------------------
(***************************************************************************)
(* For any finite set of clients, any topics, any number of events and any *)
(* capacity of the hub's channel: when the hub has stopped it has closed   *)
(* every connection it knew; the state is well typed; a client that has    *)
(* its snapshot misses no latest event that was not dropped; and a page    *)
(* goes back to an older event only if the newer one is behind it.         *)
(*                                                                         *)
(* The first part needs of the types only those of the hub and of the      *)
(* connections; the others rest on it and on all types.                    *)
(***************************************************************************)
EXTENDS ClientSync, TLAPS, FiniteSetTheorems, SequenceTheorems

USE ClientSyncAssumption

HubTypeOK == /\ stored \in [TopicSet -> Version]
             /\ queue \in Seq(Command) /\ todo \in Seq(Clients)
             /\ hub \in {"running", "closing", "stopped"}
             /\ connections \in SUBSET Clients
             /\ socket \in [Clients -> {"absent", "open", "closed"}]
             /\ pc \in [Clients -> {"absent", "add", "hello", "snapshot", "write",
                                    "read", "gone"}]

(* Who will see to it that a connection is closed: OnOpen has yet to add   *)
(* it, the hub has yet to learn of it, knows it, or is closing it.         *)
Known(c) == \/ pc[c] = "add"
            \/ AddCmd(c) \in Range(queue)
            \/ hub = "running" /\ c \in connections
            \/ hub = "closing" /\ c \in Range(todo)

(* A connection is removed after it was closed, and is never opened again. *)
Removed(c) == /\ RemoveCmd(c) \in Range(queue) => pc[c] = "gone"
              /\ pc[c] = "gone" => socket[c] # "open"

Followed(c) == (socket[c] = "open" => Known(c)) /\ Removed(c)

IInv == HubTypeOK /\ \A c \in Clients : Followed(c)

-----------------------------------------------------------------------------
LEMMA AppendRange ==
    ASSUME NEW S, NEW s \in Seq(S), NEW x \in S
    PROVE  Range(Append(s, x)) = Range(s) \cup {x}
<1> DEFINE one == <<x>>
<1>1. Append(s, x) = s \o one /\ one \in Seq(S)
    BY AppendIsConcat
<1>2. Range(one) = {x}
    BY DEF Range
<1> HIDE DEF one
<1>3. Range(s \o one) = Range(s) \cup Range(one)
    BY <1>1, RangeConcatenation
<1> QED BY <1>1, <1>2, <1>3

LEMMA TailRange ==
    ASSUME NEW S, NEW s \in Seq(S), s # <<>>
    PROVE  /\ Range(Tail(s)) \subseteq Range(s)
           /\ \A y \in Range(s) : y = Head(s) \/ y \in Range(Tail(s))
<1>1. /\ Tail(s) \in Seq(S) /\ Len(Tail(s)) = Len(s) - 1 /\ Len(s) \in Nat
      /\ \A i \in 1 .. Len(Tail(s)) : Tail(s)[i] = s[i + 1]
      /\ Head(s) = s[1]
    BY HeadTailProperties
<1>2. Range(s) = {s[i] : i \in 1 .. Len(s)}
    BY RangeEquality
<1>3. Range(Tail(s)) = {Tail(s)[i] : i \in 1 .. Len(Tail(s))}
    BY <1>1, RangeEquality
<1>4. ASSUME NEW y \in Range(Tail(s)) PROVE y \in Range(s)
  <2>1. PICK i \in 1 .. Len(Tail(s)) : y = Tail(s)[i]
      BY <1>3
  <2>2. y = s[i + 1] /\ i + 1 \in 1 .. Len(s)
      BY <1>1, <2>1
  <2> QED BY <1>2, <2>2
<1>5. ASSUME NEW y \in Range(s), y # Head(s) PROVE y \in Range(Tail(s))
  <2>1. PICK i \in 1 .. Len(s) : y = s[i]
      BY <1>2
  <2>2. i # 1
      BY <1>1, <1>5, <2>1
  <2>3. i - 1 \in 1 .. Len(Tail(s)) /\ (i - 1) + 1 = i
      BY <1>1, <2>2
  <2>4. y = Tail(s)[i - 1]
      BY <1>1, <2>1, <2>3
  <2> QED BY <1>3, <2>3, <2>4
<1> QED BY <1>4, <1>5

(* An order of the connections is a sequence of them all.                  *)
LEMMA OrderOfAll ==
    ASSUME NEW conns \in SUBSET Clients, NEW order \in Orders(conns)
    PROVE  order \in Seq(conns) /\ order \in Seq(Clients) /\ Range(order) = conns
<1>1. IsFiniteSet(conns)
    BY FS_Subset
<1>2. Cardinality(conns) \in Nat
    BY <1>1, FS_CardinalityType
<1>3. order \in [1 .. Cardinality(conns) -> conns]
    BY DEF Orders
<1>4. order \in [1 .. Cardinality(conns) -> Clients]
    BY <1>3
<1>5. order \in Seq(Clients) /\ order \in Seq(conns)
    BY <1>2, <1>3, <1>4, IsASeq
<1>6. \A c \in conns : \E i \in DOMAIN order : order[i] = c
    BY DEF Orders
<1>7. Range(order) = conns
    BY <1>3, <1>6 DEF Range
<1> QED BY <1>5, <1>7

(* A send, whether it finds room or not.                                   *)
LEMMA PostStep ==
    ASSUME queue \in Seq(Command), NEW x \in Command, Post(x)
    PROVE  /\ queue' \in Seq(Command)
           /\ Range(queue) \subseteq Range(queue')
           /\ Range(queue') \subseteq Range(queue) \cup {x}
           /\ HasRoom => x \in Range(queue')
<1>1. CASE HasRoom
  <2>1. queue' = Append(queue, x)
      BY <1>1 DEF Post
  <2>2. queue' \in Seq(Command)
      BY <2>1, AppendProperties
  <2>3. Range(queue') = Range(queue) \cup {x}
      BY <2>1, AppendRange
  <2> QED BY <2>2, <2>3
<1>2. CASE ~HasRoom
    BY <1>2 DEF Post
<1> QED BY <1>1, <1>2

LEMMA CommandTypes ==
    /\ ShutdownCmd \in Command
    /\ \A c \in Clients : AddCmd(c) \in Command /\ RemoveCmd(c) \in Command
    /\ \A c \in Clients, d \in Clients : /\ AddCmd(c) # RemoveCmd(d)
                                         /\ RemoveCmd(c) = RemoveCmd(d) => c = d
                                         /\ AddCmd(c) = AddCmd(d) => c = d
    /\ \A c \in Clients : ShutdownCmd # RemoveCmd(c)
<1>1. ShutdownCmd.kind = "shutdown"
    BY DEF ShutdownCmd
<1>2. \A c : AddCmd(c).kind = "add" /\ AddCmd(c).conn = c
    BY DEF AddCmd
<1>3. \A c : RemoveCmd(c).kind = "remove" /\ RemoveCmd(c).conn = c
    BY DEF RemoveCmd
<1>4. ShutdownCmd \in Command
    BY DEF Command
<1>5. \A c \in Clients : AddCmd(c) \in Command /\ RemoveCmd(c) \in Command
    BY DEF Command
<1> QED BY <1>1, <1>2, <1>3, <1>4, <1>5

LEMMA BroadcastType ==
    ASSUME stored \in [TopicSet -> Version], NEW t \in TopicSet
    PROVE  /\ BroadcastCmd([topic |-> t, version |-> stored[t]]) \in Command
           /\ \A c : BroadcastCmd([topic |-> t, version |-> stored[t]]) # RemoveCmd(c)
<1> DEFINE m == [topic |-> t, version |-> stored[t]]
<1>1. m \in Message
    BY DEF Message
<1> HIDE DEF m
<1>2. BroadcastCmd(m) \in Command
    BY <1>1 DEF Command
<1>3. BroadcastCmd(m).kind = "broadcast"
    BY DEF BroadcastCmd
<1>4. \A c : RemoveCmd(c).kind = "remove"
    BY DEF RemoveCmd
<1> QED BY <1>2, <1>3, <1>4 DEF m

-----------------------------------------------------------------------------
(* The steps that leave the hub and the connections alone, but for a       *)
(* command that is posted and removes nobody.                              *)
LEMMA QuietStep ==
    ASSUME IInv, stored' \in [TopicSet -> Version], queue' \in Seq(Command),
           Range(queue) \subseteq Range(queue'),
           \A c \in Clients : RemoveCmd(c) \in Range(queue') => RemoveCmd(c) \in Range(queue),
           UNCHANGED <<hub, connections, todo, socket, pc>>
    PROVE  IInv'
<1>1. HubTypeOK'
    BY DEF IInv, HubTypeOK
<1>2. ASSUME NEW c \in Clients PROVE Followed(c)'
    BY DEF IInv, Followed, Known, Removed, AddCmd, RemoveCmd
<1> QED BY <1>1, <1>2 DEF IInv

(* OnOpen goes on, or a connection is closed.                              *)
LEMMA ConnStep ==
    ASSUME IInv, NEW c \in Clients, UNCHANGED <<stored, queue, hub, connections, todo>>,
           \/ /\ pc[c] \in {"hello", "snapshot", "write"}
              /\ pc' = [pc EXCEPT ![c] = pc'[c]]
              /\ pc'[c] \in {"snapshot", "write", "read"}
              /\ UNCHANGED socket
           \/ socket' = [socket EXCEPT ![c] = "closed"] /\ UNCHANGED pc
           \/ /\ pc[c] = "absent"
              /\ pc' = [pc EXCEPT ![c] = "add"]
              /\ socket' = [socket EXCEPT ![c] = "open"]
    PROVE  IInv'
<1> USE DEF HubTypeOK
<1>1. HubTypeOK'
    BY DEF IInv
<1>2. ASSUME NEW d \in Clients PROVE Followed(d)'
  <2>1. HubTypeOK /\ Followed(d)
      BY DEF IInv
  <2>2. (RemoveCmd(d) \in Range(queue))' <=> RemoveCmd(d) \in Range(queue)
      BY DEF RemoveCmd
  <2>3. (AddCmd(d) \in Range(queue))' <=> AddCmd(d) \in Range(queue)
      BY DEF AddCmd
  <2> QED BY <2>1, <2>2, <2>3 DEF Followed, Known, Removed
<1> QED BY <1>1, <1>2 DEF IInv

(* The hub goroutine goes on: what it knows of an open connection is kept. *)
LEMMA HubStep ==
    ASSUME IInv, HubTypeOK', UNCHANGED pc,
           Range(queue') \subseteq Range(queue),
           \A c \in Clients : socket'[c] = "open" =>
               socket[c] = "open" /\ (Known(c) => Known(c)')
    PROVE  IInv'
<1>1. ASSUME NEW c \in Clients PROVE Followed(c)'
  <2>1. Followed(c)
      BY DEF IInv
  <2>2. RemoveCmd(c)' = RemoveCmd(c)
      BY DEF RemoveCmd
  <2> QED BY <2>1, <2>2 DEF Followed, Removed
<1> QED BY <1>1 DEF IInv

-----------------------------------------------------------------------------
LEMMA InitIInv == Init => IInv
<1> SUFFICES ASSUME Init PROVE IInv
    OBVIOUS
<1> USE DEF Init
<1>1. stored \in [TopicSet -> Version]
    BY DEF Nothing, Version
<1>2. queue \in Seq(Command) /\ todo \in Seq(Clients) /\ Range(queue) = {}
    BY EmptySeq, RangeEquality DEF Range
<1>3. HubTypeOK
    BY <1>1, <1>2 DEF HubTypeOK
<1>4. ASSUME NEW c \in Clients PROVE Followed(c)
    BY <1>2 DEF Followed, Removed
<1> QED BY <1>3, <1>4 DEF IInv

LEMMA EndRunStep == IInv /\ EndRun => IInv'
<1> SUFFICES ASSUME IInv, EndRun PROVE IInv'
    OBVIOUS
<1>1. Post(ShutdownCmd) /\ UNCHANGED <<stored, hub, connections, todo, socket, pc>>
    BY DEF EndRun, feed, hubVars, net, opening
<1>2. /\ queue' \in Seq(Command) /\ Range(queue) \subseteq Range(queue')
      /\ Range(queue') \subseteq Range(queue) \cup {ShutdownCmd}
    BY <1>1, PostStep, CommandTypes DEF IInv, HubTypeOK
<1>3. \A c \in Clients : RemoveCmd(c) \in Range(queue') => RemoveCmd(c) \in Range(queue)
    BY <1>2, CommandTypes
<1>4. stored' \in [TopicSet -> Version]
    BY <1>1 DEF IInv, HubTypeOK
<1> QED BY <1>1, <1>2, <1>3, <1>4, QuietStep

LEMMA BroadcastStep == ASSUME NEW t \in TopicSet PROVE IInv /\ Broadcast(t) => IInv'
<1> SUFFICES ASSUME IInv, Broadcast(t) PROVE IInv'
    OBVIOUS
<1> DEFINE cmd == BroadcastCmd([topic |-> t, version |-> stored[t]])
<1>1. Post(cmd) /\ UNCHANGED <<stored, hub, connections, todo, socket, pc>>
    BY DEF Broadcast, hubVars, net, opening
<1>2. stored \in [TopicSet -> Version] /\ queue \in Seq(Command)
    BY DEF IInv, HubTypeOK
<1>3. cmd \in Command /\ \A c : cmd # RemoveCmd(c)
    BY <1>2, BroadcastType
<1> HIDE DEF cmd
<1>4. /\ queue' \in Seq(Command) /\ Range(queue) \subseteq Range(queue')
      /\ Range(queue') \subseteq Range(queue) \cup {cmd}
    BY <1>1, <1>2, <1>3, PostStep
<1>5. \A c \in Clients : RemoveCmd(c) \in Range(queue') => RemoveCmd(c) \in Range(queue)
    BY <1>3, <1>4
<1>6. stored' \in [TopicSet -> Version]
    BY <1>1, <1>2
<1> QED BY <1>1, <1>4, <1>5, <1>6, QuietStep

(* A step of the feed, the context or a peer's reading that posts nothing. *)
LEMMA StillStep ==
    ASSUME IInv, stored' \in [TopicSet -> Version],
           UNCHANGED <<queue, hub, connections, todo, socket, pc>>
    PROVE  IInv'
<1>1. queue' \in Seq(Command)
    BY DEF IInv, HubTypeOK
<1>2. Range(queue') = Range(queue)
    OBVIOUS
<1> QED BY <1>1, <1>2, QuietStep

LEMMA StoreStep == ASSUME NEW t \in TopicSet PROVE IInv /\ Store(t) => IInv'
<1> SUFFICES ASSUME IInv, Store(t) PROVE IInv'
    OBVIOUS
<1>1. stored \in [TopicSet -> Version]
    BY DEF IInv, HubTypeOK
<1>2. stored[t] + 1 \in Version
    BY <1>1 DEF Store, Version
<1>3. stored' \in [TopicSet -> Version]
    BY <1>1, <1>2 DEF Store
<1> QED BY <1>3, StillStep DEF Store, hubVars, net, opening

LEMMA OtherStillSteps ==
    ASSUME IInv, \/ Cancel \/ EndFeed \/ UNCHANGED vars
                 \/ \E c \in Clients : Stall(c) \/ Unstall(c)
    PROVE  IInv'
<1>1. UNCHANGED <<stored, queue, hub, connections, todo, socket, pc>>
    BY DEF Cancel, EndFeed, Stall, Unstall, vars, feed, hubVars, net, opening
<1>2. stored' \in [TopicSet -> Version]
    BY <1>1 DEF IInv, HubTypeOK
<1> QED BY <1>1, <1>2, StillStep

-----------------------------------------------------------------------------
LEMMA OpeningSteps ==
    ASSUME NEW c \in Clients, IInv,
           \/ OnOpenHello(c) \/ OnOpenSnapshot(c) \/ OnOpenWrite(c)
           \/ Open(c) \/ Disconnect(c)
    PROVE  IInv'
<1> USE DEF feed, hubVars, net, opening
<1>0. pc \in [Clients -> {"absent", "add", "hello", "snapshot", "write", "read",
                          "gone"}]
    BY DEF IInv, HubTypeOK
<1>1. CASE OnOpenHello(c)
  <2>1. pc'[c] = "snapshot"
      BY <1>0, <1>1 DEF OnOpenHello
  <2> QED BY <1>1, <2>1, ConnStep DEF OnOpenHello
<1>2. CASE OnOpenSnapshot(c)
  <2>1. pc'[c] = "write"
      BY <1>0, <1>2 DEF OnOpenSnapshot
  <2> QED BY <1>2, <2>1, ConnStep DEF OnOpenSnapshot
<1>3. CASE OnOpenWrite(c)
  <2>1. CASE UNCHANGED pc
    <3>1. pc' = [pc EXCEPT ![c] = pc'[c]] /\ pc'[c] = "write"
        BY <1>0, <1>3, <2>1 DEF OnOpenWrite
    <3> QED BY <1>3, <3>1, ConnStep DEF OnOpenWrite
  <2>2. CASE pc' = [pc EXCEPT ![c] = "read"]
    <3>1. pc'[c] = "read"
        BY <1>0, <2>2
    <3> QED BY <1>3, <2>2, <3>1, ConnStep DEF OnOpenWrite
  <2> QED BY <1>3, <2>1, <2>2 DEF OnOpenWrite
<1>4. CASE Open(c)
    BY <1>4, ConnStep DEF Open
<1>5. CASE Disconnect(c)
    BY <1>5, ConnStep DEF Disconnect
<1> QED BY <1>1, <1>2, <1>3, <1>4, <1>5

LEMMA OnOpenAddStep == ASSUME NEW c \in Clients PROVE IInv /\ OnOpenAdd(c) => IInv'
<1> SUFFICES ASSUME IInv, OnOpenAdd(c) PROVE IInv'
    OBVIOUS
<1>1. /\ Post(AddCmd(c)) /\ HasRoom /\ pc[c] = "add"
      /\ pc' = [pc EXCEPT ![c] = "hello"]
      /\ UNCHANGED <<stored, hub, connections, todo, socket>>
    BY DEF OnOpenAdd, feed, hubVars, net
<1>2. HubTypeOK /\ AddCmd(c) \in Command
    BY CommandTypes DEF IInv
<1>3. /\ queue' \in Seq(Command) /\ Range(queue) \subseteq Range(queue')
      /\ Range(queue') \subseteq Range(queue) \cup {AddCmd(c)}
      /\ AddCmd(c) \in Range(queue')
    BY <1>1, <1>2, PostStep DEF HubTypeOK
<1>4. HubTypeOK'
    BY <1>1, <1>2, <1>3 DEF HubTypeOK
<1>5. ASSUME NEW d \in Clients PROVE Followed(d)'
  <2>1. Followed(d)
      BY DEF IInv
  <2>2. AddCmd(d)' = AddCmd(d) /\ RemoveCmd(d)' = RemoveCmd(d)
      BY DEF AddCmd, RemoveCmd
  <2>3. RemoveCmd(d) \in Range(queue') => RemoveCmd(d) \in Range(queue)
      BY <1>3, CommandTypes
  <2>4. pc'[d] = (IF d = c THEN "hello" ELSE pc[d])
      BY <1>1, <1>2 DEF HubTypeOK
  <2>5. Removed(d)'
      BY <1>1, <2>1, <2>2, <2>3, <2>4 DEF Followed, Removed
  <2>6. socket'[d] = "open" => Known(d)'
      BY <1>1, <1>3, <2>1, <2>2, <2>4 DEF Followed, Known
  <2> QED BY <2>5, <2>6 DEF Followed
<1> QED BY <1>4, <1>5 DEF IInv

LEMMA OnCloseStep == ASSUME NEW c \in Clients PROVE IInv /\ OnClose(c) => IInv'
<1> SUFFICES ASSUME IInv, OnClose(c) PROVE IInv'
    OBVIOUS
<1>1. /\ Post(RemoveCmd(c)) /\ pc[c] = "read" /\ socket[c] = "closed"
      /\ pc' = [pc EXCEPT ![c] = "gone"]
      /\ UNCHANGED <<stored, hub, connections, todo, socket>>
    BY DEF OnClose, feed, hubVars, net
<1>2. HubTypeOK /\ RemoveCmd(c) \in Command
    BY CommandTypes DEF IInv
<1>3. /\ queue' \in Seq(Command) /\ Range(queue) \subseteq Range(queue')
      /\ Range(queue') \subseteq Range(queue) \cup {RemoveCmd(c)}
    BY <1>1, <1>2, PostStep DEF HubTypeOK
<1>4. HubTypeOK'
    BY <1>1, <1>2, <1>3 DEF HubTypeOK
<1>5. ASSUME NEW d \in Clients PROVE Followed(d)'
  <2>1. Followed(d)
      BY DEF IInv
  <2>2. AddCmd(d)' = AddCmd(d) /\ RemoveCmd(d)' = RemoveCmd(d)
      BY DEF AddCmd, RemoveCmd
  <2>3. RemoveCmd(d) \in Range(queue') => RemoveCmd(d) \in Range(queue) \/ d = c
      BY <1>3, CommandTypes
  <2>4. pc'[d] = (IF d = c THEN "gone" ELSE pc[d])
      BY <1>1, <1>2 DEF HubTypeOK
  <2>5. Removed(d)'
      BY <1>1, <2>1, <2>2, <2>3, <2>4 DEF Followed, Removed
  <2>6. socket'[d] = "open" => Known(d)'
      BY <1>1, <1>3, <2>1, <2>2, <2>4 DEF Followed, Known
  <2> QED BY <2>5, <2>6 DEF Followed
<1> QED BY <1>4, <1>5 DEF IInv

-----------------------------------------------------------------------------
LEMMA HubTakeStep == IInv /\ HubTake => IInv'
<1> SUFFICES ASSUME IInv, HubTake PROVE IInv'
    OBVIOUS
<1> DEFINE cmd == Head(queue)
           rest == Tail(queue)
<1>1. /\ hub = "running" /\ queue # <<>> /\ queue' = rest
      /\ UNCHANGED <<stored, socket, pc>>
    BY DEF HubTake, feed, net, opening
<1>2. HubTypeOK
    BY DEF IInv
<1>3. cmd \in Command /\ cmd \in Range(queue) /\ rest \in Seq(Command)
    BY <1>1, <1>2, HeadTailProperties, RangeEquality DEF HubTypeOK
<1>4. /\ Range(rest) \subseteq Range(queue)
      /\ \A y \in Range(queue) : y = cmd \/ y \in Range(rest)
    BY <1>1, <1>2, TailRange DEF HubTypeOK
<1>5. \/ /\ cmd.kind = "add" /\ connections' = connections \cup {cmd.conn}
         /\ UNCHANGED <<hub, todo>>
      \/ /\ cmd.kind = "remove" /\ connections' = connections \ {cmd.conn}
         /\ UNCHANGED <<hub, todo>>
      \/ /\ cmd.kind = "broadcast" /\ todo' \in Orders(connections)
         /\ UNCHANGED <<hub, connections>>
      \/ /\ cmd.kind = "shutdown" /\ hub' = "closing"
         /\ todo' \in Orders(connections) /\ UNCHANGED connections
    BY DEF HubTake
<1> HIDE DEF cmd, rest
<1>6. \A c \in Clients : AddCmd(c)' = AddCmd(c) /\ AddCmd(c).kind = "add"
                         /\ AddCmd(c).conn = c
    BY DEF AddCmd
<1>7. ASSUME NEW c \in Clients, Known(c)
      PROVE  pc[c] = "add" \/ AddCmd(c) \in Range(queue) \/ c \in connections
    BY <1>1, <1>7 DEF Known
<1>8. CASE /\ cmd.kind = "add" /\ connections' = connections \cup {cmd.conn}
           /\ UNCHANGED <<hub, todo>>
  <2>1. cmd.conn \in Clients
    <3>1. PICK c \in Clients : cmd = AddCmd(c)
        BY <1>3, <1>8 DEF Command, AddCmd, RemoveCmd, BroadcastCmd, ShutdownCmd
    <3> QED BY <1>6, <3>1
  <2>2. HubTypeOK'
      BY <1>1, <1>2, <1>3, <1>8, <2>1 DEF HubTypeOK
  <2>3. ASSUME NEW c \in Clients, Known(c) PROVE Known(c)'
      BY <1>1, <1>4, <1>6, <1>7, <1>8, <2>3 DEF Known
  <2> QED BY <1>1, <1>4, <2>2, <2>3, HubStep
<1>9. CASE /\ cmd.kind = "remove" /\ connections' = connections \ {cmd.conn}
           /\ UNCHANGED <<hub, todo>>
  <2>1. PICK d \in Clients : cmd = RemoveCmd(d)
      BY <1>3, <1>9 DEF Command, AddCmd, RemoveCmd, BroadcastCmd, ShutdownCmd
  <2>2. cmd.conn = d
      BY <2>1 DEF RemoveCmd
  <2>3. socket[d] # "open"
      BY <1>3, <2>1 DEF IInv, Followed, Removed
  <2>4. HubTypeOK'
      BY <1>1, <1>2, <1>3, <1>9 DEF HubTypeOK
  <2>5. ASSUME NEW c \in Clients, socket[c] = "open", Known(c) PROVE Known(c)'
      BY <1>1, <1>4, <1>6, <1>7, <1>9, <2>2, <2>3, <2>5 DEF Known
  <2> QED BY <1>1, <1>4, <2>4, <2>5, HubStep
<1>10. CASE /\ cmd.kind = "broadcast" /\ todo' \in Orders(connections)
            /\ UNCHANGED <<hub, connections>>
  <2>1. todo' \in Seq(Clients)
      BY <1>2, <1>10, OrderOfAll DEF HubTypeOK
  <2>2. HubTypeOK'
      BY <1>1, <1>2, <1>3, <1>10, <2>1 DEF HubTypeOK
  <2>3. ASSUME NEW c \in Clients, Known(c) PROVE Known(c)'
      BY <1>1, <1>4, <1>6, <1>7, <1>10, <2>3 DEF Known
  <2> QED BY <1>1, <1>4, <2>2, <2>3, HubStep
<1>11. CASE /\ cmd.kind = "shutdown" /\ hub' = "closing"
            /\ todo' \in Orders(connections) /\ UNCHANGED connections
  <2>1. todo' \in Seq(Clients) /\ Range(todo') = connections
      BY <1>2, <1>11, OrderOfAll DEF HubTypeOK
  <2>2. HubTypeOK'
      BY <1>1, <1>2, <1>3, <1>11, <2>1 DEF HubTypeOK
  <2>3. ASSUME NEW c \in Clients, Known(c) PROVE Known(c)'
      BY <1>1, <1>4, <1>6, <1>7, <1>11, <2>1, <2>3 DEF Known
  <2> QED BY <1>1, <1>4, <2>2, <2>3, HubStep
<1> QED BY <1>5, <1>8, <1>9, <1>10, <1>11

LEMMA HubWriteStep == ASSUME NEW d \in Clients PROVE IInv /\ HubWrite(d) => IInv'
<1> SUFFICES ASSUME IInv, HubWrite(d) PROVE IInv'
    OBVIOUS
<1> DEFINE rest == Tail(todo)
<1>1. /\ hub = "running" /\ todo # <<>> /\ todo' = rest
      /\ UNCHANGED <<stored, queue, hub, connections, socket, pc>>
    BY DEF HubWrite, feed, net, opening
<1>2. HubTypeOK /\ rest \in Seq(Clients)
    BY <1>1, HeadTailProperties DEF IInv, HubTypeOK
<1> HIDE DEF rest
<1>3. HubTypeOK'
    BY <1>1, <1>2 DEF HubTypeOK
<1>4. ASSUME NEW c \in Clients, Known(c) PROVE Known(c)'
    BY <1>1, <1>4 DEF Known, AddCmd
<1>5. Range(queue') \subseteq Range(queue)
    BY <1>1
<1> QED BY <1>1, <1>3, <1>4, <1>5, HubStep

LEMMA HubCancelledStep == IInv /\ HubCancelled => IInv'
<1> SUFFICES ASSUME IInv, HubCancelled PROVE IInv'
    OBVIOUS
<1>1. /\ hub = "running" /\ hub' = "closing" /\ todo' \in Orders(connections)
      /\ UNCHANGED <<stored, queue, connections, socket, pc>>
    BY DEF HubCancelled, feed, net, opening
<1>2. HubTypeOK
    BY DEF IInv
<1>3. todo' \in Seq(Clients) /\ Range(todo') = connections
    BY <1>1, <1>2, OrderOfAll DEF HubTypeOK
<1>4. HubTypeOK'
    BY <1>1, <1>2, <1>3 DEF HubTypeOK
<1>5. ASSUME NEW c \in Clients, Known(c) PROVE Known(c)'
    BY <1>1, <1>3, <1>5 DEF Known, AddCmd
<1>6. Range(queue') \subseteq Range(queue)
    BY <1>1
<1> QED BY <1>1, <1>4, <1>5, <1>6, HubStep

LEMMA HubCloseStep == ASSUME NEW d \in Clients PROVE IInv /\ HubClose(d) => IInv'
<1> SUFFICES ASSUME IInv, HubClose(d) PROVE IInv'
    OBVIOUS
<1> DEFINE rest == Tail(todo)
<1>1. /\ hub = "closing" /\ todo # <<>> /\ Head(todo) = d /\ todo' = rest
      /\ socket' = [socket EXCEPT ![d] = "closed"]
      /\ UNCHANGED <<stored, queue, hub, connections, pc>>
    BY DEF HubClose, feed, opening
<1>2. HubTypeOK /\ rest \in Seq(Clients)
    BY <1>1, HeadTailProperties DEF IInv, HubTypeOK
<1>3. \A y \in Range(todo) : y = d \/ y \in Range(rest)
    BY <1>1, <1>2, TailRange DEF HubTypeOK
<1> HIDE DEF rest
<1>4. HubTypeOK'
    BY <1>1, <1>2 DEF HubTypeOK
<1>5. ASSUME NEW c \in Clients, socket'[c] = "open" PROVE c # d /\ socket[c] = "open"
    BY <1>1, <1>2, <1>5 DEF HubTypeOK
<1>6. ASSUME NEW c \in Clients, c # d, Known(c) PROVE Known(c)'
    BY <1>1, <1>3, <1>6 DEF Known, AddCmd
<1>7. Range(queue') \subseteq Range(queue)
    BY <1>1
<1> QED BY <1>1, <1>4, <1>5, <1>6, <1>7, HubStep

LEMMA HubStopStep == IInv /\ HubStop => IInv'
<1> SUFFICES ASSUME IInv, HubStop PROVE IInv'
    OBVIOUS
<1>1. /\ hub = "closing" /\ todo = <<>> /\ hub' = "stopped"
      /\ UNCHANGED <<stored, queue, connections, todo, socket, pc>>
    BY DEF HubStop, hubVars, feed, net, opening
<1>2. HubTypeOK
    BY DEF IInv
<1>3. HubTypeOK'
    BY <1>1, <1>2 DEF HubTypeOK
<1>4. Range(todo) = {}
    BY <1>1 DEF Range
<1>5. ASSUME NEW c \in Clients, Known(c) PROVE Known(c)'
    BY <1>1, <1>4, <1>5 DEF Known, AddCmd
<1>6. Range(queue') \subseteq Range(queue)
    BY <1>1
<1> QED BY <1>1, <1>3, <1>5, <1>6, HubStep

-----------------------------------------------------------------------------
LEMMA NextIInv == IInv /\ [Next]_vars => IInv'
<1> SUFFICES ASSUME IInv, [Next]_vars PROVE IInv'
    OBVIOUS
<1>1. CASE Hub
    BY <1>1, HubTakeStep, HubCancelledStep, HubStopStep, HubWriteStep,
       HubCloseStep DEF Hub
<1>2. ASSUME NEW t \in TopicSet, Store(t) \/ Broadcast(t) PROVE IInv'
    BY <1>2, StoreStep, BroadcastStep
<1>3. ASSUME NEW c \in Clients, OnOpen(c) \/ OnClose(c) \/ Peer(c) PROVE IInv'
    BY <1>3, OnOpenAddStep, OnCloseStep, OpeningSteps, OtherStillSteps
       DEF OnOpen, Peer
<1>4. CASE Cancel \/ EndFeed \/ UNCHANGED vars
    BY <1>4, OtherStillSteps
<1>5. CASE EndRun
    BY <1>5, EndRunStep
<1> QED BY <1>1, <1>2, <1>3, <1>4, <1>5 DEF Next

LEMMA IInvSuffices == IInv => KnownConnectionsClosed
<1> SUFFICES ASSUME IInv, NEW c \in Clients, hub = "stopped", socket[c] = "open"
             PROVE  pc[c] = "add" \/ \E i \in DOMAIN queue : queue[i] = AddCmd(c)
    BY DEF KnownConnectionsClosed
<1>1. Known(c)
    BY DEF IInv, Followed
<1> QED BY <1>1 DEF Known, Range

(* A hub that has stopped, on cancellation or on Shutdown, has closed every *)
(* connection it learned of (hub.Run): one left open was still being added. *)
THEOREM KnownAreClosed == Spec => []KnownConnectionsClosed
<1>1. Spec => []IInv
    BY InitIInv, NextIInv, PTL DEF Spec
<1> QED BY <1>1, IInvSuffices, PTL

-----------------------------------------------------------------------------
(* Type correctness, in groups of variables that change together.  What    *)
(* the hub goroutine is writing is a message.                              *)
FeedOK == /\ cancelled \in BOOLEAN /\ server \in {"serving", "ending"}
          /\ feeding \in BOOLEAN
          /\ stored \in [TopicSet -> Version]
          /\ unsent \in SUBSET TopicSet /\ Cardinality(unsent) <= 1
          /\ dropped \in [TopicSet -> BOOLEAN]
QueueOK == queue \in Seq(Command) /\ Len(queue) <= HubCapacity
HubOK == /\ hub \in {"running", "closing", "stopped"}
         /\ connections \in SUBSET Clients /\ todo \in Seq(connections)
         /\ writing \in Seq(Message)
         /\ hub = "running" /\ todo # <<>> => writing[1] \in Message /\ Len(writing) = 1
ConnOK == /\ socket \in [Clients -> {"absent", "open", "closed"}]
          /\ stalled \in SUBSET Clients
          /\ pc \in [Clients -> {"absent", "add", "hello", "snapshot", "write",
                                 "read", "gone"}]
          /\ outgoing \in [Clients -> Seq(Message)]
PageOK == /\ greeted \in SUBSET Clients
          /\ shown \in [Clients -> [TopicSet -> Version]]
          /\ newest \in [Clients -> [TopicSet -> Version]]

AllOK == FeedOK /\ QueueOK /\ HubOK /\ ConnOK /\ PageOK

LEMMA AllOKSuffices == AllOK => TypeOK
  BY DEF AllOK, FeedOK, QueueOK, HubOK, ConnOK, PageOK, TypeOK

LEMMA PostBound ==
    ASSUME QueueOK, NEW x \in Command, Post(x)
    PROVE  QueueOK'
<1>1. queue' \in Seq(Command)
    BY PostStep DEF QueueOK
<1>2. CASE HasRoom
  <2>1. Len(queue') = Len(queue) + 1
      BY <1>2, AppendProperties DEF Post, QueueOK
  <2>2. Len(queue) \in Nat /\ Len(queue) < HubCapacity
      BY <1>2, LenProperties DEF HasRoom, QueueOK
  <2>3. ASSUME NEW n \in Nat, n < HubCapacity PROVE n + 1 <= HubCapacity
      BY <2>3
  <2> QED BY <1>1, <2>1, <2>2, <2>3 DEF QueueOK
<1>3. CASE ~HasRoom
    BY <1>1, <1>3 DEF Post, QueueOK
<1> QED BY <1>2, <1>3

LEMMA LatestType == ASSUME FeedOK, NEW t \in TopicSet PROVE Latest(t) \in Message
  BY DEF FeedOK, Latest, Message

LEMMA SnapshotType == FeedOK => Snapshot \in Seq(Message) /\ DOMAIN Snapshot = DOMAIN Topics
<1> SUFFICES ASSUME FeedOK PROVE Snapshot \in Seq(Message) /\ DOMAIN Snapshot = DOMAIN Topics
    OBVIOUS
<1>1. Len(Topics) \in Nat /\ DOMAIN Topics = 1 .. Len(Topics)
    BY LenProperties
<1>2. \A i \in 1 .. Len(Topics) : Latest(Topics[i]) \in Message
    BY <1>1, LatestType DEF TopicSet, Range
<1>3. Snapshot \in [1 .. Len(Topics) -> Message]
    BY <1>1, <1>2 DEF Snapshot
<1> QED BY <1>1, <1>3, IsASeq DEF Snapshot

LEMMA ReceiveOK ==
    ASSUME PageOK, NEW c \in Clients, NEW m \in Message, Receive(c, m)
    PROVE  PageOK'
<1>1. CASE socket[c] = "open"
  <2>1. m.topic \in TopicSet /\ m.version \in Version
      BY DEF Message
  <2>2. Later(newest[c][m.topic], m.version) \in Version
      BY <2>1 DEF Later, PageOK
  <2>3. shown[c] \in [TopicSet -> Version] /\ newest[c] \in [TopicSet -> Version]
      BY DEF PageOK
  <2>4. /\ [shown[c] EXCEPT ![m.topic] = m.version] \in [TopicSet -> Version]
        /\ [newest[c] EXCEPT ![m.topic] = Later(newest[c][m.topic], m.version)]
              \in [TopicSet -> Version]
      BY <2>1, <2>2, <2>3
  <2>5. /\ shown' = [shown EXCEPT ![c] = [shown[c] EXCEPT ![m.topic] = m.version]]
        /\ newest' = [newest EXCEPT ![c] =
                         [newest[c] EXCEPT ![m.topic] = Later(newest[c][m.topic], m.version)]]
        /\ UNCHANGED greeted
      BY <1>1 DEF Receive
  <2> QED BY <2>4, <2>5 DEF PageOK
<1>2. CASE socket[c] # "open"
    BY <1>2 DEF Receive, PageOK, page
<1> QED BY <1>1, <1>2

LEMMA ForgetOK == ASSUME PageOK, NEW c \in Clients, Forget(c) PROVE PageOK'
<1>1. Nothing \in [TopicSet -> Version]
    BY DEF Nothing, Version
<1> QED BY <1>1 DEF Forget, PageOK

(* The hub goroutine's list gets shorter.                                  *)
LEMMA TodoOK ==
    ASSUME HubOK, todo # <<>>, todo' = Tail(todo),
           UNCHANGED <<hub, connections, writing>>
    PROVE  HubOK'
<1>1. todo' \in Seq(connections)
    BY HeadTailProperties DEF HubOK
<1> QED BY <1>1 DEF HubOK

-----------------------------------------------------------------------------
LEMMA UnchangedOK ==
    /\ FeedOK /\ UNCHANGED <<run, feed>> => FeedOK'
    /\ QueueOK /\ UNCHANGED queue => QueueOK'
    /\ HubOK /\ UNCHANGED hubVars => HubOK'
    /\ ConnOK /\ UNCHANGED <<net, opening>> => ConnOK'
    /\ PageOK /\ UNCHANGED page => PageOK'
  BY DEF FeedOK, QueueOK, HubOK, ConnOK, PageOK, run, feed, hubVars, net, opening, page

LEMMA InitAllOK == Init => AllOK
<1> SUFFICES ASSUME Init PROVE AllOK
    OBVIOUS
<1> USE DEF Init
<1>1. Nothing \in [TopicSet -> Version]
    BY DEF Nothing, Version
<1>2. Cardinality({}) = 0
    BY FS_EmptySet
<1>3. /\ cancelled \in BOOLEAN /\ feeding \in BOOLEAN
    BY Zenon
<1>4. dropped \in [TopicSet -> BOOLEAN]
    BY Zenon
<1>5. FeedOK
    BY <1>1, <1>2, <1>3, <1>4 DEF FeedOK
<1>6. QueueOK
    BY EmptySeq DEF QueueOK
<1>7. HubOK /\ ConnOK
    BY DEF HubOK, ConnOK
<1>8. PageOK
    BY <1>1 DEF PageOK
<1> QED BY <1>5, <1>6, <1>7, <1>8 DEF AllOK

LEMMA FeedStepsOK ==
    ASSUME AllOK,
           \/ Cancel \/ EndRun \/ EndFeed
           \/ \E t \in TopicSet : Store(t) \/ Broadcast(t)
    PROVE  AllOK'
<1> USE DEF AllOK
<1>0. UNCHANGED <<hubVars, net, opening, page>>
    BY DEF Cancel, EndRun, EndFeed, Store, Broadcast
<1>1. HubOK' /\ ConnOK' /\ PageOK'
    BY <1>0, UnchangedOK
<1>2. CASE Cancel
  <2>1. cancelled' \in BOOLEAN
      BY <1>2, Zenon DEF Cancel
  <2> QED BY <1>1, <1>2, <2>1, UnchangedOK DEF Cancel, FeedOK, feed
<1>3. CASE EndRun
  <2>1. QueueOK'
      BY <1>3, CommandTypes, PostBound DEF EndRun
  <2>2. FeedOK'
      BY <1>3 DEF EndRun, FeedOK, feed
  <2> QED BY <1>1, <2>1, <2>2
<1>4. CASE EndFeed
  <2>1. feeding' \in BOOLEAN
      BY <1>4, Zenon DEF EndFeed
  <2> QED BY <1>1, <1>4, <2>1, UnchangedOK DEF EndFeed, FeedOK, run
<1>5. ASSUME NEW t \in TopicSet, Store(t) PROVE AllOK'
  <2>1. stored[t] + 1 \in Version
      BY <1>5 DEF Store, FeedOK, Version
  <2>2. stored' \in [TopicSet -> Version]
      BY <1>5, <2>1 DEF Store, FeedOK
  <2>3. unsent' \in SUBSET TopicSet /\ Cardinality(unsent') <= 1
    <3>1. unsent' = {t}
        BY <1>5 DEF Store
    <3>2. Cardinality({t}) = 1
        BY FS_Singleton
    <3> QED BY <3>1, <3>2
  <2>4. dropped' \in [TopicSet -> BOOLEAN]
      BY <1>5 DEF Store, FeedOK
  <2>5. FeedOK'
      BY <1>5, <2>2, <2>3, <2>4 DEF Store, FeedOK, run
  <2> QED BY <1>1, <1>5, <2>5, UnchangedOK DEF Store
<1>6. ASSUME NEW t \in TopicSet, Broadcast(t) PROVE AllOK'
  <2>1. BroadcastCmd([topic |-> t, version |-> stored[t]]) \in Command
      BY BroadcastType DEF FeedOK
  <2>2. QueueOK'
      BY <1>6, <2>1, PostBound DEF Broadcast
  <2>3. unsent' \in SUBSET TopicSet /\ Cardinality(unsent') <= 1
      BY <1>6, FS_EmptySet DEF Broadcast
  <2>4. (~HasRoom) \in BOOLEAN
      BY Zenon
  <2>5. dropped' = [dropped EXCEPT ![t] = ~HasRoom] /\ dropped \in [TopicSet -> BOOLEAN]
      BY <1>6 DEF Broadcast, FeedOK
  <2>6. dropped' \in [TopicSet -> BOOLEAN]
      BY <2>4, <2>5, Zenon
  <2>7. FeedOK'
      BY <1>6, <2>3, <2>6 DEF Broadcast, FeedOK, run
  <2> QED BY <1>1, <2>2, <2>7
<1> QED BY <1>2, <1>3, <1>4, <1>5, <1>6

LEMMA HubStepsOK == AllOK /\ Hub => AllOK'
<1> SUFFICES ASSUME AllOK, Hub PROVE AllOK'
    OBVIOUS
<1> USE DEF AllOK
<1>0. UNCHANGED <<run, feed>>
    BY DEF Hub, HubTake, HubCancelled, HubStop, HubWrite, HubClose
<1>1. FeedOK'
    BY <1>0, UnchangedOK
<1>2. connections \in SUBSET Clients
    BY DEF HubOK
<1>3. CASE HubTake
  <2> DEFINE cmd == Head(queue)
             rest == Tail(queue)
  <2>1. /\ hub = "running" /\ todo = <<>> /\ queue # <<>> /\ queue' = rest
        /\ \/ /\ cmd.kind = "add" /\ connections' = connections \cup {cmd.conn}
              /\ UNCHANGED <<hub, writing, todo>>
           \/ /\ cmd.kind = "remove" /\ connections' = connections \ {cmd.conn}
              /\ UNCHANGED <<hub, writing, todo>>
           \/ /\ cmd.kind = "broadcast" /\ writing' = <<cmd.msg>>
              /\ todo' \in Orders(connections) /\ UNCHANGED <<hub, connections>>
           \/ /\ cmd.kind = "shutdown" /\ hub' = "closing"
              /\ todo' \in Orders(connections) /\ UNCHANGED <<connections, writing>>
      BY <1>3 DEF HubTake
  <2>2. cmd \in Command /\ rest \in Seq(Command) /\ Len(rest) = Len(queue) - 1
        /\ Len(queue) \in Nat
      BY <2>1, HeadTailProperties, LenProperties DEF QueueOK
  <2> HIDE DEF cmd, rest
  <2>3. QueueOK'
    <3>1. ASSUME NEW n \in Nat, n <= HubCapacity PROVE n - 1 <= HubCapacity
        BY <3>1
    <3> QED BY <2>1, <2>2, <3>1 DEF QueueOK
  <2>4. ConnOK' /\ PageOK'
      BY <1>3, UnchangedOK DEF HubTake
  <2>5. CASE /\ cmd.kind = "add" /\ connections' = connections \cup {cmd.conn}
             /\ UNCHANGED <<hub, writing, todo>>
    <3>1. PICK c \in Clients : cmd = AddCmd(c)
        BY <2>2, <2>5 DEF Command, AddCmd, RemoveCmd, BroadcastCmd, ShutdownCmd
    <3>2. cmd.conn = c
        BY <3>1 DEF AddCmd
    <3>3. HubOK'
        BY <1>2, <2>1, <2>5, <3>2, EmptySeq DEF HubOK
    <3> QED BY <1>1, <2>3, <2>4, <3>3
  <2>6. CASE /\ cmd.kind = "remove" /\ connections' = connections \ {cmd.conn}
             /\ UNCHANGED <<hub, writing, todo>>
    <3>1. HubOK'
        BY <1>2, <2>1, <2>6, EmptySeq DEF HubOK
    <3> QED BY <1>1, <2>3, <2>4, <3>1
  <2>7. CASE /\ cmd.kind = "broadcast" /\ writing' = <<cmd.msg>>
             /\ todo' \in Orders(connections) /\ UNCHANGED <<hub, connections>>
    <3>1. PICK m \in Message : cmd = BroadcastCmd(m)
        BY <2>2, <2>7 DEF Command, AddCmd, RemoveCmd, BroadcastCmd, ShutdownCmd
    <3>2. cmd.msg = m
        BY <3>1 DEF BroadcastCmd
    <3>3. todo' \in Seq(connections')
        BY <1>2, <2>7, OrderOfAll
    <3>4. HubOK'
        BY <1>2, <2>1, <2>7, <3>2, <3>3 DEF HubOK
    <3> QED BY <1>1, <2>3, <2>4, <3>4
  <2>8. CASE /\ cmd.kind = "shutdown" /\ hub' = "closing"
             /\ todo' \in Orders(connections) /\ UNCHANGED <<connections, writing>>
    <3>1. todo' \in Seq(connections')
        BY <1>2, <2>8, OrderOfAll
    <3>2. HubOK'
        BY <1>2, <2>1, <2>8, <3>1 DEF HubOK
    <3> QED BY <1>1, <2>3, <2>4, <3>2
  <2> QED BY <2>1, <2>5, <2>6, <2>7, <2>8
<1>4. CASE HubCancelled
  <2>1. /\ todo' \in Orders(connections) /\ hub' = "closing"
        /\ UNCHANGED <<connections, writing>>
      BY <1>4 DEF HubCancelled
  <2>2. todo' \in Seq(connections')
      BY <1>2, <2>1, OrderOfAll
  <2>3. HubOK'
      BY <2>1, <2>2 DEF HubOK
  <2> QED BY <1>1, <1>4, <2>3, UnchangedOK DEF HubCancelled
<1>5. CASE HubStop
  <2>1. HubOK'
      BY <1>5 DEF HubStop, HubOK
  <2> QED BY <1>1, <1>5, <2>1, UnchangedOK DEF HubStop
<1>6. ASSUME NEW c \in Clients, HubWrite(c) PROVE AllOK'
  <2>1. writing[1] \in Message
      BY <1>6 DEF HubWrite, HubOK
  <2>2. PageOK'
      BY <1>6, <2>1, ReceiveOK DEF HubWrite
  <2>3. HubOK'
      BY <1>6, TodoOK DEF HubWrite
  <2> QED BY <1>1, <1>6, <2>2, <2>3, UnchangedOK DEF HubWrite
<1>7. ASSUME NEW c \in Clients, HubClose(c) PROVE AllOK'
  <2>1. PageOK'
      BY <1>7, ForgetOK DEF HubClose
  <2>2. HubOK'
      BY <1>7, TodoOK DEF HubClose
  <2>3. ConnOK'
      BY <1>7 DEF HubClose, ConnOK, opening
  <2> QED BY <1>1, <1>7, <2>1, <2>2, <2>3, UnchangedOK DEF HubClose
<1> QED BY <1>3, <1>4, <1>5, <1>6, <1>7 DEF Hub

LEMMA ConnStepsOK ==
    ASSUME AllOK, NEW c \in Clients, OnOpen(c) \/ OnClose(c) \/ Peer(c)
    PROVE  AllOK'
<1> USE DEF AllOK
<1>0. UNCHANGED <<run, feed, hubVars>>
    BY DEF OnOpen, OnOpenAdd, OnOpenHello, OnOpenSnapshot, OnOpenWrite, OnClose,
           Peer, Open, Disconnect, Stall, Unstall
<1>1. FeedOK' /\ HubOK'
    BY <1>0, UnchangedOK
<1>2. CASE OnOpenAdd(c) \/ OnClose(c)
  <2>1. QueueOK'
      BY <1>2, CommandTypes, PostBound DEF OnOpenAdd, OnClose
  <2>2. ConnOK'
      BY <1>2 DEF OnOpenAdd, OnClose, ConnOK, net
  <2> QED BY <1>1, <1>2, <2>1, <2>2, UnchangedOK DEF OnOpenAdd, OnClose
<1>3. CASE OnOpenHello(c)
  <2>1. PageOK'
      BY <1>3 DEF OnOpenHello, PageOK
  <2>2. ConnOK'
      BY <1>3 DEF OnOpenHello, ConnOK, net
  <2> QED BY <1>1, <1>3, <2>1, <2>2, UnchangedOK DEF OnOpenHello
<1>4. CASE OnOpenSnapshot(c)
  <2>1. Snapshot \in Seq(Message)
      BY SnapshotType
  <2>2. ConnOK'
      BY <1>4, <2>1 DEF OnOpenSnapshot, ConnOK, net
  <2> QED BY <1>1, <1>4, <2>2, UnchangedOK DEF OnOpenSnapshot
<1>5. CASE OnOpenWrite(c)
  <2>1. outgoing[c] \in Seq(Message)
      BY DEF ConnOK
  <2>2. outgoing[c] # <<>> => Head(outgoing[c]) \in Message /\ Tail(outgoing[c]) \in Seq(Message)
      BY <2>1, HeadTailProperties
  <2>3. PageOK'
      BY <1>5, <2>2, ReceiveOK, UnchangedOK DEF OnOpenWrite
  <2>4. ConnOK'
      BY <1>5, <2>2 DEF OnOpenWrite, ConnOK, net
  <2> QED BY <1>1, <1>5, <2>3, <2>4, UnchangedOK DEF OnOpenWrite
<1>6. CASE Open(c) \/ Stall(c) \/ Unstall(c)
  <2>1. ConnOK'
      BY <1>6 DEF Open, Stall, Unstall, ConnOK, opening
  <2> QED BY <1>1, <1>6, <2>1, UnchangedOK DEF Open, Stall, Unstall
<1>7. CASE Disconnect(c)
  <2>1. PageOK'
      BY <1>7, ForgetOK DEF Disconnect
  <2>2. ConnOK'
      BY <1>7 DEF Disconnect, ConnOK, opening
  <2> QED BY <1>1, <1>7, <2>1, <2>2, UnchangedOK DEF Disconnect
<1> QED BY <1>2, <1>3, <1>4, <1>5, <1>6, <1>7 DEF OnOpen, Peer

LEMMA NextAllOK == AllOK /\ [Next]_vars => AllOK'
<1>1. AllOK /\ UNCHANGED vars => AllOK'
    BY UnchangedOK DEF AllOK, vars
<1> QED BY <1>1, FeedStepsOK, HubStepsOK, ConnStepsOK DEF Next

(* The types of the server's and the hub's state.                          *)
THEOREM TypeCorrect == Spec => []TypeOK
<1> QED BY InitAllOK, NextAllOK, AllOKSuffices, PTL DEF Spec

-----------------------------------------------------------------------------
(* What is delivered.  A message is under way in the hub's channel, in the *)
(* hub goroutine's hands, or in the snapshot a connection is being sent.   *)
Carried(m) == \/ BroadcastCmd(m) \in Range(queue) \/ m \in Range(writing)
              \/ \E c \in Clients : m \in Range(outgoing[c])

(* Nothing under way or received is newer than what is stored.             *)
NothingNewer ==
    /\ \A m \in Message : Carried(m) => m.version <= stored[m.topic]
    /\ \A c \in Clients, t \in TopicSet : /\ shown[c][t] <= newest[c][t]
                                          /\ newest[c][t] <= stored[t]

(* The channel holds the versions of a topic in order.                     *)
Carries(i, t) == queue[i].kind = "broadcast" /\ queue[i].msg.topic = t
InOrder == \A i, j \in DOMAIN queue : \A t \in TopicSet :
               i < j /\ Carries(i, t) /\ Carries(j, t)
                   => queue[i].msg.version <= queue[j].msg.version

(* Whatever older version of a topic is still to be written, the latest    *)
(* one is behind it: stored and not yet broadcast, or in the channel, or   *)
(* it was dropped.                                                         *)
Writing(t) == hub = "running" /\ todo # <<>> /\ writing[1].topic = t
NothingOlder(t) ==
    /\ \A i \in DOMAIN queue : Carries(i, t) => queue[i].msg.version = stored[t]
    /\ Writing(t) => writing[1].version = stored[t]
LatestFollows(t) == \/ t \in unsent \/ dropped[t]
                    \/ BroadcastCmd(Latest(t)) \in Range(queue)
                    \/ NothingOlder(t)

(* The command at i will be executed when the hub knows the connection.    *)
KnownAt(c, i) == \/ c \in connections
                 \/ \E j \in DOMAIN queue : j < i /\ queue[j] = AddCmd(c)

(* The latest version has reached the client, is on its way to it, or was  *)
(* dropped.                                                                *)
Listens(c) == pc[c] \in {"write", "read"} /\ socket[c] = "open" /\ hub = "running"
Told(c, t) ==
    \/ newest[c][t] = stored[t] \/ t \in unsent \/ dropped[t]
    \/ Latest(t) \in Range(outgoing[c])
    \/ c \in Range(todo) /\ writing = <<Latest(t)>>
    \/ \E i \in DOMAIN queue : queue[i] = BroadcastCmd(Latest(t)) /\ KnownAt(c, i)

DeliveryInv == /\ NothingNewer /\ InOrder
               /\ \A t \in TopicSet : LatestFollows(t)
               /\ \A c \in Clients, t \in TopicSet : Listens(c) => Told(c, t)

-----------------------------------------------------------------------------
(* The places of the channel before and after a send and a receive.        *)
LEMMA Places ==
    ASSUME QueueOK
    PROVE  /\ DOMAIN queue \subseteq Nat \ {0}
           /\ queue # <<>> => 1 \in DOMAIN queue /\ queue[1] = Head(queue)
           /\ \A i \in DOMAIN queue : queue[i] \in Command
<1>1. DOMAIN queue = 1 .. Len(queue) /\ Len(queue) \in Nat
    BY LenProperties DEF QueueOK
<1>2. queue # <<>> => Len(queue) # 0
    BY EmptySeq DEF QueueOK
<1>3. Head(queue) = queue[1]
    OBVIOUS
<1>4. \A i \in 1 .. Len(queue) : queue[i] \in Command
    BY ElementOfSeq DEF QueueOK
<1> QED BY <1>1, <1>2, <1>3, <1>4

LEMMA PostPlaces ==
    ASSUME QueueOK, NEW x \in Command, Post(x)
    PROVE  /\ \A i \in DOMAIN queue : i \in DOMAIN queue' /\ queue'[i] = queue[i]
           /\ \A i \in DOMAIN queue' :
                  \/ i \in DOMAIN queue
                  \/ queue'[i] = x /\ \A j \in DOMAIN queue : j < i
           /\ HasRoom => \E i \in DOMAIN queue' :
                             queue'[i] = x /\ \A j \in DOMAIN queue : j < i
<1>1. CASE HasRoom
  <2> DEFINE n == Len(queue)
             longer == Append(queue, x)
  <2>1. /\ longer \in Seq(Command) /\ Len(longer) = n + 1 /\ n \in Nat
        /\ \A i \in 1 .. n : longer[i] = queue[i]
        /\ longer[n + 1] = x
      BY AppendProperties, LenProperties DEF QueueOK
  <2>2. DOMAIN queue = 1 .. n
      BY LenProperties DEF QueueOK
  <2>3. DOMAIN longer = 1 .. Len(longer)
      BY <2>1, LenProperties
  <2> HIDE DEF n, longer
  <2>4. DOMAIN longer = 1 .. n + 1
      BY <2>1, <2>3
  <2>5. queue' = longer
      BY <1>1 DEF Post, longer
  <2>6. \A i \in 1 .. n : i \in 1 .. n + 1
      BY <2>1
  <2>7. \A i \in 1 .. n + 1 : i \in 1 .. n \/ i = n + 1
      BY <2>1
  <2>8. n + 1 \in 1 .. n + 1 /\ \A j \in 1 .. n : j < n + 1
      BY <2>1
  <2> QED BY <2>1, <2>2, <2>4, <2>5, <2>6, <2>7, <2>8
<1>2. CASE ~HasRoom
    BY <1>2 DEF Post
<1> QED BY <1>1, <1>2

LEMMA TakePlaces ==
    ASSUME QueueOK, queue # <<>>, queue' = Tail(queue)
    PROVE  /\ \A i \in DOMAIN queue' : i + 1 \in DOMAIN queue /\ queue'[i] = queue[i + 1]
           /\ \A i \in DOMAIN queue : i # 1 => i - 1 \in DOMAIN queue'
           /\ DOMAIN queue' \subseteq Nat \ {0}
<1> DEFINE n == Len(queue)
           rest == Tail(queue)
<1>1. /\ rest \in Seq(Command) /\ Len(rest) = n - 1 /\ n \in Nat
      /\ \A i \in 1 .. Len(rest) : rest[i] = queue[i + 1]
    BY HeadTailProperties, LenProperties DEF QueueOK
<1>2. DOMAIN queue = 1 .. n
    BY LenProperties DEF QueueOK
<1>3. DOMAIN rest = 1 .. Len(rest)
    BY <1>1, LenProperties
<1>4. queue' = rest
    OBVIOUS
<1> HIDE DEF n, rest
<1>5. DOMAIN queue' = 1 .. n - 1
    BY <1>1, <1>3, <1>4
<1>6. \A i \in 1 .. n - 1 : i + 1 \in 1 .. n /\ i \in Nat \ {0}
    BY <1>1
<1>7. \A i \in 1 .. n : i # 1 => i - 1 \in 1 .. n - 1
    BY <1>1
<1>8. \A i \in 1 .. n - 1 : queue'[i] = queue[i + 1]
    BY <1>1, <1>4
<1> QED BY <1>2, <1>5, <1>6, <1>7, <1>8

LEMMA CommandForms ==
    /\ \A m : BroadcastCmd(m)' = BroadcastCmd(m) /\ BroadcastCmd(m).kind = "broadcast"
              /\ BroadcastCmd(m).msg = m
    /\ \A m, n : BroadcastCmd(m) = BroadcastCmd(n) => m = n
    /\ \A c : /\ AddCmd(c)' = AddCmd(c) /\ AddCmd(c).kind = "add"
              /\ RemoveCmd(c).kind = "remove" /\ AddCmd(c).conn = c
    /\ ShutdownCmd.kind = "shutdown"
    /\ \A x \in Command : x.kind = "broadcast" => x.msg \in Message /\ x = BroadcastCmd(x.msg)
<1>1. \A m : BroadcastCmd(m)' = BroadcastCmd(m) /\ BroadcastCmd(m).kind = "broadcast"
             /\ BroadcastCmd(m).msg = m
    BY DEF BroadcastCmd
<1>2. \A c : /\ AddCmd(c)' = AddCmd(c) /\ AddCmd(c).kind = "add"
             /\ RemoveCmd(c).kind = "remove" /\ AddCmd(c).conn = c
    BY DEF AddCmd, RemoveCmd
<1>3. ShutdownCmd.kind = "shutdown"
    BY DEF ShutdownCmd
<1>4. ASSUME NEW x \in Command, x.kind = "broadcast"
      PROVE  x.msg \in Message /\ x = BroadcastCmd(x.msg)
  <2>1. PICK m \in Message : x = BroadcastCmd(m)
      BY <1>2, <1>3, <1>4 DEF Command
  <2> QED BY <1>1, <2>1
<1>5. \A m, n : BroadcastCmd(m) = BroadcastCmd(n) => m = n
    BY <1>1
<1> QED BY <1>1, <1>2, <1>3, <1>4, <1>5

LEMMA LatestFields ==
    \A t : Latest(t).topic = t /\ Latest(t).version = stored[t]
  BY DEF Latest

(* NothingNewer, by what may be carried and what may be received.          *)
LEMMA NewerStep ==
    ASSUME NothingNewer, AllOK, AllOK',
           \A t \in TopicSet : stored[t] <= stored'[t],
           \A m \in Message : Carried(m)' => Carried(m) \/ m.version <= stored'[m.topic],
           \A c \in Clients, t \in TopicSet : /\ shown'[c][t] <= newest'[c][t]
                                              /\ newest'[c][t] <= stored[t]
    PROVE  NothingNewer'
<1>1. ASSUME NEW m \in Message, Carried(m)' PROVE m.version <= stored'[m.topic]
  <2>1. /\ m.topic \in TopicSet /\ m.version \in Nat
        /\ stored[m.topic] \in Nat /\ stored'[m.topic] \in Nat
      BY DEF Message, Version, AllOK, FeedOK
  <2> QED BY <1>1, <2>1 DEF NothingNewer
<1>2. ASSUME NEW c \in Clients, NEW t \in TopicSet PROVE newest'[c][t] <= stored'[t]
  <2>1. newest'[c][t] \in Nat /\ stored[t] \in Nat /\ stored'[t] \in Nat
      BY DEF AllOK, FeedOK, PageOK, Version
  <2> QED BY <2>1
<1> QED BY <1>1, <1>2 DEF NothingNewer

LEMMA ReceiveCarried ==
    ASSUME NothingNewer, AllOK, NEW c \in Clients, NEW m \in Message, Carried(m),
           Receive(c, m)
    PROVE  /\ \A d \in Clients, t \in TopicSet : /\ shown'[d][t] <= newest'[d][t]
                                                 /\ newest'[d][t] <= stored[t]
           /\ \A d \in Clients, t \in TopicSet :
                  newest[d][t] = stored[t] => newest'[d][t] = stored[t]
           /\ socket[c] = "open" /\ m.version = stored[m.topic]
                  => newest'[c][m.topic] = stored[m.topic]
<1>1. /\ m.topic \in TopicSet /\ m.version \in Nat /\ m.version <= stored[m.topic]
      /\ \A t \in TopicSet : stored[t] \in Nat
      /\ shown \in [Clients -> [TopicSet -> Nat]] /\ newest \in [Clients -> [TopicSet -> Nat]]
    BY DEF Message, Version, AllOK, FeedOK, PageOK, NothingNewer
<1>2. CASE socket[c] # "open"
    BY <1>2 DEF Receive, page, NothingNewer
<1>3. CASE socket[c] = "open"
  <2>1. ASSUME NEW d \in Clients, NEW t \in TopicSet
        PROVE  /\ shown'[d][t] = (IF d = c /\ t = m.topic THEN m.version ELSE shown[d][t])
               /\ newest'[d][t] = (IF d = c /\ t = m.topic THEN Later(newest[d][t], m.version)
                                   ELSE newest[d][t])
    <3>1. shown[c] \in [TopicSet -> Nat] /\ newest[c] \in [TopicSet -> Nat]
        BY <1>1
    <3>2. /\ shown' = [shown EXCEPT ![c] = [shown[c] EXCEPT ![m.topic] = m.version]]
          /\ newest' = [newest EXCEPT ![c] =
                           [newest[c] EXCEPT ![m.topic] = Later(newest[c][m.topic], m.version)]]
        BY <1>3 DEF Receive
    <3> QED BY <1>1, <3>1, <3>2
  <2>2. ASSUME NEW d \in Clients, NEW t \in TopicSet
        PROVE  /\ shown'[d][t] <= newest'[d][t] /\ newest'[d][t] <= stored[t]
               /\ newest[d][t] = stored[t] => newest'[d][t] = stored[t]
    <3>1. /\ shown[d][t] \in Nat /\ newest[d][t] \in Nat /\ stored[t] \in Nat
          /\ shown[d][t] <= newest[d][t] /\ newest[d][t] <= stored[t]
        BY <1>1 DEF NothingNewer
    <3> QED BY <1>1, <2>1, <3>1 DEF Later
  <2>3. m.version = stored[m.topic] => newest'[c][m.topic] = stored[m.topic]
    <3>1. newest[c][m.topic] \in Nat /\ newest[c][m.topic] <= stored[m.topic]
        BY <1>1 DEF NothingNewer
    <3> QED BY <1>1, <2>1, <3>1 DEF Later
  <2> QED BY <2>2, <2>3
<1> QED BY <1>2, <1>3

LEMMA ForgetCarried ==
    ASSUME NothingNewer, AllOK, NEW c \in Clients, Forget(c)
    PROVE  /\ \A d \in Clients, t \in TopicSet : /\ shown'[d][t] <= newest'[d][t]
                                                 /\ newest'[d][t] <= stored[t]
           /\ \A d \in Clients \ {c} : newest'[d] = newest[d]
<1>1. \A d \in Clients : /\ shown'[d] = (IF d = c THEN Nothing ELSE shown[d])
                         /\ newest'[d] = (IF d = c THEN Nothing ELSE newest[d])
    BY DEF Forget, AllOK, PageOK
<1>2. \A t \in TopicSet : Nothing[t] = 0 /\ stored[t] \in Nat
    BY DEF Nothing, AllOK, FeedOK, Version
<1> QED BY <1>1, <1>2 DEF NothingNewer

-----------------------------------------------------------------------------
(* The steps that deliver nothing, but may post a command that is not a    *)
(* broadcast, or close a connection.                                       *)
Aside == /\ UNCHANGED <<stored, unsent, dropped, connections, writing, outgoing>>
         /\ UNCHANGED queue \/ \E x \in Command : x.kind # "broadcast" /\ Post(x)
         /\ UNCHANGED <<hub, todo>> \/ hub' # "running"
         /\ \A c \in Clients : Listens(c)' => Listens(c) /\ newest'[c] = newest[c]
         /\ \/ UNCHANGED <<shown, newest>>
            \/ \E c \in Clients : Forget(c)

LEMMA AsideDelivery == AllOK /\ AllOK' /\ DeliveryInv /\ Aside => DeliveryInv'
<1> SUFFICES ASSUME AllOK, AllOK', DeliveryInv, Aside PROVE DeliveryInv'
    OBVIOUS
<1>1. /\ UNCHANGED <<stored, unsent, dropped, connections, writing, outgoing>>
      /\ UNCHANGED <<hub, todo>> \/ hub' # "running"
      /\ \A c \in Clients : Listens(c)' => Listens(c) /\ newest'[c] = newest[c]
    BY DEF Aside
<1>2. /\ \A i \in DOMAIN queue : i \in DOMAIN queue' /\ queue'[i] = queue[i]
      /\ \A i \in DOMAIN queue' : i \in DOMAIN queue \/ queue'[i].kind # "broadcast"
    BY PostPlaces DEF Aside, AllOK
<1>3. \A t : Latest(t)' = Latest(t) /\ BroadcastCmd(Latest(t))' = BroadcastCmd(Latest(t))
    BY <1>1 DEF Latest, BroadcastCmd
<1>4. NothingNewer'
  <2>1. ASSUME NEW m \in Message, Carried(m)' PROVE Carried(m)
    <3>1. BroadcastCmd(m) \in Range(queue') => BroadcastCmd(m) \in Range(queue)
        BY <1>2, CommandForms DEF Range
    <3>2. BroadcastCmd(m)' = BroadcastCmd(m)
        BY CommandForms
    <3> QED BY <1>1, <2>1, <3>1, <3>2 DEF Carried
  <2>2. \A d \in Clients, t \in TopicSet : /\ shown'[d][t] <= newest'[d][t]
                                           /\ newest'[d][t] <= stored[t]
      BY ForgetCarried DEF Aside, DeliveryInv, NothingNewer
  <2>3. \A t \in TopicSet : stored[t] <= stored'[t]
      BY <1>1 DEF AllOK, FeedOK, Version
  <2> QED BY <2>1, <2>2, <2>3, NewerStep DEF DeliveryInv
<1>5. \A t : \A i \in DOMAIN queue' : Carries(i, t)' => i \in DOMAIN queue /\ Carries(i, t)
    BY <1>2 DEF Carries
<1>6. InOrder'
    BY <1>2, <1>5 DEF DeliveryInv, InOrder
<1>7. ASSUME NEW t \in TopicSet PROVE LatestFollows(t)'
  <2>1. LatestFollows(t)
      BY DEF DeliveryInv
  <2>2. BroadcastCmd(Latest(t)) \in Range(queue) => (BroadcastCmd(Latest(t)) \in Range(queue))'
      BY <1>2, <1>3 DEF Range
  <2>3. Writing(t)' => Writing(t)
      BY <1>1 DEF Writing
  <2>4. NothingOlder(t) => NothingOlder(t)'
      BY <1>1, <1>2, <1>5, <2>3 DEF NothingOlder
  <2> QED BY <1>1, <2>1, <2>2, <2>4 DEF LatestFollows
<1>8. ASSUME NEW c \in Clients, NEW t \in TopicSet, Listens(c)' PROVE Told(c, t)'
  <2>1. Listens(c) /\ newest'[c] = newest[c] /\ Told(c, t)
      BY <1>1, <1>8 DEF DeliveryInv
  <2>2. UNCHANGED <<hub, todo>>
      BY <1>1, <1>8 DEF Listens
  <2>3. ASSUME NEW i \in DOMAIN queue, KnownAt(c, i) PROVE KnownAt(c, i)'
      BY <1>1, <1>2, <2>3, CommandForms DEF KnownAt
  <2> QED BY <1>1, <1>2, <1>3, <2>1, <2>2, <2>3 DEF Told
<1> QED BY <1>4, <1>6, <1>7, <1>8 DEF DeliveryInv

(* Store and broadcast.                                                    *)
LEMMA StoreDelivery ==
    ASSUME NEW t \in TopicSet, AllOK, AllOK', DeliveryInv, Store(t)
    PROVE  DeliveryInv'
<1>1. /\ unsent = {} /\ unsent' = {t} /\ stored' = [stored EXCEPT ![t] = @ + 1]
      /\ dropped' = [dropped EXCEPT ![t] = FALSE]
      /\ UNCHANGED <<queue, hub, connections, writing, todo, socket, pc, outgoing,
                     shown, newest>>
    BY DEF Store, hubVars, net, opening, page
<1>2. stored \in [TopicSet -> Nat] /\ dropped \in [TopicSet -> BOOLEAN]
    BY DEF AllOK, FeedOK, Version
<1>0. \A u \in TopicSet : stored[u] <= stored'[u] /\ (u # t => stored'[u] = stored[u])
    BY <1>1, <1>2
<1>d. \A u \in TopicSet : u # t => dropped'[u] = dropped[u]
    BY <1>1, <1>2, Zenon
<1>3. \A u \in TopicSet : /\ stored[u] <= stored'[u]
                          /\ u # t => stored'[u] = stored[u] /\ dropped'[u] = dropped[u]
    BY <1>0, <1>d, Zenon
<1>4. \A u \in TopicSet : u # t => Latest(u)' = Latest(u)
                                   /\ BroadcastCmd(Latest(u))' = BroadcastCmd(Latest(u))
    BY <1>3 DEF Latest, BroadcastCmd
<1>5. NothingNewer'
  <2>1. \A m \in Message : Carried(m)' => Carried(m)
      BY <1>1, CommandForms DEF Carried
  <2> QED BY <1>1, <1>3, <2>1, NewerStep DEF DeliveryInv, NothingNewer
<1>6. \A i, u : Carries(i, u)' <=> Carries(i, u)
    BY <1>1 DEF Carries
<1>7. InOrder'
    BY <1>1, <1>6 DEF DeliveryInv, InOrder
<1>8. ASSUME NEW u \in TopicSet PROVE LatestFollows(u)'
  <2>1. CASE u = t
      BY <1>1, <2>1 DEF LatestFollows
  <2>2. CASE u # t
    <3>1. LatestFollows(u)
        BY DEF DeliveryInv
    <3>2. NothingOlder(u) => NothingOlder(u)'
        BY <1>1, <1>3, <1>6, <2>2 DEF NothingOlder, Writing
    <3> QED BY <1>1, <1>3, <1>4, <2>2, <3>1, <3>2 DEF LatestFollows
  <2> QED BY <2>1, <2>2
<1>9. ASSUME NEW c \in Clients, NEW u \in TopicSet, Listens(c)' PROVE Told(c, u)'
  <2>1. CASE u = t
      BY <1>1, <2>1 DEF Told
  <2>2. CASE u # t
    <3>1. Told(c, u)
        BY <1>1, <1>9 DEF DeliveryInv, Listens
    <3>2. \A i : KnownAt(c, i) => KnownAt(c, i)'
        BY <1>1, CommandForms DEF KnownAt
    <3> QED BY <1>1, <1>3, <1>4, <2>2, <3>1, <3>2 DEF Told
  <2> QED BY <2>1, <2>2
<1> QED BY <1>5, <1>7, <1>8, <1>9 DEF DeliveryInv

(* At most one topic is stored and not yet broadcast.                      *)
LEMMA UnsentAlone == ASSUME FeedOK, NEW t \in unsent, NEW u \in unsent PROVE u = t
<1>1. Len(Topics) \in Nat /\ DOMAIN Topics = 1 .. Len(Topics)
    BY LenProperties
<1>2. IsFiniteSet(1 .. Len(Topics))
    BY <1>1, FS_Interval
<1>3. Topics \in Surjection(1 .. Len(Topics), TopicSet)
  <2>1. Topics \in [1 .. Len(Topics) -> TopicSet]
      BY <1>1 DEF TopicSet, Range
  <2>2. \A y \in TopicSet : \E i \in 1 .. Len(Topics) : Topics[i] = y
      BY <1>1 DEF TopicSet, Range
  <2> QED BY <2>1, <2>2 DEF Surjection
<1>4. IsFiniteSet(TopicSet)
    BY <1>2, <1>3, FS_Surjection
<1>5. IsFiniteSet(unsent) /\ Cardinality(unsent) \in Nat /\ Cardinality(unsent) <= 1
    BY <1>4, FS_Subset, FS_CardinalityType DEF FeedOK
<1>6. SUFFICES ASSUME u # t PROVE FALSE
    OBVIOUS
<1> DEFINE one == {t}
           both == one \cup {u}
<1>7. IsFiniteSet(one) /\ Cardinality(one) = 1 /\ u \notin one
    BY <1>6, FS_Singleton
<1>8. both \in SUBSET unsent
    OBVIOUS
<1> HIDE DEF one
<1>9. Cardinality(both) = Cardinality(one) + 1
    BY <1>7, FS_AddElement
<1> HIDE DEF both
<1>10. Cardinality(both) <= Cardinality(unsent)
    BY <1>5, <1>8, FS_Subset
<1> QED BY <1>5, <1>7, <1>9, <1>10

(* Every broadcast in the channel is carried.                              *)
LEMMA ChannelCarries ==
    ASSUME QueueOK, NEW i \in DOMAIN queue, NEW t, Carries(i, t)
    PROVE  /\ queue[i].msg \in Message /\ Carried(queue[i].msg)
           /\ queue[i] = BroadcastCmd(queue[i].msg) /\ queue[i].msg.topic = t
<1>1. queue[i] \in Command /\ queue[i].kind = "broadcast" /\ queue[i].msg.topic = t
    BY Places DEF Carries
<1>2. queue[i].msg \in Message /\ queue[i] = BroadcastCmd(queue[i].msg)
    BY <1>1, CommandForms
<1> QED BY <1>1, <1>2 DEF Carried, Range

LEMMA BroadcastDelivery ==
    ASSUME NEW t \in TopicSet, AllOK, AllOK', IInv, DeliveryInv, Broadcast(t)
    PROVE  DeliveryInv'
<1> DEFINE x == BroadcastCmd(Latest(t))
<1>1. /\ t \in unsent /\ unsent' = {} /\ Post(x)
      /\ UNCHANGED <<stored, hub, connections, writing, todo, socket, pc, outgoing,
                     shown, newest>>
    BY DEF Broadcast, Latest, hubVars, net, opening, page
<1>2. x \in Command /\ x.kind = "broadcast" /\ x.msg = Latest(t)
    BY BroadcastType, CommandForms DEF AllOK, FeedOK, Latest
<1>3. Latest(t).topic = t /\ Latest(t).version = stored[t] /\ stored[t] \in Nat
    BY LatestFields DEF AllOK, FeedOK, Version
<1>4. \A u : Latest(u)' = Latest(u) /\ BroadcastCmd(Latest(u))' = BroadcastCmd(Latest(u))
    BY <1>1 DEF Latest, BroadcastCmd
<1> HIDE DEF x
<1>5. /\ \A i \in DOMAIN queue : i \in DOMAIN queue' /\ queue'[i] = queue[i]
      /\ \A i \in DOMAIN queue' :
             \/ i \in DOMAIN queue
             \/ queue'[i] = x /\ \A j \in DOMAIN queue : j < i
      /\ HasRoom => \E i \in DOMAIN queue' :
                        queue'[i] = x /\ \A j \in DOMAIN queue : j < i
    BY <1>1, <1>2, PostPlaces DEF AllOK
<1>6. /\ \A u \in TopicSet : u # t => dropped'[u] = dropped[u]
      /\ ~HasRoom => dropped'[t]
  <2>1. dropped' = [dropped EXCEPT ![t] = ~HasRoom] /\ dropped \in [TopicSet -> BOOLEAN]
      BY DEF Broadcast, AllOK, FeedOK
  <2> QED BY <2>1, Zenon
<1>7. NothingNewer'
  <2>1. ASSUME NEW m \in Message, Carried(m)' PROVE Carried(m) \/ m = Latest(t)
    <3>1. BroadcastCmd(m) \in Range(queue') => BroadcastCmd(m) \in Range(queue)
                                               \/ BroadcastCmd(m) = x
        BY <1>5 DEF Range
    <3>2. BroadcastCmd(m)' = BroadcastCmd(m) /\ (BroadcastCmd(m) = x => m = Latest(t))
        BY CommandForms DEF x
    <3> QED BY <1>1, <2>1, <3>1, <3>2 DEF Carried
  <2>2. \A u \in TopicSet : stored[u] <= stored'[u]
      BY <1>1 DEF AllOK, FeedOK, Version
  <2>3. stored'[t] = stored[t] /\ stored[t] <= stored[t]
      BY <1>1, <1>3
  <2> QED BY <1>1, <1>3, <2>1, <2>2, <2>3, NewerStep DEF DeliveryInv, NothingNewer
<1>8. \A u : \A i \in DOMAIN queue : Carries(i, u)' <=> Carries(i, u)
    BY <1>5 DEF Carries
<1>9. \A u : \A i \in DOMAIN queue' : Carries(i, u)' /\ i \notin DOMAIN queue => u = t
    BY <1>2, <1>3, <1>5 DEF Carries
<1>10. InOrder'
  <2> SUFFICES ASSUME NEW i \in DOMAIN queue', NEW j \in DOMAIN queue',
                      NEW u \in TopicSet, i < j, Carries(i, u)', Carries(j, u)'
               PROVE  queue'[i].msg.version <= queue'[j].msg.version
      BY DEF InOrder
  <2>0. DOMAIN queue \subseteq Nat /\ DOMAIN queue' \subseteq Nat
      BY Places DEF AllOK
  <2>1. CASE i \in DOMAIN queue /\ j \in DOMAIN queue
      BY <1>5, <1>8, <2>1 DEF DeliveryInv, InOrder
  <2>2. CASE j \notin DOMAIN queue
    <3>1. queue'[j].msg.version = stored[t] /\ u = t
        BY <1>2, <1>3, <1>5, <1>9, <2>2
    <3>2. CASE i \in DOMAIN queue
      <4>1. queue[i].msg \in Message /\ Carried(queue[i].msg) /\ queue[i].msg.topic = t
          BY <1>8, <3>1, <3>2, ChannelCarries DEF AllOK
      <4>2. queue[i].msg.version <= stored[t]
          BY <4>1 DEF DeliveryInv, NothingNewer
      <4> QED BY <1>5, <3>1, <3>2, <4>2
    <3>3. CASE i \notin DOMAIN queue
        BY <1>2, <1>3, <1>5, <3>1, <3>3
    <3> QED BY <3>2, <3>3
  <2>3. CASE i \notin DOMAIN queue /\ j \in DOMAIN queue
      BY <1>5, <2>0, <2>3
  <2> QED BY <2>1, <2>2, <2>3
<1>11. ASSUME NEW u \in TopicSet PROVE LatestFollows(u)'
  <2>1. CASE u = t
      BY <1>4, <1>5, <1>6, <2>1 DEF LatestFollows, Range, x
  <2>2. CASE u # t
    <3>1. LatestFollows(u) /\ u \notin unsent
        BY <1>1, <2>2, UnsentAlone DEF DeliveryInv, AllOK
    <3>2. BroadcastCmd(Latest(u)) \in Range(queue) => (BroadcastCmd(Latest(u)) \in Range(queue))'
        BY <1>4, <1>5 DEF Range
    <3>3. NothingOlder(u) => NothingOlder(u)'
        BY <1>1, <1>5, <1>8, <1>9, <2>2 DEF NothingOlder, Writing
    <3> QED BY <1>6, <2>2, <3>1, <3>2, <3>3 DEF LatestFollows
  <2> QED BY <2>1, <2>2
<1>12. ASSUME NEW c \in Clients, NEW u \in TopicSet, Listens(c)' PROVE Told(c, u)'
  <2>0. \A i \in DOMAIN queue : KnownAt(c, i) => KnownAt(c, i)'
      BY <1>1, <1>5, CommandForms DEF KnownAt
  <2>1. CASE u = t /\ HasRoom
    <3>1. PICK i \in DOMAIN queue' : queue'[i] = x /\ \A j \in DOMAIN queue : j < i
        BY <1>5, <2>1
    <3>2. AddCmd(c) \in Range(queue) \/ c \in connections
        BY <1>1, <1>12 DEF Listens, IInv, Followed, Known
    <3>3. KnownAt(c, i)'
        BY <1>1, <1>5, <3>1, <3>2, CommandForms DEF KnownAt, Range
    <3> QED BY <1>4, <2>1, <3>1, <3>3 DEF Told, x
  <2>2. CASE u = t /\ ~HasRoom
      BY <1>6, <2>2 DEF Told
  <2>3. CASE u # t
    <3>1. Told(c, u) /\ u \notin unsent
        BY <1>1, <1>12, <2>3, UnsentAlone DEF DeliveryInv, AllOK, Listens
    <3> QED BY <1>1, <1>4, <1>5, <1>6, <2>0, <2>3, <3>1 DEF Told
  <2> QED BY <2>1, <2>2, <2>3
<1> QED BY <1>7, <1>10, <1>11, <1>12 DEF DeliveryInv

(* hub.Run takes a command: what was in the channel is in its hands.       *)
LEMMA HubTakeDelivery ==
    ASSUME AllOK, AllOK', IInv, DeliveryInv, HubTake
    PROVE  DeliveryInv'
<1> DEFINE x == queue[1]
<1>1. /\ hub = "running" /\ todo = <<>> /\ queue # <<>> /\ queue' = Tail(queue)
      /\ UNCHANGED <<stored, unsent, dropped, socket, pc, outgoing, shown, newest>>
    BY DEF HubTake, feed, net, opening, page
<1>2. 1 \in DOMAIN queue /\ x = Head(queue) /\ x \in Command /\ DOMAIN queue \subseteq Nat \ {0}
    BY <1>1, Places DEF AllOK
<1>3. \/ /\ x.kind = "add" /\ connections' = connections \cup {x.conn}
         /\ UNCHANGED <<hub, writing, todo>>
      \/ /\ x.kind = "remove" /\ connections' = connections \ {x.conn}
         /\ UNCHANGED <<hub, writing, todo>>
      \/ /\ x.kind = "broadcast" /\ writing' = <<x.msg>>
         /\ todo' \in Orders(connections) /\ UNCHANGED <<hub, connections>>
      \/ x.kind = "shutdown" /\ hub' = "closing" /\ UNCHANGED writing
    BY <1>2 DEF HubTake
<1>4. /\ \A i \in DOMAIN queue' : i + 1 \in DOMAIN queue /\ queue'[i] = queue[i + 1]
      /\ \A i \in DOMAIN queue : i # 1 => i - 1 \in DOMAIN queue'
      /\ DOMAIN queue' \subseteq Nat \ {0}
    BY <1>1, TakePlaces DEF AllOK
<1>5. \A i \in DOMAIN queue : i # 1 => queue'[i - 1] = queue[i]
  <2> SUFFICES ASSUME NEW i \in DOMAIN queue, i # 1 PROVE queue'[i - 1] = queue[i]
      OBVIOUS
  <2>1. i - 1 \in DOMAIN queue' /\ (i - 1) + 1 = i
      BY <1>2, <1>4
  <2> QED BY <1>4, <2>1
<1>6. x.kind = "broadcast" => x.msg \in Message /\ x = BroadcastCmd(x.msg)
    BY <1>2, CommandForms
<1>7. \A u : Latest(u)' = Latest(u) /\ BroadcastCmd(Latest(u))' = BroadcastCmd(Latest(u))
    BY <1>1 DEF Latest, BroadcastCmd
<1> HIDE DEF x
<1>8. \A u : \A i \in DOMAIN queue' : Carries(i, u)' => i + 1 \in DOMAIN queue /\ Carries(i + 1, u)
    BY <1>4 DEF Carries
<1>9. NothingNewer'
  <2>1. ASSUME NEW m \in Message, Carried(m)' PROVE Carried(m)
    <3>1. BroadcastCmd(m) \in Range(queue') => BroadcastCmd(m) \in Range(queue)
        BY <1>4 DEF Range
    <3>2. BroadcastCmd(m)' = BroadcastCmd(m)
        BY CommandForms
    <3>3. m \in Range(writing') => m \in Range(writing) \/ BroadcastCmd(m) \in Range(queue)
      <4>1. CASE UNCHANGED writing
          BY <4>1
      <4>2. CASE x.kind = "broadcast" /\ writing' = <<x.msg>>
          BY <1>2, <1>6, <4>2 DEF Range, x
      <4> QED BY <1>3, <4>1, <4>2
    <3> QED BY <1>1, <2>1, <3>1, <3>2, <3>3 DEF Carried
  <2>2. \A t \in TopicSet : stored[t] <= stored'[t]
      BY <1>1 DEF AllOK, FeedOK, Version
  <2> QED BY <1>1, <2>1, <2>2, NewerStep DEF DeliveryInv, NothingNewer
<1>10. InOrder'
  <2> SUFFICES ASSUME NEW i \in DOMAIN queue', NEW j \in DOMAIN queue',
                      NEW u \in TopicSet, i < j, Carries(i, u)', Carries(j, u)'
               PROVE  queue'[i].msg.version <= queue'[j].msg.version
      BY DEF InOrder
  <2>1. i + 1 \in DOMAIN queue /\ j + 1 \in DOMAIN queue /\ i + 1 < j + 1
      BY <1>4
  <2>2. Carries(i + 1, u) /\ Carries(j + 1, u)
      BY <1>8
  <2> QED BY <1>4, <2>1, <2>2 DEF DeliveryInv, InOrder
<1>11. \A u : Writing(u)' => x.kind = "broadcast" /\ writing' = <<x.msg>> /\ x.msg.topic = u
    BY <1>1, <1>3 DEF Writing
<1>12. ASSUME NEW u \in TopicSet PROVE LatestFollows(u)'
  <2>1. LatestFollows(u)
      BY DEF DeliveryInv
  <2>2. ASSUME BroadcastCmd(Latest(u)) \in Range(queue), x # BroadcastCmd(Latest(u))
        PROVE  (BroadcastCmd(Latest(u)) \in Range(queue))'
      BY <1>4, <1>5, <1>7, <2>2 DEF Range, x
  <2>3. ASSUME x = BroadcastCmd(Latest(u)) PROVE NothingOlder(u)'
    <3>1. Carries(1, u) /\ x.msg.version = stored[u] /\ x.msg.topic = u
        BY <2>3, CommandForms, LatestFields DEF Carries, x
    <3>2. ASSUME NEW i \in DOMAIN queue', Carries(i, u)'
          PROVE  queue'[i].msg.version = stored[u]
      <4>1. i + 1 \in DOMAIN queue /\ Carries(i + 1, u) /\ 1 < i + 1
          BY <1>4, <1>8, <3>2
      <4>2. stored[u] <= queue[i + 1].msg.version
          BY <1>2, <3>1, <4>1 DEF DeliveryInv, InOrder, x
      <4>3. /\ queue[i + 1].msg \in Message /\ Carried(queue[i + 1].msg)
            /\ queue[i + 1].msg.topic = u
          BY <4>1, ChannelCarries DEF AllOK
      <4>4. queue[i + 1].msg.version <= stored[u] /\ queue[i + 1].msg.version \in Nat
            /\ stored[u] \in Nat
          BY <4>3 DEF DeliveryInv, NothingNewer, Message, Version, AllOK, FeedOK
      <4>5. queue[i + 1].msg.version = stored[u]
          BY <4>2, <4>4
      <4> QED BY <1>4, <3>2, <4>5
    <3>3. Writing(u)' => writing'[1].version = stored[u]
        BY <1>11, <3>1
    <3> QED BY <1>1, <3>2, <3>3 DEF NothingOlder
  <2>4. ASSUME NothingOlder(u) PROVE NothingOlder(u)'
    <3>1. \A i \in DOMAIN queue' : Carries(i, u)' => queue'[i].msg.version = stored[u]
        BY <1>4, <1>8, <2>4 DEF NothingOlder
    <3>2. Writing(u)' => writing'[1].version = stored[u]
        BY <1>2, <1>11, <2>4 DEF NothingOlder, Carries, x
    <3> QED BY <1>1, <3>1, <3>2 DEF NothingOlder
  <2> QED BY <1>1, <2>1, <2>2, <2>3, <2>4 DEF LatestFollows
<1>13. ASSUME NEW c \in Clients, NEW u \in TopicSet, Listens(c)' PROVE Told(c, u)'
  <2>1. Listens(c) /\ Told(c, u) /\ hub' = "running"
      BY <1>1, <1>13 DEF DeliveryInv, Listens
  <2>2. c \notin Range(todo)
      BY <1>1 DEF Range
  <2>3. ASSUME NEW i \in DOMAIN queue, queue[i] = BroadcastCmd(Latest(u)), KnownAt(c, i)
        PROVE  Told(c, u)'
    <3>1. CASE i = 1
      <4>1. c \in connections
          BY <1>2, <2>3, <3>1 DEF KnownAt
      <4>2. x.kind = "broadcast" /\ x.msg = Latest(u)
          BY <2>3, <3>1, CommandForms DEF x
      <4>3. writing' = <<Latest(u)>> /\ todo' \in Orders(connections)
          BY <1>3, <4>2
      <4>4. Range(todo') = connections
          BY <4>3, OrderOfAll DEF AllOK, HubOK
      <4> QED BY <1>7, <4>1, <4>3, <4>4 DEF Told
    <3>2. CASE i # 1
      <4>1. i - 1 \in DOMAIN queue' /\ queue'[i - 1] = queue[i]
          BY <1>4, <1>5, <3>2
      <4>2. c \in connections \/ x = AddCmd(c) => c \in connections'
        <5>1. x.kind = "remove" => x.conn # c
          <6>1. SUFFICES ASSUME x.kind = "remove", x.conn = c PROVE FALSE
              OBVIOUS
          <6>2. x = RemoveCmd(c)
              BY <1>2, <6>1, CommandForms DEF Command, RemoveCmd
          <6>3. RemoveCmd(c) \in Range(queue)
              BY <1>2, <6>2 DEF Range, x
          <6> QED BY <2>1, <6>3 DEF IInv, Followed, Removed, Listens
        <5> QED BY <1>3, <2>1, <5>1, CommandForms
      <4>3. ASSUME NEW j \in DOMAIN queue, j < i, queue[j] = AddCmd(c), j # 1
            PROVE  j - 1 \in DOMAIN queue' /\ queue'[j - 1] = AddCmd(c) /\ j - 1 < i - 1
          BY <1>2, <1>4, <1>5, <4>3
      <4>4. AddCmd(c)' = AddCmd(c)
          BY CommandForms
      <4>5. KnownAt(c, i - 1)'
          BY <2>3, <4>2, <4>3, <4>4 DEF KnownAt, x
      <4> QED BY <1>7, <2>3, <4>1, <4>5 DEF Told
    <3> QED BY <3>1, <3>2
  <2> QED BY <1>1, <1>7, <2>1, <2>2, <2>3 DEF Told
<1> QED BY <1>9, <1>10, <1>12, <1>13 DEF DeliveryInv

-----------------------------------------------------------------------------
(* The steps that leave the feed and the channel alone, when what they take *)
(* from a client's sources they deliver to it.                             *)
LEMMA DeliveredStep ==
    ASSUME AllOK, AllOK', DeliveryInv,
           UNCHANGED <<stored, unsent, dropped, queue, hub, connections, writing>>,
           todo' # <<>> => todo # <<>>,
           \A m \in Message : Carried(m)' => Carried(m) \/ m.version <= stored[m.topic],
           \A c \in Clients, t \in TopicSet : /\ shown'[c][t] <= newest'[c][t]
                                              /\ newest'[c][t] <= stored[t],
           \A c \in Clients, t \in TopicSet : Listens(c)' => Told(c, t)'
    PROVE  DeliveryInv'
<1>1. NothingNewer'
  <2>1. \A t \in TopicSet : stored[t] <= stored'[t]
      BY DEF AllOK, FeedOK, Version
  <2>2. \A m \in Message : Carried(m)' => Carried(m) \/ m.version <= stored'[m.topic]
      OBVIOUS
  <2> QED BY <2>1, <2>2, NewerStep DEF DeliveryInv
<1>2. \A i, t : Carries(i, t)' <=> Carries(i, t)
    BY DEF Carries
<1>3. InOrder'
    BY <1>2 DEF DeliveryInv, InOrder
<1>4. ASSUME NEW t \in TopicSet PROVE LatestFollows(t)'
  <2>1. LatestFollows(t)
      BY DEF DeliveryInv
  <2>2. (BroadcastCmd(Latest(t)))' = BroadcastCmd(Latest(t))
      BY DEF BroadcastCmd, Latest
  <2>3. NothingOlder(t) => NothingOlder(t)'
      BY <1>2 DEF NothingOlder, Writing
  <2> QED BY <2>1, <2>2, <2>3 DEF LatestFollows
<1> QED BY <1>1, <1>3, <1>4 DEF DeliveryInv

(* What a client waits for in the channel it goes on waiting for.          *)
LEMMA ToldStays ==
    ASSUME UNCHANGED <<stored, unsent, dropped, queue, connections, writing>>,
           NEW c \in Clients, NEW t \in TopicSet, Told(c, t),
           newest[c][t] = stored[t] => newest'[c][t] = stored[t],
           \/ newest'[c][t] = stored[t]
           \/ /\ Latest(t) \in Range(outgoing[c]) => Latest(t) \in Range(outgoing'[c])
              /\ c \in Range(todo) /\ writing = <<Latest(t)>> => c \in Range(todo')
    PROVE  Told(c, t)'
<1>1. Latest(t)' = Latest(t) /\ BroadcastCmd(Latest(t))' = BroadcastCmd(Latest(t))
    BY DEF Latest, BroadcastCmd
<1>2. \A i : KnownAt(c, i) => KnownAt(c, i)'
    BY CommandForms DEF KnownAt
<1> QED BY <1>1, <1>2 DEF Told

LEMMA HubWriteDelivery ==
    ASSUME NEW d \in Clients, AllOK, AllOK', DeliveryInv, HubWrite(d)
    PROVE  DeliveryInv'
<1> DEFINE m == writing[1]
           rest == Tail(todo)
<1>1. /\ hub = "running" /\ todo # <<>> /\ Head(todo) = d /\ todo' = rest
      /\ Receive(d, m)
      /\ UNCHANGED <<stored, unsent, dropped, queue, hub, connections, writing,
                     socket, pc, outgoing>>
    BY DEF HubWrite, feed, net, opening
<1>2. m \in Message /\ m \in Range(writing)
    BY <1>1 DEF AllOK, HubOK, Range
<1>3. /\ Range(rest) \subseteq Range(todo)
      /\ \A y \in Range(todo) : y = d \/ y \in Range(rest)
    BY <1>1, TailRange DEF AllOK, HubOK
<1>4. writing = <<Latest(m.topic)>> => m.version = stored[m.topic]
    BY LatestFields
<1>5. \A t : writing = <<Latest(t)>> => t = m.topic /\ m.version = stored[t]
    BY LatestFields
<1> HIDE DEF m, rest
<1>6. NothingNewer /\ Carried(m)
    BY <1>2 DEF DeliveryInv, Carried
<1>7. /\ \A c \in Clients, t \in TopicSet : /\ shown'[c][t] <= newest'[c][t]
                                            /\ newest'[c][t] <= stored[t]
      /\ \A c \in Clients, t \in TopicSet :
             newest[c][t] = stored[t] => newest'[c][t] = stored[t]
      /\ socket[d] = "open" /\ m.version = stored[m.topic]
             => newest'[d][m.topic] = stored[m.topic]
    BY <1>1, <1>2, <1>6, ReceiveCarried
<1>8. \A n \in Message : Carried(n)' => Carried(n)
    BY <1>1, CommandForms DEF Carried
<1>9. ASSUME NEW c \in Clients, NEW t \in TopicSet, Listens(c)' PROVE Told(c, t)'
  <2>1. Told(c, t) /\ socket[c] = "open"
      BY <1>1, <1>9 DEF DeliveryInv, Listens
  <2>2. \/ newest'[c][t] = stored[t]
        \/ c \in Range(todo) /\ writing = <<Latest(t)>> => c \in Range(todo')
      BY <1>1, <1>3, <1>5, <1>7, <2>1
  <2> QED BY <1>1, <1>7, <2>1, <2>2, ToldStays
<1> QED BY <1>1, <1>7, <1>8, <1>9, DeliveredStep

LEMMA OnOpenSnapshotDelivery ==
    ASSUME NEW d \in Clients, AllOK, AllOK', DeliveryInv, OnOpenSnapshot(d)
    PROVE  DeliveryInv'
<1>1. /\ outgoing' = [outgoing EXCEPT ![d] = Snapshot] /\ pc' = [pc EXCEPT ![d] = "write"]
      /\ UNCHANGED <<stored, unsent, dropped, queue, hub, connections, writing,
                     todo, socket, shown, newest>>
    BY DEF OnOpenSnapshot, feed, hubVars, net, page
<1>2. /\ \A c \in Clients : outgoing'[c] = (IF c = d THEN Snapshot ELSE outgoing[c])
      /\ \A c \in Clients : c # d => pc'[c] = pc[c]
    BY <1>1 DEF AllOK, ConnOK
<1>3. \A y : y \in Range(Snapshot) <=> \E t \in TopicSet : y = Latest(t)
    BY SnapshotType DEF AllOK, Range, TopicSet, Snapshot
<1>4. ASSUME NEW m \in Message, Carried(m)'
      PROVE  Carried(m) \/ m.version <= stored[m.topic]
  <2>1. m.topic \in TopicSet /\ stored[m.topic] \in Nat
      BY DEF Message, AllOK, FeedOK, Version
  <2>2. m \in Range(Snapshot) => m.version <= stored[m.topic]
      BY <1>3, <2>1, LatestFields
  <2> QED BY <1>1, <1>2, <1>4, <2>2, CommandForms DEF Carried
<1>5. ASSUME NEW c \in Clients, NEW t \in TopicSet, Listens(c)' PROVE Told(c, t)'
  <2>1. CASE c = d
    <3>1. Latest(t)' = Latest(t)
        BY <1>1 DEF Latest
    <3> QED BY <1>2, <1>3, <2>1, <3>1 DEF Told
  <2>2. CASE c # d
    <3>1. Told(c, t) /\ outgoing'[c] = outgoing[c]
        BY <1>1, <1>2, <1>5, <2>2 DEF DeliveryInv, Listens
    <3> QED BY <1>1, <3>1, ToldStays
  <2> QED BY <2>1, <2>2
<1> QED BY <1>1, <1>4, <1>5, DeliveredStep DEF DeliveryInv, NothingNewer

LEMMA OnOpenWriteDelivery ==
    ASSUME NEW d \in Clients, AllOK, AllOK', DeliveryInv, OnOpenWrite(d),
           outgoing[d] # <<>>
    PROVE  DeliveryInv'
<1> DEFINE m == Head(outgoing[d])
           rest == Tail(outgoing[d])
<1>1. /\ outgoing' = [outgoing EXCEPT ![d] = rest] /\ UNCHANGED pc
      /\ UNCHANGED <<stored, unsent, dropped, queue, hub, connections, writing,
                     todo, socket>>
      /\ Receive(d, m) \/ (m.version = 0 /\ UNCHANGED <<shown, newest>>)
    BY DEF OnOpenWrite, feed, hubVars, net, page
<1>2. outgoing[d] \in Seq(Message)
    BY DEF AllOK, ConnOK
<1>3. /\ m \in Message /\ m \in Range(outgoing[d])
      /\ Range(rest) \subseteq Range(outgoing[d])
      /\ \A y \in Range(outgoing[d]) : y = m \/ y \in Range(rest)
    BY <1>2, HeadTailProperties, TailRange, RangeEquality
<1> HIDE DEF m, rest
<1>4. \A c \in Clients : outgoing'[c] = (IF c = d THEN rest ELSE outgoing[c])
    BY <1>1 DEF AllOK, ConnOK
<1>5. NothingNewer /\ Carried(m)
    BY <1>3 DEF DeliveryInv, Carried
<1>6. /\ \A c \in Clients, t \in TopicSet : /\ shown'[c][t] <= newest'[c][t]
                                            /\ newest'[c][t] <= stored[t]
      /\ \A c \in Clients, t \in TopicSet :
             newest[c][t] = stored[t] => newest'[c][t] = stored[t]
      /\ socket[d] = "open" /\ m.version = stored[m.topic]
             => newest'[d][m.topic] = stored[m.topic]
  <2>1. CASE Receive(d, m)
      BY <1>3, <1>5, <2>1, ReceiveCarried
  <2>2. CASE m.version = 0 /\ UNCHANGED <<shown, newest>>
    <3>1. m.topic \in TopicSet
        BY <1>3 DEF Message
    <3>2. newest[d][m.topic] \in Nat /\ newest[d][m.topic] <= stored[m.topic]
        BY <1>5, <3>1 DEF NothingNewer, AllOK, PageOK, Version
    <3> QED BY <1>5, <2>2, <3>2 DEF NothingNewer
  <2> QED BY <1>1, <2>1, <2>2
<1>7. \A n \in Message : Carried(n)' => Carried(n)
    BY <1>1, <1>3, <1>4, CommandForms DEF Carried
<1>8. ASSUME NEW c \in Clients, NEW t \in TopicSet, Listens(c)' PROVE Told(c, t)'
  <2>1. Told(c, t) /\ socket[c] = "open"
      BY <1>1, <1>8 DEF DeliveryInv, Listens
  <2>2. Latest(t) = m => m.topic = t /\ m.version = stored[t]
      BY LatestFields
  <2>3. \/ newest'[c][t] = stored[t]
        \/ Latest(t) \in Range(outgoing[c]) => Latest(t) \in Range(outgoing'[c])
      BY <1>3, <1>4, <1>6, <2>1, <2>2
  <2> QED BY <1>1, <1>6, <2>1, <2>3, ToldStays
<1> QED BY <1>1, <1>6, <1>7, <1>8, DeliveredStep

-----------------------------------------------------------------------------
LEMMA InitDelivery == Init => DeliveryInv
<1> SUFFICES ASSUME Init PROVE DeliveryInv
    OBVIOUS
<1> USE DEF Init
<1>1. /\ Range(queue) = {} /\ DOMAIN queue = {} /\ Range(writing) = {}
      /\ \A c \in Clients : Range(outgoing[c]) = {}
    BY DEF Range
<1>2. \A t \in TopicSet : Nothing[t] = 0
    BY DEF Nothing
<1>3. NothingNewer
    BY <1>1, <1>2 DEF NothingNewer, Carried
<1>4. InOrder /\ \A t \in TopicSet : LatestFollows(t)
    BY <1>1 DEF InOrder, LatestFollows, NothingOlder, Writing
<1>5. \A c \in Clients, t \in TopicSet : Told(c, t)
    BY <1>2 DEF Told
<1> QED BY <1>3, <1>4, <1>5 DEF DeliveryInv

LEMMA AsideFeed == Cancel \/ EndRun \/ EndFeed \/ UNCHANGED vars => Aside
<1> USE DEF run, feed, hubVars, net, opening, page, vars
<1>1. Cancel \/ EndFeed \/ UNCHANGED vars => Aside
    BY DEF Cancel, EndFeed, Aside, Listens
<1>2. EndRun => Aside
    BY CommandTypes, CommandForms DEF EndRun, Aside, Listens
<1> QED BY <1>1, <1>2

LEMMA AsideHub ==
    ASSUME AllOK, \/ HubCancelled \/ HubStop
                  \/ \E c \in Clients : HubClose(c)
    PROVE  Aside
<1> USE DEF run, feed, hubVars, net, opening, page
<1>1. HubCancelled \/ HubStop => Aside
    BY DEF HubCancelled, HubStop, Aside, Listens
<1>2. ASSUME NEW c \in Clients, HubClose(c) PROVE Aside
    BY <1>2 DEF HubClose, Aside, Listens
<1> QED BY <1>1, <1>2

LEMMA AsideConn ==
    ASSUME AllOK, NEW c \in Clients,
           \/ OnOpenAdd(c) \/ OnOpenHello(c) \/ OnClose(c) \/ Peer(c)
           \/ OnOpenWrite(c) /\ outgoing[c] = <<>>
    PROVE  Aside
<1> USE DEF run, feed, hubVars, net, opening, page
<1>0. /\ pc \in [Clients -> {"absent", "add", "hello", "snapshot", "write", "read", "gone"}]
      /\ socket \in [Clients -> {"absent", "open", "closed"}]
    BY DEF AllOK, ConnOK
<1>1. CASE OnOpenAdd(c)
  <2>1. \A d \in Clients : Listens(d)' => Listens(d)
      BY <1>0, <1>1 DEF OnOpenAdd, Listens
  <2>2. AddCmd(c) \in Command /\ AddCmd(c).kind # "broadcast"
      BY CommandTypes, CommandForms
  <2> QED BY <1>1, <2>1, <2>2 DEF OnOpenAdd, Aside
<1>2. CASE OnOpenHello(c)
  <2>1. \A d \in Clients : Listens(d)' => Listens(d)
      BY <1>0, <1>2 DEF OnOpenHello, Listens
  <2> QED BY <1>2, <2>1 DEF OnOpenHello, Aside
<1>3. CASE OnClose(c)
  <2>1. \A d \in Clients : Listens(d)' => Listens(d)
      BY <1>0, <1>3 DEF OnClose, Listens
  <2>2. RemoveCmd(c) \in Command /\ RemoveCmd(c).kind # "broadcast"
      BY CommandTypes, CommandForms
  <2> QED BY <1>3, <2>1, <2>2 DEF OnClose, Aside
<1>4. CASE Open(c)
  <2>1. \A d \in Clients : Listens(d)' => Listens(d)
      BY <1>0, <1>4 DEF Open, Listens
  <2> QED BY <1>4, <2>1 DEF Open, Aside
<1>5. CASE Stall(c) \/ Unstall(c)
    BY <1>5 DEF Stall, Unstall, Aside, Listens
<1>6. CASE Disconnect(c)
  <2>1. \A d \in Clients : Listens(d)' => Listens(d) /\ d # c
      BY <1>0, <1>6 DEF Disconnect, Listens
  <2>2. \A d \in Clients : d # c => newest'[d] = newest[d]
      BY <1>6 DEF Disconnect, Forget, AllOK, PageOK
  <2> QED BY <1>6, <2>1, <2>2 DEF Disconnect, Aside
<1>7. CASE OnOpenWrite(c) /\ outgoing[c] = <<>>
  <2>1. \A d \in Clients : Listens(d)' => Listens(d)
      BY <1>0, <1>7 DEF OnOpenWrite, Listens
  <2> QED BY <1>7, <2>1 DEF OnOpenWrite, Aside
<1> QED BY <1>1, <1>2, <1>3, <1>4, <1>5, <1>6, <1>7 DEF Peer

LEMMA NextDelivery == AllOK /\ IInv /\ DeliveryInv /\ [Next]_vars => DeliveryInv'
<1> SUFFICES ASSUME AllOK, IInv, DeliveryInv, [Next]_vars PROVE DeliveryInv'
    OBVIOUS
<1>0. AllOK'
    BY NextAllOK
<1>1. CASE Cancel \/ EndRun \/ EndFeed \/ UNCHANGED vars
    BY <1>0, <1>1, AsideFeed, AsideDelivery
<1>2. CASE Hub
    BY <1>0, <1>2, HubTakeDelivery, HubWriteDelivery, AsideHub, AsideDelivery DEF Hub
<1>3. ASSUME NEW t \in TopicSet, Store(t) \/ Broadcast(t) PROVE DeliveryInv'
    BY <1>0, <1>3, StoreDelivery, BroadcastDelivery
<1>4. ASSUME NEW c \in Clients, OnOpen(c) \/ OnClose(c) \/ Peer(c) PROVE DeliveryInv'
    BY <1>0, <1>4, OnOpenSnapshotDelivery, OnOpenWriteDelivery, AsideConn,
       AsideDelivery DEF OnOpen
<1> QED BY <1>1, <1>2, <1>3, <1>4 DEF Next

LEMMA AllInvariant == Spec => [](AllOK /\ IInv /\ DeliveryInv)
<1> QED BY InitAllOK, InitIInv, InitDelivery, NextAllOK, NextIInv, NextDelivery,
           PTL DEF Spec

LEMMA DeliverySuffices == DeliveryInv => NoUpdateMissed
<1> SUFFICES ASSUME DeliveryInv, NEW c \in Clients, NEW t \in TopicSet,
                    pc[c] \in {"write", "read"}, socket[c] = "open", hub = "running"
             PROVE  newest[c][t] = stored[t] \/ OnItsWay(c, t) \/ dropped[t]
    BY DEF NoUpdateMissed
<1>1. Told(c, t)
    BY DEF DeliveryInv, Listens
<1> QED BY <1>1 DEF Told, OnItsWay, Range

(* OnOpen adds the connection to the hub before it reads the snapshot, so  *)
(* whatever is published while a client connects, the latest state reaches *)
(* it or is on its way, or was dropped on a full channel.                  *)
THEOREM NothingIsMissed == Spec => []NoUpdateMissed
<1> QED BY AllInvariant, DeliverySuffices, PTL

(* Only the hub writes to a client whose OnOpen has returned: a step back  *)
(* is the write of an older broadcast, and the latest is behind it.        *)
LEMMA StepBack ==
    ASSUME AllOK, DeliveryInv, Next, NEW c \in Clients, NEW t \in TopicSet,
           pc[c] = "read", socket'[c] = "open", shown'[c][t] < shown[c][t]
    PROVE  NewerBehind(c, t)
<1>0. shown[c][t] \in Nat /\ shown[c][t] <= stored[t] /\ stored[t] \in Nat
  <2>1. /\ shown[c][t] \in Nat /\ newest[c][t] \in Nat /\ stored[t] \in Nat
        /\ shown[c][t] <= newest[c][t] /\ newest[c][t] <= stored[t]
      BY DEF AllOK, FeedOK, PageOK, Version, DeliveryInv, NothingNewer
  <2> QED BY <2>1
<1>1. shown'[c] # shown[c]
    BY <1>0
<1>2. ASSUME NEW d \in Clients, Disconnect(d) \/ HubClose(d) PROVE FALSE
  <2>1. d # c
      BY <1>2 DEF Disconnect, HubClose, AllOK, ConnOK
  <2> QED BY <1>1, <1>2, <2>1 DEF Disconnect, HubClose, Forget, AllOK, PageOK
<1>3. ASSUME NEW d \in Clients, OnOpenWrite(d) PROVE FALSE
  <2>1. d # c
      BY <1>3 DEF OnOpenWrite
  <2> QED BY <1>1, <1>3, <2>1 DEF OnOpenWrite, Receive, page, AllOK, PageOK
<1>4. PICK d \in Clients : HubWrite(d)
    BY <1>1, <1>2, <1>3
       DEF Next, Cancel, EndRun, EndFeed, Hub, HubTake, HubCancelled, HubStop,
           Store, Broadcast, OnOpen, OnOpenAdd, OnOpenHello, OnOpenSnapshot,
           OnClose, Peer, Open, Stall, Unstall, page
<1> DEFINE m == writing[1]
<1>5. /\ hub = "running" /\ todo # <<>> /\ Receive(d, m) /\ m \in Message
    BY <1>4 DEF HubWrite, AllOK, HubOK
<1>6. m.topic = t /\ m.version < shown[c][t]
  <2> HIDE DEF m
  <2>1. shown[d] \in [TopicSet -> Version] /\ shown \in [Clients -> [TopicSet -> Version]]
      BY DEF AllOK, PageOK
  <2>2. shown' = [shown EXCEPT ![d] = [shown[d] EXCEPT ![m.topic] = m.version]]
      BY <1>1, <1>5 DEF Receive, page
  <2>3. shown'[c][t] = (IF d = c /\ t = m.topic THEN m.version ELSE shown[c][t])
      BY <2>1, <2>2
  <2> QED BY <1>0, <2>3
<1>7. ~NothingOlder(t)
  <2>1. m.version \in Nat
      BY <1>5 DEF Message, Version
  <2> QED BY <1>0, <1>5, <1>6, <2>1 DEF NothingOlder, Writing
<1>8. t \in unsent \/ dropped[t] \/ BroadcastCmd(Latest(t)) \in Range(queue)
    BY <1>7 DEF DeliveryInv, LatestFollows
<1>9. \A i \in DOMAIN queue : queue[i] = BroadcastCmd(Latest(t)) =>
          /\ queue[i].kind = "broadcast" /\ queue[i].msg.topic = t
          /\ queue[i].msg.version >= shown[c][t]
    BY <1>0, CommandForms, LatestFields
<1> QED BY <1>8, <1>9 DEF NewerBehind, Range

(* After OnOpen a page goes back only when the hub writes a broadcast that *)
(* the snapshot overtook, and a broadcast as new as what the page showed   *)
(* is then behind it in the channel (hub.Run, OnOpen).                     *)
THEOREM PagesCatchUp == Spec => StepsBackAreRepaired
<1> DEFINE Repaired == \A c \in Clients, t \in TopicSet :
               pc[c] = "read" /\ socket'[c] = "open" /\ shown'[c][t] < shown[c][t]
                   => NewerBehind(c, t)
<1>1. AllOK /\ IInv /\ DeliveryInv /\ [Next]_vars => [Repaired]_page
  <2>1. AllOK /\ DeliveryInv /\ Next => Repaired
      BY StepBack
  <2>2. UNCHANGED vars => UNCHANGED page
      BY DEF vars
  <2> QED BY <2>1, <2>2
<1>2. Spec => [][Repaired]_page
    BY <1>1, AllInvariant, PTL DEF Spec
<1> QED BY <1>2 DEF StepsBackAreRepaired
=============================================================================

----------------------------- MODULE ClientSync -----------------------------
(***************************************************************************)
(* How the web server keeps the state its WebSocket clients show equal to  *)
(* its own (internal/server/server.go and hub.go).  processEvents stores   *)
(* each InfoEvent or ProgressEvent in the snapshot and then broadcasts it  *)
(* through the hub's command channel; the hub goroutine writes it to every *)
(* connection it knows; OnOpen, on a goroutine of each connection, adds    *)
(* the connection to the hub, greets it and writes it the snapshot.        *)
(*                                                                         *)
(* A Topic is a kind of message whose latest instance the snapshot keeps.  *)
(* A message is a topic and a version, the number of the event it encodes; *)
(* the test for equal JSON never hits, since each message carries its own  *)
(* time stamp.  A message is received when it has been written, since TCP  *)
(* keeps the order.  A Client is one connection: a reconnect is another.   *)
(***************************************************************************)
EXTENDS Naturals, Sequences, FiniteSets, Functions

CONSTANTS Clients,
          Idlers,       \* the clients that may stop reading
          Topics,       \* the topics in the order in which OnOpen writes them
          HubCapacity,  \* hubChanCapacity
          MaxVersion    \* bound on the number of events of a topic

TopicSet == Range(Topics)

ASSUME ClientSyncAssumption == /\ IsFiniteSet(Clients)
                               /\ Idlers \subseteq Clients
                               /\ Topics \in Seq(STRING)
                               /\ HubCapacity \in Nat \ {0}
                               /\ MaxVersion \in Nat

VARIABLES
  cancelled,    \* the context of Run is done
  server,       \* Run: "serving" or "ending"
  feeding,      \* processEvents has not returned
  stored,       \* the version of each topic in the snapshot, 0 when empty
  unsent,       \* the topic stored but not yet broadcast: at most one
  dropped,      \* history: the broadcast of the stored version was dropped
  queue,        \* hub.ch
  hub,          \* hub.Run: "running", "closing" or "stopped"
  connections,  \* hub.connections
  writing,      \* the broadcast the hub goroutine is writing
  todo,         \* the connections it has yet to write it to, or to close, in
                \* the order in which it ranges over the map
  socket,       \* of each client: "absent", "open" or "closed"
  stalled,      \* the clients that have stopped reading: writes to them block
  pc,           \* OnOpen: "absent", "add", "hello", "snapshot", "write",
                \* then "read" in the read loop and "gone" after OnClose
  outgoing,     \* what OnOpen has yet to write of the snapshot it took
  greeted,      \* the clients that have received hello
  shown,        \* the version each client received last, by topic
  newest        \* history: the newest version each client received, by topic

run     == <<cancelled, server>>
feed    == <<feeding, stored, unsent, dropped>>
hubVars == <<hub, connections, writing, todo>>
net     == <<socket, stalled>>
opening == <<pc, outgoing>>
page    == <<greeted, shown, newest>>
vars    == <<run, feed, queue, hubVars, net, opening, page>>

Version == 0 .. MaxVersion
Message == [topic : TopicSet, version : Version]
AddCmd(c) == [kind |-> "add", conn |-> c]
RemoveCmd(c) == [kind |-> "remove", conn |-> c]
BroadcastCmd(m) == [kind |-> "broadcast", msg |-> m]
ShutdownCmd == [kind |-> "shutdown"]
Command == {AddCmd(c) : c \in Clients} \cup {RemoveCmd(c) : c \in Clients}
           \cup {BroadcastCmd(m) : m \in Message} \cup {ShutdownCmd}

Nothing == [t \in TopicSet |-> 0]

Init == /\ cancelled = FALSE /\ server = "serving"
        /\ feeding = TRUE /\ stored = Nothing /\ unsent = {}
        /\ dropped = [t \in TopicSet |-> FALSE]
        /\ queue = <<>> /\ hub = "running" /\ connections = {}
        /\ writing = <<>> /\ todo = <<>>
        /\ socket = [c \in Clients |-> "absent"] /\ stalled = {}
        /\ pc = [c \in Clients |-> "absent"]
        /\ outgoing = [c \in Clients |-> <<>>]
        /\ greeted = {}
        /\ shown = [c \in Clients |-> Nothing]
        /\ newest = [c \in Clients |-> Nothing]

-----------------------------------------------------------------------------
(* The context is cancelled: a signal, or another service has failed.      *)
Cancel == /\ ~cancelled
          /\ cancelled' = TRUE
          /\ UNCHANGED <<server, feed, queue, hubVars, net, opening, page>>

HasRoom == Len(queue) < HubCapacity

(* The non-blocking send of Remove, Broadcast and Shutdown.  Faulty        *)
(* variants: a send without a bound; one that overtakes what is waiting.   *)
PostUnbounded(cmd) == queue' = Append(queue, cmd)
PostFirst(cmd) == queue' = IF HasRoom THEN <<cmd>> \o queue ELSE queue
Post(cmd) == queue' = IF HasRoom THEN Append(queue, cmd) ELSE queue

(* Run sees the cancellation, or the listener or the file watcher fails.   *)
EndRun == /\ server = "serving"
          /\ server' = "ending"
          /\ Post(ShutdownCmd)
          /\ UNCHANGED <<cancelled, feed, hubVars, net, opening, page>>

(* handleInfoEvent, handleProgressEvent: s.state.Store(next).              *)
Store(t) == /\ feeding
            /\ unsent = {}
            /\ stored[t] < MaxVersion
            /\ stored' = [stored EXCEPT ![t] = @ + 1]
            /\ unsent' = {t}
            /\ dropped' = [dropped EXCEPT ![t] = FALSE]
            /\ UNCHANGED <<run, feeding, queue, hubVars, net, opening, page>>

(* Their s.hub.Broadcast(msg), which does not wait.                        *)
Broadcast(t) == /\ t \in unsent
                /\ unsent' = {}
                /\ Post(BroadcastCmd([topic |-> t, version |-> stored[t]]))
                /\ dropped' = [dropped EXCEPT ![t] = ~HasRoom]
                /\ UNCHANGED <<run, feeding, stored, hubVars, net, opening, page>>

(* processEvents returns: the context is done, or Run has returned and its *)
(* deferred Unsubscribe has closed the channel.                            *)
EndFeed == /\ feeding /\ unsent = {}
           /\ cancelled \/ server = "ending"
           /\ feeding' = FALSE
           /\ UNCHANGED <<run, stored, unsent, dropped, queue, hubVars, net,
                          opening, page>>

-----------------------------------------------------------------------------
(* A write to a connection returns, perhaps with an error, unless the peer *)
(* has stopped reading and the connection is still open.                   *)
WriteReturns(c) == socket[c] = "open" => c \notin stalled

Later(a, b) == IF a < b THEN b ELSE a

Receive(c, m) ==
    IF socket[c] = "open"
    THEN /\ shown' = [shown EXCEPT ![c][m.topic] = m.version]
         /\ newest' = [newest EXCEPT ![c][m.topic] = Later(@, m.version)]
         /\ UNCHANGED greeted
    ELSE UNCHANGED page

(* What a connection that is closed has received is forgotten.             *)
Forget(c) == /\ greeted' = greeted \ {c}
             /\ shown' = [shown EXCEPT ![c] = Nothing]
             /\ newest' = [newest EXCEPT ![c] = Nothing]

(* The orders in which Go may range over a set of connections.             *)
Orders(conns) == {order \in [1 .. Cardinality(conns) -> conns] :
                     \A c \in conns : \E i \in DOMAIN order : order[i] = c}

(* hub.Run takes a command.                                                *)
HubTake ==
    /\ hub = "running" /\ todo = <<>>
    /\ queue # <<>>
    /\ queue' = Tail(queue)
    /\ LET cmd == Head(queue)
       IN  \/ /\ cmd.kind = "add"
              /\ connections' = connections \cup {cmd.conn}
              /\ UNCHANGED <<hub, writing, todo>>
           \/ /\ cmd.kind = "remove"
              /\ connections' = connections \ {cmd.conn}
              /\ UNCHANGED <<hub, writing, todo>>
           \/ /\ cmd.kind = "broadcast"
              /\ writing' = <<cmd.msg>>
              /\ todo' \in Orders(connections)
              /\ UNCHANGED <<hub, connections>>
           \/ /\ cmd.kind = "shutdown"
              /\ hub' = "closing"
              /\ todo' \in Orders(connections)
              /\ UNCHANGED <<connections, writing>>
    /\ UNCHANGED <<run, feed, net, opening, page>>

(* The write of a broadcast to one of the connections, whether it succeeds *)
(* or not.  Faulty variant: the loop ends after the first write.           *)
HubWriteFirst(c) == /\ hub = "running"
                    /\ todo # <<>> /\ Head(todo) = c
                    /\ WriteReturns(c)
                    /\ todo' = <<>>
                    /\ Receive(c, writing[1])
                    /\ UNCHANGED <<run, feed, queue, hub, connections, writing,
                                   net, opening>>
HubWrite(c) == /\ hub = "running"
               /\ todo # <<>> /\ Head(todo) = c
               /\ WriteReturns(c)
               /\ todo' = Tail(todo)
               /\ Receive(c, writing[1])
               /\ UNCHANGED <<run, feed, queue, hub, connections, writing, net,
                              opening>>

(* hub.Run sees that the context is done.  Faulty variants: it returns     *)
(* without closing anything; it only listens to the Shutdown command.      *)
HubAbandons == /\ hub = "running" /\ todo = <<>>
               /\ cancelled
               /\ hub' = "stopped"
               /\ UNCHANGED <<run, feed, queue, connections, writing, todo, net,
                              opening, page>>
HubAwaitsShutdown == FALSE /\ UNCHANGED vars
HubCancelled == /\ hub = "running" /\ todo = <<>>
                /\ cancelled
                /\ hub' = "closing"
                /\ todo' \in Orders(connections)
                /\ UNCHANGED <<run, feed, queue, connections, writing, net,
                               opening, page>>

(* WriteClose and Close on one of the connections.                         *)
HubClose(c) == /\ hub = "closing"
               /\ todo # <<>> /\ Head(todo) = c
               /\ WriteReturns(c)
               /\ todo' = Tail(todo)
               /\ socket' = [socket EXCEPT ![c] = "closed"]
               /\ Forget(c)
               /\ UNCHANGED <<run, feed, queue, hub, connections, writing,
                              stalled, opening>>

HubStop == /\ hub = "closing" /\ todo = <<>>
           /\ hub' = "stopped"
           /\ UNCHANGED <<run, feed, queue, connections, writing, todo, net,
                          opening, page>>

-----------------------------------------------------------------------------
(* handleWebSocket upgrades a request and its read loop calls OnOpen.      *)
Open(c) == /\ pc[c] = "absent"
           /\ server = "serving"
           /\ socket' = [socket EXCEPT ![c] = "open"]
           /\ pc' = [pc EXCEPT ![c] = "add"]
           /\ UNCHANGED <<run, feed, queue, hubVars, stalled, outgoing, page>>

(* OnOpen, step by step: hub.Add waits for room (faulty variant: it does   *)
(* not wait, as the other sends of the hub),                               *)
OnOpenTryAdd(c) == /\ pc[c] = "add"
                   /\ Post(AddCmd(c))
                   /\ pc' = [pc EXCEPT ![c] = "hello"]
                   /\ UNCHANGED <<run, feed, hubVars, net, outgoing, page>>
OnOpenAdd(c) == /\ pc[c] = "add"
                /\ HasRoom
                /\ Post(AddCmd(c))
                /\ pc' = [pc EXCEPT ![c] = "hello"]
                /\ UNCHANGED <<run, feed, hubVars, net, outgoing, page>>

(* the hello message is written, once the monitor has answered the question*)
(* for its capabilities, which may be never: no fairness of OnOpen,        *)
OnOpenHello(c) == /\ pc[c] = "hello"
                  /\ WriteReturns(c)
                  /\ greeted' = IF socket[c] = "open" THEN greeted \cup {c}
                                ELSE greeted
                  /\ pc' = [pc EXCEPT ![c] = "snapshot"]
                  /\ UNCHANGED <<run, feed, queue, hubVars, net, outgoing,
                                 shown, newest>>

(* the snapshot is read,                                                   *)
Latest(t) == [topic |-> t, version |-> stored[t]]
Snapshot == [i \in DOMAIN Topics |-> Latest(Topics[i])]

OnOpenSnapshot(c) == /\ pc[c] = "snapshot"
                     /\ outgoing' = [outgoing EXCEPT ![c] = Snapshot]
                     /\ pc' = [pc EXCEPT ![c] = "write"]
                     /\ UNCHANGED <<run, feed, queue, hubVars, net, page>>

(* and each topic it has is written, in order; then the connection enters  *)
(* its read loop.                                                          *)
OnOpenWrite(c) ==
    /\ pc[c] = "write"
    /\ \/ /\ outgoing[c] # <<>>
          /\ \/ /\ Head(outgoing[c]).version > 0
                /\ WriteReturns(c)
                /\ Receive(c, Head(outgoing[c]))
             \/ /\ Head(outgoing[c]).version = 0
                /\ UNCHANGED page
          /\ outgoing' = [outgoing EXCEPT ![c] = Tail(@)]
          /\ UNCHANGED pc
       \/ /\ outgoing[c] = <<>>
          /\ pc' = [pc EXCEPT ![c] = "read"]
          /\ UNCHANGED <<outgoing, page>>
    /\ UNCHANGED <<run, feed, queue, hubVars, net>>

(* OnClose, when the read loop finds the connection closed: hub.Remove.    *)
OnClose(c) == /\ pc[c] = "read"
              /\ socket[c] = "closed"
              /\ Post(RemoveCmd(c))
              /\ pc' = [pc EXCEPT ![c] = "gone"]
              /\ UNCHANGED <<run, feed, hubVars, net, outgoing, page>>

(* The peer goes away, stops reading, or reads again.                      *)

Disconnect(c) == /\ socket[c] = "open"
                 /\ socket' = [socket EXCEPT ![c] = "closed"]
                 /\ stalled' = stalled \ {c}
                 /\ Forget(c)
                 /\ UNCHANGED <<run, feed, queue, hubVars, opening>>

Stall(c) == /\ c \in Idlers /\ socket[c] = "open"
            /\ c \notin stalled
            /\ stalled' = stalled \cup {c}
            /\ UNCHANGED <<run, feed, queue, hubVars, socket, opening, page>>

Unstall(c) == /\ c \in stalled
              /\ stalled' = stalled \ {c}
              /\ UNCHANGED <<run, feed, queue, hubVars, socket, opening, page>>

-----------------------------------------------------------------------------
Hub == \/ HubTake \/ HubCancelled \/ HubStop
       \/ \E c \in Clients : HubWrite(c) \/ HubClose(c)
OnOpen(c) == OnOpenAdd(c) \/ OnOpenHello(c) \/ OnOpenSnapshot(c) \/ OnOpenWrite(c)
Peer(c) == Open(c) \/ Disconnect(c) \/ Stall(c) \/ Unstall(c)

Next == \/ Cancel \/ EndRun \/ EndFeed \/ Hub
        \/ \E t \in TopicSet : Store(t) \/ Broadcast(t)
        \/ \E c \in Clients : OnOpen(c) \/ OnClose(c) \/ Peer(c)

Spec == Init /\ [][Next]_vars

(* The publisher and the hub run, and a write that blocks goes on when its *)
(* peer reads again, even if it soon stops reading once more.  OnOpen may  *)
(* wait for the monitor for ever, and nothing is assumed of it or OnClose. *)
HubWrites == \E c \in Clients : HubWrite(c) \/ HubClose(c)
FairSpec == /\ Spec
            /\ WF_vars(Hub) /\ SF_vars(HubWrites)
            /\ \A t \in TopicSet : WF_vars(Broadcast(t))

(* No peer keeps its connection open for ever without reading from it.     *)
PeersRead == \A c \in Clients : WF_vars(Unstall(c))
LiveSpec == FairSpec /\ PeersRead

-----------------------------------------------------------------------------
TypeOK == /\ cancelled \in BOOLEAN /\ server \in {"serving", "ending"}
          /\ feeding \in BOOLEAN
          /\ stored \in [TopicSet -> Version]
          /\ unsent \in SUBSET TopicSet /\ Cardinality(unsent) <= 1
          /\ dropped \in [TopicSet -> BOOLEAN]
          /\ queue \in Seq(Command) /\ Len(queue) <= HubCapacity
          /\ hub \in {"running", "closing", "stopped"}
          /\ connections \in SUBSET Clients /\ todo \in Seq(connections)
          /\ writing \in Seq(Message)
          /\ socket \in [Clients -> {"absent", "open", "closed"}]
          /\ stalled \in SUBSET Clients
          /\ pc \in [Clients -> {"absent", "add", "hello", "snapshot", "write",
                                 "read", "gone"}]
          /\ outgoing \in [Clients -> Seq(Message)]
          /\ greeted \in SUBSET Clients
          /\ shown \in [Clients -> [TopicSet -> Version]]
          /\ newest \in [Clients -> [TopicSet -> Version]]

(* The latest version of t is on its way to client c: about to be          *)
(* broadcast, in the hub's channel, being written, or in c's snapshot.     *)
OnItsWay(c, t) ==
    \/ t \in unsent
    \/ \E i \in DOMAIN queue : queue[i] = BroadcastCmd(Latest(t))
    \/ hub = "running" /\ c \in Range(todo) /\ writing = <<Latest(t)>>
    \/ \E i \in DOMAIN outgoing[c] : outgoing[c][i] = Latest(t)

(* A client that connects while events are being published misses none of  *)
(* the latest state: from the moment OnOpen has read the snapshot, the     *)
(* newest version of a topic has reached the client or is on its way,      *)
(* unless Broadcast dropped it on a full channel or the hub is ending.     *)
(* This is why OnOpen adds the connection before it reads the snapshot.    *)
NoUpdateMissed ==
    \A c \in Clients, t \in TopicSet :
        pc[c] \in {"write", "read"} /\ socket[c] = "open" /\ hub = "running"
            => newest[c][t] = stored[t] \/ OnItsWay(c, t) \/ dropped[t]

(* When the hub has stopped, a connection is left open only if the hub     *)
(* never learned of it: its Add is still in the channel or was never sent. *)
KnownConnectionsClosed ==
    \A c \in Clients :
        hub = "stopped" /\ socket[c] = "open"
            => pc[c] = "add" \/ \E i \in DOMAIN queue : queue[i] = AddCmd(c)

(* After OnOpen, a page goes back to an older version only on the way to a *)
(* newer one: events that OnOpen's snapshot overtook are still delivered,  *)
(* in order, and what the page showed, or something newer, is behind them  *)
(* in the hub's channel or about to be broadcast (or it was dropped).      *)
NewerBehind(c, t) ==
    \/ t \in unsent \/ dropped[t]
    \/ \E i \in DOMAIN queue : /\ queue[i].kind = "broadcast"
                               /\ queue[i].msg.topic = t
                               /\ queue[i].msg.version >= shown[c][t]
StepsBackAreRepaired ==
    [][\A c \in Clients, t \in TopicSet :
          pc[c] = "read" /\ socket'[c] = "open" /\ shown'[c][t] < shown[c][t]
              => NewerBehind(c, t)]_page

(* Whoever is connected when a version is published receives it or a newer *)
(* one, unless it is dropped, the client goes away or the hub is ending.   *)
EveryoneIsTold ==
    \A c \in Clients, t \in TopicSet : \A v \in 1 .. MaxVersion :
        pc[c] = "read" /\ stored[t] = v
            ~> \/ newest[c][t] >= v \/ dropped[t]
               \/ socket[c] = "closed" \/ hub # "running"

(* Cancelling the context ends the hub goroutine, however many commands    *)
(* are waiting in its channel.                                             *)
HubEnds == cancelled ~> hub = "stopped"

(* README.md:22: "The page updates automatically whenever your media       *)
(* player changes tracks or playback state".                               *)
Settled(c, t) == /\ pc[c] = "read" /\ socket[c] = "open" /\ hub = "running"
                 /\ ~OnItsWay(c, t) /\ ~dropped[t]
PageIsUpToDate ==
    \A c \in Clients, t \in TopicSet : Settled(c, t) => shown[c][t] = stored[t]

(* CHANGELOG.md:18: "slow or misbehaving clients can no longer stall other *)
(* clients".                                                               *)
OthersAreServed ==
    \A c \in Clients, t \in TopicSet : \A v \in 1 .. MaxVersion :
        pc[c] = "read" /\ stored[t] = v
            ~> \/ newest[c][t] >= v \/ dropped[t] \/ c \in stalled
               \/ socket[c] = "closed" \/ cancelled \/ server = "ending"
=============================================================================

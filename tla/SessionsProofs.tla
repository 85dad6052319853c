--------------------------- MODULE SessionsProofs ---------------------------
(***************************************************************************)
(* The safety of Sessions for all sets of session objects, applications    *)
(* and lists.  The four properties and the types are inductive together:   *)
(* a switch removes one registration of the watched session, which must    *)
(* have one, and selects from a list, which must have an element.          *)
(***************************************************************************)
EXTENDS Sessions, TLAPS, WellFoundedInduction

(* Between the first enumeration and the end, and only then, a session is  *)
(* watched.                                                                *)
WatchesWhileRunning == phase \in {"starting", "ended"} => current = None

(* The demand of WatchesSelected on a watched session o, when a is selected*)
(* and list is the list.                                                   *)
Follows(o, a, list) ==
    \E i \in DOMAIN list :
        /\ list[i].object = o
        /\ a # None /\ IndexOf(a, list) # 0 => list[i].app = a

IInv == /\ TypeOK
        /\ WatchesWhileRunning
        /\ WatchesSelected
        /\ WatchedHasHandlers
        /\ ListIsSeen
        /\ NothingKnownUntold

-----------------------------------------------------------------------------
(* A set of positions in a list has a first one.                           *)
LEMMA FirstExists ==
    ASSUME NEW S, S \subseteq Nat, S # {}
    PROVE  \E i \in S : \A j \in S : i <= j
<1>1. PICK i \in S : \A j \in S : <<j, i>> \notin OpToRel(<, Nat)
  BY NatLessThanWellFounded, WFMin, Zenon
<1>2. \A j \in S : ~(j < i)
  <2>1. SUFFICES ASSUME NEW j \in S, j < i PROVE <<j, i>> \in OpToRel(<, Nat)
    BY <1>1
  <2>2. j \in Nat /\ i \in Nat
    OBVIOUS
  <2> QED BY <2>1, <2>2, Zenon DEF OpToRel
<1> QED BY <1>2

(* IndexOf finds a session of the application when the list has one.       *)
LEMMA IndexOfFinds ==
    ASSUME NEW a, NEW list \in Seq(Entry), IndexOf(a, list) # 0
    PROVE  /\ IndexOf(a, list) \in DOMAIN list
           /\ list[IndexOf(a, list)].app = a
<1> DEFINE found == {i \in DOMAIN list : list[i].app = a}
<1>1. found # {} /\ found \subseteq Nat
  BY DEF IndexOf
<1>2. \E i \in found : \A j \in found : i <= j
  BY <1>1, FirstExists
<1>3. IndexOf(a, list) \in found
  BY <1>1, <1>2 DEF IndexOf
<1> QED BY <1>3

(* It returns 0 only when the list has none.                               *)
LEMMA IndexOfMisses ==
    ASSUME NEW a, NEW list \in Seq(Entry), IndexOf(a, list) = 0
    PROVE  \A i \in DOMAIN list : list[i].app # a
<1> DEFINE found == {i \in DOMAIN list : list[i].app = a}
<1>1. found \subseteq Nat /\ 0 \notin found
  OBVIOUS
<1>2. CASE found = {}
  BY <1>2
<1>3. CASE found # {}
  <2>1. \E i \in found : \A j \in found : i <= j
    BY <1>1, <1>3, FirstExists
  <2>2. IndexOf(a, list) \in found
    BY <1>3, <2>1 DEF IndexOf
  <2> QED BY <1>1, <2>2
<1> QED BY <1>2, <1>3

(* The session applySessionList switches to is in the list, and is one of  *)
(* the selected application if the list has one.                           *)
LEMMA PreferredIsListed ==
    ASSUME NEW list \in Seq(Entry), list # <<>>
    PROVE  /\ Preferred(list) \in DOMAIN list
           /\ list[Preferred(list)].object \in Objects
           /\ Follows(list[Preferred(list)].object, selected, list)
<1>1. /\ Preferred(list) \in DOMAIN list
      /\ selected # None /\ IndexOf(selected, list) # 0 =>
             list[Preferred(list)].app = selected
  <2>1. CASE selected = None \/ IndexOf(selected, list) = 0
    BY <2>1 DEF Preferred
  <2>2. CASE selected # None /\ IndexOf(selected, list) # 0
    BY <2>2, IndexOfFinds DEF Preferred
  <2> QED BY <2>1, <2>2
<1>2. list[Preferred(list)] \in Entry
  BY <1>1
<1> QED BY <1>1, <1>2 DEF Follows, Entry

(* An object that is nothing has no handlers to remove; one that is watched*)
(* has those of its tokens.                                                *)
LEMMA WithoutTypes ==
    ASSUME TypeOK, WatchedHasHandlers, NEW removed \in SUBSET tokens
    PROVE  Without(handlers, removed) \in [Kinds -> [Objects -> Nat]]
<1>1. CASE current = None
  BY <1>1 DEF TypeOK, Without
<1>2. ASSUME current # None, NEW k \in Kinds
      PROVE  (IF k \in removed THEN [handlers[k] EXCEPT ![current] = @ - 1]
              ELSE handlers[k]) \in [Objects -> Nat]
  <2>1. handlers[k] \in [Objects -> Nat] /\ current \in Objects
    BY <1>2 DEF TypeOK
  <2>2. CASE k \in removed
    <3>1. handlers[k][current] \in Nat /\ handlers[k][current] > 0
      BY <1>2, <2>1, <2>2 DEF WatchedHasHandlers
    <3>2. handlers[k][current] - 1 \in Nat
      BY <3>1
    <3> QED BY <2>1, <2>2, <3>2
  <2>3. CASE k \notin removed
    BY <2>1, <2>3
  <2> QED BY <2>2, <2>3
<1> QED BY <1>1, <1>2 DEF Without

(* A switch leaves a handler of every kind with a token on the session it  *)
(* switches to.                                                            *)
LEMMA SwitchWatches ==
    ASSUME TypeOK, WatchedHasHandlers, NEW o \in Objects, Switch(o)
    PROVE  /\ handlers' \in [Kinds -> [Objects -> Nat]]
           /\ tokens' \subseteq Kinds /\ current' = o
           /\ \A k \in tokens' : handlers'[k][o] > 0
<1>1. PICK removed \in SUBSET tokens, added \in SUBSET Kinds :
        handlers' = With(Without(handlers, removed), o, added) /\ tokens' = added
  BY DEF Switch, Removals, Rewatched
<1> DEFINE left == Without(handlers, removed)
<1>2. left \in [Kinds -> [Objects -> Nat]]
  BY WithoutTypes
<1>3. handlers' = With(left, o, added)
  BY <1>1
<1> HIDE DEF left
<1>4. ASSUME NEW k \in Kinds
      PROVE  /\ handlers'[k] \in [Objects -> Nat]
             /\ k \in added => handlers'[k][o] > 0
  <2>1. left[k] \in [Objects -> Nat] /\ left[k][o] \in Nat
    BY <1>2
  <2>2. CASE k \in added
    <3>1. handlers'[k] = [left[k] EXCEPT ![o] = @ + 1]
      BY <1>3, <2>2 DEF With
    <3> QED BY <2>1, <3>1
  <2>3. CASE k \notin added
    BY <1>3, <2>1, <2>3 DEF With
  <2> QED BY <2>2, <2>3
<1>5. handlers' = [k \in Kinds |-> handlers'[k]]
  BY <1>3 DEF With
<1>6. handlers' \in [Kinds -> [Objects -> Nat]]
  BY <1>4, <1>5
<1>7. tokens' \subseteq Kinds /\ current' = o
  BY <1>1 DEF Switch
<1> QED BY <1>1, <1>4, <1>6, <1>7

(* A command that is posted keeps the channel well typed, and either it or *)
(* whatever was waiting is in it.                                          *)
LEMMA PostKeeps ==
    ASSUME TypeOK, NEW cmd \in Command, Post(cmd)
    PROVE  /\ queue' \in Seq(Command) /\ Len(queue') <= QueueCapacity
           /\ Range(queue) \subseteq Range(queue')
           /\ HasRoom => cmd \in Range(queue')
<1>1. CASE HasRoom
  <2>1. queue' = Append(queue, cmd)
    BY <1>1 DEF Post
  <2>2. queue' \in Seq(Command) /\ Len(queue') <= QueueCapacity
    BY <1>1, <2>1, SessionsAssumption DEF TypeOK, HasRoom
  <2>3. \A i \in DOMAIN queue : i \in DOMAIN queue' /\ queue'[i] = queue[i]
    BY <2>1 DEF TypeOK
  <2>4. Len(queue) + 1 \in DOMAIN queue' /\ queue'[Len(queue) + 1] = cmd
    BY <2>1 DEF TypeOK
  <2> QED BY <2>2, <2>3, <2>4 DEF Range
<1>2. CASE ~HasRoom
  BY <1>2 DEF Post, TypeOK
<1> QED BY <1>1, <1>2

(* Taking a command from the channel keeps the others in it.               *)
LEMMA TailKeeps ==
    ASSUME TypeOK, queue # <<>>
    PROVE  /\ Head(queue) \in Command
           /\ Tail(queue) \in Seq(Command) /\ Len(Tail(queue)) <= QueueCapacity
           /\ \A c \in Range(queue) : c = Head(queue) \/ c \in Range(Tail(queue))
<1>1. /\ Head(queue) \in Command /\ Tail(queue) \in Seq(Command)
      /\ Len(Tail(queue)) <= QueueCapacity
  BY SessionsAssumption DEF TypeOK
<1>2. ASSUME NEW c \in Range(queue), c # Head(queue)
      PROVE  c \in Range(Tail(queue))
  <2>1. PICK i \in DOMAIN queue : c = queue[i]
    BY <1>2 DEF Range
  <2>2. i \in 1 .. Len(queue) /\ i # 1
    BY <1>2, <2>1 DEF TypeOK
  <2>3. i - 1 \in DOMAIN Tail(queue) /\ Tail(queue)[i - 1] = c
    BY <2>1, <2>2 DEF TypeOK
  <2> QED BY <2>3 DEF Range
<1> QED BY <1>1, <1>2

-----------------------------------------------------------------------------
(* What enumerateSessions makes of Windows' list is a list of entries.     *)
LEMMA AnswersAreLists ==
    ASSUME TypeOK, NEW list \in GetSessions
    PROVE  list \in Seq(Entry)
<1>1. listed \in Seq(Objects)
  BY SessionsAssumption DEF TypeOK
<1>2. PICK pick \in Picks(Len(listed)) :
        \E readable \in SUBSET DOMAIN pick : list = Answer(pick, readable)
  BY DEF GetSessions
<1> PICK readable \in SUBSET DOMAIN pick : list = Answer(pick, readable)
  BY <1>2
<1>3. PICK m \in 0 .. Len(listed) : pick \in [1 .. m -> 1 .. Len(listed)]
  BY <1>2 DEF Picks
<1>4. ASSUME NEW i \in 1 .. m
      PROVE  [Entries(listed)[pick[i]] EXCEPT
                 !.app = IF i \in readable THEN @ ELSE None] \in Entry
  <2>1. pick[i] \in DOMAIN listed /\ listed[pick[i]] \in Objects
    BY <1>1, <1>3
  <2>2. Entries(listed)[pick[i]] = [object |-> listed[pick[i]],
                                    app |-> AppOf[listed[pick[i]]]]
    BY <2>1 DEF Entries
  <2>3. AppOf[listed[pick[i]]] \in Apps
    BY <2>1, SessionsAssumption
  <2> QED BY <2>1, <2>2, <2>3 DEF Entry
<1>5. m \in Nat /\ Answer(pick, readable) \in [1 .. m -> Entry]
  BY <1>1, <1>3, <1>4 DEF Answer
<1> QED BY <1>2, <1>5

(* enumerateSessions, at the start or on a command, leaves the copy of the *)
(* list, the session watched and what was told in order.                   *)
LEMMA EnumerateKeeps ==
    ASSUME IInv, Enumerate
    PROVE  /\ sessions' \in Seq(Entry) /\ selected' = selected
           /\ current' \in Objects \cup {None}
           /\ tokens' \subseteq Kinds
           /\ handlers' \in [Kinds -> [Objects -> Nat]]
           /\ last' \in [position : Positions, status : Statuses]
           /\ progress' \in Report
           /\ unseen' \in BOOLEAN
           /\ current' = None <=> sessions' = <<>>
           /\ current' # None => Follows(current', selected, sessions')
           /\ current' # None => \A k \in tokens' : handlers'[k][current'] > 0
           /\ sessions' = Entries(listed) \/ unseen'
           /\ NothingKnownUntold'
<1>1. PICK list \in GetSessions :
        /\ sessions' = list
        /\ unseen' = (list # Entries(listed))
        /\ \/ /\ list = <<>>
              /\ current' = None
              /\ last' = Cleared
              /\ progress' = Nothing
              /\ UNCHANGED <<tokens, handlers>>
           \/ /\ list # <<>>
              /\ Switch(list[Preferred(list)].object)
              /\ UNCHANGED told
        /\ UNCHANGED selected
  BY DEF Enumerate
<1>2. list \in Seq(Entry)
  BY AnswersAreLists DEF IInv
<1>3. unseen' \in BOOLEAN /\ (sessions' = Entries(listed) \/ unseen')
  BY <1>1
<1>4. CASE list = <<>>
  <2>1. current' = None /\ last' = Cleared /\ progress' = Nothing
        /\ UNCHANGED <<tokens, handlers>>
    BY <1>1, <1>4
  <2>2. /\ last' \in [position : Positions, status : Statuses]
        /\ progress' \in Report
        /\ last'.status = "closed" /\ progress'.status = "closed"
    BY <2>1, SessionsAssumption
    DEF Cleared, Nothing, Report, Statuses, IInv, TypeOK
  <2> QED BY <1>1, <1>2, <1>3, <1>4, <2>1, <2>2
          DEF IInv, TypeOK, NothingKnownUntold
<1>5. CASE list # <<>>
  <2> DEFINE o == list[Preferred(list)].object
  <2>1. o \in Objects /\ o # None /\ Follows(o, selected, list)
    BY <1>2, <1>5, PreferredIsListed, SessionsAssumption
  <2>2. Switch(o) /\ UNCHANGED told
    BY <1>1, <1>5
  <2> HIDE DEF o
  <2>3. /\ handlers' \in [Kinds -> [Objects -> Nat]] /\ tokens' \subseteq Kinds
        /\ current' = o /\ \A k \in tokens' : handlers'[k][o] > 0
    BY <2>1, <2>2, SwitchWatches DEF IInv
  <2>4. /\ last' \in [position : Positions, status : Statuses]
        /\ progress' \in Report /\ NothingKnownUntold'
    BY <2>2 DEF told, IInv, TypeOK, NothingKnownUntold
  <2> QED BY <1>1, <1>2, <1>3, <1>5, <2>1, <2>3, <2>4
<1> QED BY <1>1, <1>4, <1>5

(* So does selectDevice with the session watched.                          *)
LEMMA SelectKeeps ==
    ASSUME IInv, phase = "running", NEW a \in Apps \cup {None}, Select(a)
    PROVE  /\ selected' = a
           /\ current' \in Objects \cup {None}
           /\ tokens' \subseteq Kinds
           /\ handlers' \in [Kinds -> [Objects -> Nat]]
           /\ current' = None <=> sessions = <<>>
           /\ current' # None => Follows(current', a, sessions)
           /\ current' # None => \A k \in tokens' : handlers'[k][current'] > 0
<1>1. sessions \in Seq(Entry)
  BY DEF IInv, TypeOK
<1>2. CASE IndexOf(a, sessions) # 0
  <2> DEFINE i == IndexOf(a, sessions)
             o == sessions[i].object
  <2>1. i \in DOMAIN sessions /\ sessions[i].app = a
    BY <1>1, <1>2, IndexOfFinds
  <2>2. sessions[i] \in Entry /\ sessions # <<>>
    BY <1>1, <2>1
  <2>3. o \in Objects /\ o # None
    BY <2>2, SessionsAssumption DEF Entry
  <2>4. Follows(o, a, sessions)
    BY <2>1 DEF Follows
  <2>5. Switch(o) /\ selected' = a
    BY <1>2 DEF Select
  <2> HIDE DEF o, i
  <2>6. /\ handlers' \in [Kinds -> [Objects -> Nat]] /\ tokens' \subseteq Kinds
        /\ current' = o /\ \A k \in tokens' : handlers'[k][o] > 0
    BY <2>3, <2>5, SwitchWatches DEF IInv
  <2> QED BY <2>2, <2>3, <2>4, <2>5, <2>6
<1>3. CASE IndexOf(a, sessions) = 0
  <2>1. selected' = a /\ UNCHANGED <<current, tokens, handlers>>
    BY <1>3 DEF Select
  <2>2. current # None => \E i \in DOMAIN sessions : sessions[i].object = current
    BY DEF IInv, WatchesSelected
  <2>3. current # None => Follows(current, a, sessions)
    BY <1>3, <2>2 DEF Follows
  <2> QED BY <2>1, <2>3 DEF IInv, TypeOK, WatchesSelected, WatchedHasHandlers
<1> QED BY <1>2, <1>3

(* And readTimelineAndProgress with what was told.                         *)
LEMMA ReadTimelineKeeps ==
    ASSUME IInv, ReadTimeline
    PROVE  /\ last' \in [position : Positions, status : Statuses]
           /\ progress' \in Report
           /\ NothingKnownUntold'
<1>1. CASE UNCHANGED told
  BY <1>1 DEF told, IInv, TypeOK, NothingKnownUntold
<1>2. ASSUME NEW r \in Report,
             \/ Same(r) /\ UNCHANGED told
             \/ ~Same(r) /\ last' = Point(r) /\ progress' = r
      PROVE  /\ last' \in [position : Positions, status : Statuses]
             /\ progress' \in Report
             /\ NothingKnownUntold'
  BY <1>2 DEF Same, Point, Report, told, IInv, TypeOK, NothingKnownUntold
<1> QED BY <1>1, <1>2 DEF ReadTimeline

-----------------------------------------------------------------------------
(* The invariant holds at first.                                           *)
LEMMA InvInit == Init => IInv
<1> SUFFICES ASSUME Init PROVE IInv
  OBVIOUS
<1>1. TypeOK
  <2>1. Nothing \in Report /\ Point(Nothing) \in [position : Positions, status : Statuses]
    BY SessionsAssumption DEF Nothing, Point, Report, Statuses
  <2>2. queue \in Seq(Command) /\ Len(queue) <= QueueCapacity /\ sessions \in Seq(Entry)
    BY SessionsAssumption DEF Init
  <2> QED BY <2>1, <2>2, SessionsAssumption DEF Init, TypeOK
<1>2. WatchesWhileRunning /\ WatchesSelected /\ WatchedHasHandlers
  BY DEF Init, WatchesWhileRunning, WatchesSelected, WatchedHasHandlers
<1>3. ListIsSeen /\ NothingKnownUntold
  BY DEF Init, ListIsSeen, NothingKnownUntold, Point, Nothing
<1> QED BY <1>1, <1>2, <1>3 DEF IInv

(* An action that only posts commands keeps it, provided that a change of  *)
(* the list is posted, dropped or missed.                                  *)
LEMMA PostsKeepInv ==
    ASSUME IInv, UNCHANGED <<phase, watch, told>>, hears' \in BOOLEAN,
           queue' \in Seq(Command), Len(queue') <= QueueCapacity,
           Range(queue) \subseteq Range(queue'),
           listed' \in Lists, unseen' \in BOOLEAN, unseen => unseen',
           listed' = listed \/ SessionsCmd \in Range(queue') \/ unseen'
    PROVE  IInv'
<1>1. TypeOK'
  BY DEF IInv, TypeOK, watch, told
<1>2. WatchesWhileRunning' /\ WatchesSelected' /\ WatchedHasHandlers'
  BY DEF IInv, WatchesWhileRunning, WatchesSelected, WatchedHasHandlers, watch,
         IndexOf
<1>3. ListIsSeen' /\ NothingKnownUntold'
  BY DEF IInv, ListIsSeen, NothingKnownUntold, watch, told
<1> QED BY <1>1, <1>2, <1>3 DEF IInv

LEMMA ListChangesKeepsInv == IInv /\ ListChanges => IInv'
<1> SUFFICES ASSUME IInv, ListChanges PROVE IInv'
  OBVIOUS
<1>1. /\ listed' \in Lists /\ UNCHANGED <<phase, watch, told>>
      /\ hears' \in BOOLEAN
  BY DEF ListChanges, IInv, TypeOK
<1>2. CASE Post(SessionsCmd) /\ unseen' = (unseen \/ ~HasRoom)
  <2>1. /\ queue' \in Seq(Command) /\ Len(queue') <= QueueCapacity
        /\ Range(queue) \subseteq Range(queue')
        /\ HasRoom => SessionsCmd \in Range(queue')
    BY <1>2, PostKeeps DEF IInv, Command
  <2>2. HasRoom \in BOOLEAN /\ unseen \in BOOLEAN
    BY DEF HasRoom, IInv, TypeOK
  <2>3. /\ unseen' \in BOOLEAN /\ (unseen => unseen')
        /\ SessionsCmd \in Range(queue') \/ unseen'
    BY <1>2, <2>1, <2>2
  <2> QED BY <1>1, <2>1, <2>3, PostsKeepInv
<1>3. CASE unseen' = TRUE /\ UNCHANGED queue
  <2>1. queue' \in Seq(Command) /\ Len(queue') <= QueueCapacity
        /\ Range(queue) \subseteq Range(queue')
    BY <1>3 DEF IInv, TypeOK
  <2>2. unseen' \in BOOLEAN /\ (unseen => unseen') /\ unseen'
    BY <1>3
  <2> QED BY <1>1, <2>1, <2>2, PostsKeepInv
<1> QED BY <1>2, <1>3 DEF ListChanges

LEMMA PostingKeepsInv ==
    IInv /\ (PlaybackInfoChanged \/ \E a \in Apps \cup {None} : SelectDevice(a)) => IInv'
<1> SUFFICES ASSUME IInv, PlaybackInfoChanged \/ \E a \in Apps \cup {None} : SelectDevice(a)
             PROVE  IInv'
  OBVIOUS
<1>1. PICK cmd \in Command : Post(cmd) /\ UNCHANGED <<listed, phase, hears, watch, told, unseen>>
  BY DEF PlaybackInfoChanged, SelectDevice, Command
<1>2. /\ queue' \in Seq(Command) /\ Len(queue') <= QueueCapacity
      /\ Range(queue) \subseteq Range(queue')
  BY <1>1, PostKeeps DEF IInv
<1>3. /\ listed' \in Lists /\ unseen' \in BOOLEAN /\ (unseen => unseen')
      /\ listed' = listed /\ UNCHANGED <<phase, watch, told>> /\ hears' \in BOOLEAN
  BY <1>1 DEF IInv, TypeOK
<1> QED BY <1>2, <1>3, PostsKeepInv

(* Enumerating keeps it, whatever becomes of the channel.                  *)
LEMMA EnumerateKeepsInv ==
    ASSUME IInv, Enumerate, UNCHANGED <<listed, hears>>,
           phase' \in {"enumerated", "running"},
           queue' \in Seq(Command), Len(queue') <= QueueCapacity
    PROVE  IInv'
<1> USE EnumerateKeeps
<1>1. TypeOK'
  BY DEF IInv, TypeOK
<1>2. WatchesWhileRunning' /\ WatchedHasHandlers'
  BY DEF WatchesWhileRunning, WatchedHasHandlers
<1>3. IndexOf(selected', sessions') = IndexOf(selected, sessions')
  OBVIOUS
<1>4. WatchesSelected'
  BY <1>3 DEF WatchesSelected, Follows
<1>5. Entries(listed') = Entries(listed)
  BY DEF Entries
<1>6. ListIsSeen' /\ NothingKnownUntold'
  BY <1>5 DEF ListIsSeen
<1> QED BY <1>1, <1>2, <1>4, <1>6 DEF IInv

LEMMA FirstEnumerateKeepsInv == IInv /\ FirstEnumerate => IInv'
BY EnumerateKeepsInv DEF FirstEnumerate, IInv, TypeOK

LEMMA ExecuteSessionsKeepsInv == IInv /\ ExecuteSessions => IInv'
<1> SUFFICES ASSUME IInv, ExecuteSessions PROVE IInv'
  OBVIOUS
<1>1. Enumerate /\ UNCHANGED <<listed, hears>> /\ phase' = "running"
      /\ queue # <<>> /\ queue' = Tail(queue)
  BY DEF ExecuteSessions, Executes
<1> QED BY <1>1, TailKeeps, EnumerateKeepsInv DEF IInv

(* Another command leaves a waiting command to read the list in place.     *)
LEMMA OtherCommandKeepsListed ==
    ASSUME IInv, NEW kind, kind # "sessions", Executes(kind),
           UNCHANGED <<sessions, unseen>>
    PROVE  /\ queue' \in Seq(Command) /\ Len(queue') <= QueueCapacity
           /\ ListIsSeen'
<1>1. queue # <<>> /\ Head(queue) # SessionsCmd /\ queue' = Tail(queue)
      /\ UNCHANGED <<listed, phase, hears>>
  BY DEF Executes, SessionsCmd
<1>2. /\ queue' \in Seq(Command) /\ Len(queue') <= QueueCapacity
      /\ SessionsCmd \in Range(queue) => SessionsCmd \in Range(queue')
  BY <1>1, TailKeeps DEF IInv
<1> QED BY <1>1, <1>2 DEF IInv, ListIsSeen

LEMMA ExecuteSelectKeepsInv == IInv /\ ExecuteSelect => IInv'
<1> SUFFICES ASSUME IInv, ExecuteSelect PROVE IInv'
  OBVIOUS
<1> DEFINE a == Head(queue).app
<1>1. Executes("select") /\ Select(a) /\ UNCHANGED <<sessions, told, unseen>>
  BY DEF ExecuteSelect, Select
<1>2. phase = "running" /\ UNCHANGED <<listed, phase, hears>> /\ queue # <<>>
      /\ Head(queue).kind = "select"
  BY <1>1 DEF Executes
<1>3. a \in Apps \cup {None}
  BY <1>2, TailKeeps DEF IInv, Command, SessionsCmd, PlaybackCmd, SelectCmd
<1>4. /\ queue' \in Seq(Command) /\ Len(queue') <= QueueCapacity
      /\ ListIsSeen'
  BY <1>1, OtherCommandKeepsListed
<1> HIDE DEF a
<1> USE <1>1, <1>2, <1>3, SelectKeeps
<1>5. TypeOK'
  BY <1>4 DEF IInv, TypeOK, told
<1>6. WatchesWhileRunning' /\ WatchedHasHandlers'
  BY DEF WatchesWhileRunning, WatchedHasHandlers
<1>7. IndexOf(selected', sessions') = IndexOf(a, sessions)
  OBVIOUS
<1>8. WatchesSelected'
  BY <1>7 DEF WatchesSelected, Follows
<1>9. NothingKnownUntold'
  BY DEF IInv, NothingKnownUntold, told
<1> QED BY <1>4, <1>5, <1>6, <1>8, <1>9 DEF IInv

(* A reading of the timeline keeps it, by a command or by a tick.          *)
LEMMA ReadTimelineKeepsInv ==
    ASSUME IInv, ReadTimeline, UNCHANGED <<listed, phase, hears, watch, unseen>>,
           queue' \in Seq(Command), Len(queue') <= QueueCapacity, ListIsSeen'
    PROVE  IInv'
<1>1. TypeOK'
  BY ReadTimelineKeeps DEF IInv, TypeOK, watch
<1>2. WatchesWhileRunning' /\ WatchesSelected' /\ WatchedHasHandlers'
  BY DEF IInv, WatchesWhileRunning, WatchesSelected, WatchedHasHandlers, watch,
         IndexOf
<1> QED BY <1>1, <1>2, ReadTimelineKeeps DEF IInv

LEMMA ExecutePlaybackKeepsInv == IInv /\ ExecutePlayback => IInv'
<1> SUFFICES ASSUME IInv, ExecutePlayback PROVE IInv'
  OBVIOUS
<1>1. Executes("playback") /\ ReadTimeline
      /\ UNCHANGED <<listed, phase, hears, watch, unseen>>
  BY DEF ExecutePlayback, Executes
<1>2. /\ queue' \in Seq(Command) /\ Len(queue') <= QueueCapacity
      /\ ListIsSeen'
  BY <1>1, OtherCommandKeepsListed DEF watch
<1> QED BY <1>1, <1>2, ReadTimelineKeepsInv

LEMMA TickKeepsInv == IInv /\ Tick => IInv'
<1> SUFFICES ASSUME IInv, Tick PROVE IInv'
  OBVIOUS
<1>1. ReadTimeline /\ UNCHANGED <<listed, phase, queue, hears, watch, unseen>>
  BY DEF Tick
<1>2. /\ queue' \in Seq(Command) /\ Len(queue') <= QueueCapacity
      /\ ListIsSeen'
  BY <1>1 DEF IInv, TypeOK, ListIsSeen, watch
<1> QED BY <1>1, <1>2, ReadTimelineKeepsInv

LEMMA CleanupRunKeepsInv == IInv /\ CleanupRun => IInv'
<1> SUFFICES ASSUME IInv, CleanupRun PROVE IInv'
  OBVIOUS
<1>1. /\ handlers' \in [Kinds -> [Objects -> Nat]]
      /\ tokens' \subseteq Kinds
  BY WithoutTypes DEF IInv, TypeOK, CleanupRun, Removals
<1>2. TypeOK'
  BY <1>1 DEF IInv, TypeOK, CleanupRun, told
<1>3. /\ WatchesWhileRunning' /\ WatchesSelected' /\ WatchedHasHandlers'
      /\ ListIsSeen' /\ NothingKnownUntold'
  BY DEF IInv, CleanupRun, WatchesWhileRunning, WatchesSelected,
         WatchedHasHandlers, ListIsSeen, NothingKnownUntold, told
<1> QED BY <1>2, <1>3 DEF IInv

LEMMA SubscribeSessionsChangedKeepsInv ==
    IInv /\ SubscribeSessionsChanged => IInv'
<1> SUFFICES ASSUME IInv, SubscribeSessionsChanged PROVE IInv'
  OBVIOUS
<1>1. TypeOK'
  BY DEF IInv, TypeOK, SubscribeSessionsChanged, watch, told
<1>2. /\ WatchesWhileRunning' /\ WatchesSelected' /\ WatchedHasHandlers'
      /\ ListIsSeen' /\ NothingKnownUntold'
  BY DEF IInv, SubscribeSessionsChanged, WatchesWhileRunning, WatchesSelected,
         WatchedHasHandlers, ListIsSeen, NothingKnownUntold, IndexOf, watch, told
<1> QED BY <1>1, <1>2 DEF IInv

(* Every step keeps it.                                                    *)
LEMMA InvNext == IInv /\ [Next]_vars => IInv'
<1> SUFFICES ASSUME IInv, [Next]_vars PROVE IInv'
  OBVIOUS
<1>1. CASE UNCHANGED vars
  <2>1. UNCHANGED <<phase, watch, told>> /\ UNCHANGED <<hears, listed, queue, unseen>>
    BY <1>1 DEF vars
  <2> QED BY <2>1, PostsKeepInv DEF IInv, TypeOK
<1> QED
  BY <1>1, ListChangesKeepsInv, PostingKeepsInv, FirstEnumerateKeepsInv,
     SubscribeSessionsChangedKeepsInv, ExecuteSessionsKeepsInv,
     ExecuteSelectKeepsInv, ExecutePlaybackKeepsInv, TickKeepsInv,
     CleanupRunKeepsInv
  DEF Next, Loop

(* The invariant holds in every state, for every set of session objects,   *)
(* applications and lists and every capacity of the channel.               *)
LEMMA SessionsInv == Spec => []IInv
BY InvInit, InvNext, PTL DEF Spec

-----------------------------------------------------------------------------
(* Every variable of the monitor keeps its type.                           *)
THEOREM SessionsTypes == Spec => []TypeOK
<1>1. IInv => TypeOK BY DEF IInv
<1> QED BY <1>1, SessionsInv, PTL

(* Whatever lists and selections come in whatever order, the monitor       *)
(* watches a session of its list, and the selected one if it is listed.    *)
THEOREM MonitorWatchesSelected == Spec => []WatchesSelected
<1>1. IInv => WatchesSelected BY DEF IInv
<1> QED BY <1>1, SessionsInv, PTL

(* The registrations left on sessions that went, and those moved by every  *)
(* switch, never take from the watched session a handler whose token is    *)
(* stored, whichever registrations and removals fail.                      *)
THEOREM MonitorHearsWatched == Spec => []WatchedHasHandlers
<1>1. IInv => WatchedHasHandlers BY DEF IInv
<1> QED BY <1>1, SessionsInv, PTL

(* A change of Windows' list is lost in the named ways only: on a full     *)
(* channel, without a registration, or in an incomplete reading.           *)
THEOREM MonitorSeesList == Spec => []ListIsSeen
<1>1. IInv => ListIsSeen BY DEF IInv
<1> QED BY <1>1, SessionsInv, PTL

(* The deduplication never takes for known what no event told.             *)
THEOREM ProgressIsTold == Spec => []NothingKnownUntold
<1>1. IInv => NothingKnownUntold BY DEF IInv
<1> QED BY <1>1, SessionsInv, PTL
=============================================================================

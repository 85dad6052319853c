------------------------------ MODULE Sessions ------------------------------
(***************************************************************************)
(* Which media session the SMTC monitor watches and what it tells about    *)
(* its progress (internal/smtc/session.go and playback.go, and the parts   *)
(* of smtc.go that start and end them).  Windows lists session objects,    *)
(* several of which may belong to one application; the user selects an     *)
(* application; the monitor keeps a copy of the list, watches one session, *)
(* holds event handlers on it and publishes ProgressEvents that differ     *)
(* from the last one.  Any call to Windows may fail; the code skips what   *)
(* it cannot read and goes on when a registration or a removal fails.      *)
(* What media properties do is the matter of MediaInfo.                    *)
(***************************************************************************)
EXTENDS Naturals, Sequences, FiniteSets, Functions

CONSTANTS Objects,       \* the session objects
          Apps,          \* the application ids a user may select
          AppOf,         \* the application of each object
          None,          \* no object; as a selection, the empty string
          Lists,         \* the lists of sessions Windows may report
          Kinds,         \* the property events a session is listened to for
          Positions,     \* the pairs (position, duration)
          Zero,          \* the pair of zeros, one of them
          Extras,        \* the triples (rate, shuffle, repeat)
          NoExtra,       \* those of an event without a session, one of them
          QueueCapacity, \* cmdChanCapacity
          MaxHandlers    \* bound on the handlers a session may accumulate

ASSUME SessionsAssumption ==
    /\ AppOf \in [Objects -> Apps]
    /\ None \notin Objects \cup Apps
    /\ Lists \subseteq Seq(Objects) /\ <<>> \in Lists
    /\ "playback" \in Kinds
    /\ Zero \in Positions /\ NoExtra \in Extras
    /\ QueueCapacity \in Nat \ {0} /\ MaxHandlers \in Nat \ {0}

VARIABLES
  listed,     \* what Windows lists
  phase,      \* "starting", "enumerated" (not yet subscribed), "running", "ended"
  queue,      \* cmdChan
  hears,      \* a handler of SessionsChanged is registered
  sessions,   \* s.sessions and s.sessionObjects
  selected,   \* s.selectedAppID
  current,    \* s.currentSession
  tokens,     \* the kinds whose stored token is that of a registration
  handlers,   \* the number of registrations of a kind on each object
  last,       \* s.currentPosition and s.currentDuration, s.currentStatus
  progress,   \* the last ProgressEvent
  unseen      \* history: a change of the list was not queued, or not read

watch == <<sessions, selected, current, tokens, handlers>>
told  == <<last, progress>>
vars  == <<listed, phase, queue, hears, watch, told, unseen>>

(* An entry of the list; an id that cannot be read is the empty string.    *)
Entry == [object : Objects, app : Apps \cup {None}]
Entries(list) == [i \in DOMAIN list |-> [object |-> list[i], app |-> AppOf[list[i]]]]

Statuses == {"closed", "playing"}
Report == [position : Positions, status : Statuses, extra : Extras]
Nothing == [position |-> Zero, status |-> "closed", extra |-> NoExtra]
Point(r) == [position |-> r.position, status |-> r.status]

SessionsCmd == [kind |-> "sessions", app |-> None]
PlaybackCmd == [kind |-> "playback", app |-> None]
SelectCmd(a) == [kind |-> "select", app |-> a]
Command == {SessionsCmd, PlaybackCmd} \cup {SelectCmd(a) : a \in Apps \cup {None}}

Init == /\ listed \in Lists
        /\ phase = "starting" /\ queue = <<>>
        /\ hears = FALSE
        /\ sessions = <<>> /\ selected \in Apps \cup {None} /\ current = None
        /\ tokens = {} /\ handlers = [k \in Kinds |-> [o \in Objects |-> 0]]
        /\ last = Point(Nothing) /\ progress = Nothing
        /\ unseen = FALSE

HasRoom == Len(queue) < QueueCapacity
(* The non-blocking send.  Faulty variants: without a bound; and a command *)
(* dropped while another one waits, which is taken for the same.           *)
PostUnbounded(cmd) == queue' = Append(queue, cmd)
PostOnce(cmd) == queue' = IF queue = <<>> THEN <<cmd>> ELSE queue
Post(cmd) == queue' = IF HasRoom THEN Append(queue, cmd) ELSE queue

-----------------------------------------------------------------------------
(* Windows lists other sessions; the handler of SessionsChanged, if one is *)
(* registered, posts a command unless the channel is full.                 *)
ListChanges == /\ phase \in {"enumerated", "running"}
               /\ \A k \in Kinds, o \in Objects : handlers[k][o] < MaxHandlers
               /\ listed' \in Lists \ {listed}
               /\ \/ /\ hears
                     /\ Post(SessionsCmd)
                     /\ unseen' = (unseen \/ ~HasRoom)
                  \/ /\ ~hears
                     /\ unseen' = TRUE
                     /\ UNCHANGED queue
               /\ UNCHANGED <<phase, hears, watch, told>>

(* A session with a handler reports a change of its playback info.         *)
PlaybackInfoChanged == /\ \E o \in Objects : handlers["playback"][o] > 0
                       /\ HasRoom
                       /\ Post(PlaybackCmd)
                       /\ UNCHANGED <<listed, phase, hears, watch, told, unseen>>

(* SelectDevice, which waits for room.                                     *)
SelectDevice(a) == /\ HasRoom
                   /\ Post(SelectCmd(a))
                   /\ UNCHANGED <<listed, phase, hears, watch, told, unseen>>

-----------------------------------------------------------------------------
(* The first entry of an application in a list, 0 when there is none.      *)
IndexOf(a, list) ==
    LET found == {i \in DOMAIN list : list[i].app = a}
    IN  IF found = {} THEN 0 ELSE CHOOSE i \in found : \A j \in found : i <= j

(* unsubscribePropertyEvents, for the watched session and the kinds whose  *)
(* stored token is good; subscribePropertyEvents, for o and the kinds that *)
(* Windows accepts.                                                        *)
Without(counts, removed) ==
    IF current = None THEN counts
    ELSE [k \in Kinds |-> IF k \in removed
                          THEN [counts[k] EXCEPT ![current] = @ - 1] ELSE counts[k]]
With(counts, o, added) ==
    [k \in Kinds |-> IF k \in added
                     THEN [counts[k] EXCEPT ![o] = @ + 1] ELSE counts[k]]

(* Faulty variant: in reverse order, so that the tokens removed are those  *)
(* just stored.                                                            *)
SubscribedFirst(o, removed, added) ==
    IF current = None THEN With(handlers, o, added) ELSE handlers
Rewatched(o, removed, added) == With(Without(handlers, removed), o, added)

(* The removals that succeed.  One that fails is not noticed; MaxHandlers  *)
(* bounds how many do.                                                     *)
Removals == {removed \in SUBSET tokens :
                \A k \in tokens \ removed :
                    current = None \/ handlers[k][current] < MaxHandlers}

(* switchToSession: the errors of Add... and Remove... are ignored.        *)
Switch(o) == /\ \E removed \in Removals, added \in SUBSET Kinds :
                    /\ handlers' = Rewatched(o, removed, added)
                    /\ tokens' = added
             /\ current' = o

(* The index applySessionList switches to.  Faulty variant: always the     *)
(* first session.                                                          *)
First(list) == 1
Preferred(list) == IF selected = None \/ IndexOf(selected, list) = 0 THEN 1
                   ELSE IndexOf(selected, list)

(* fanOut(ProgressEvent) for the end of the last session.  Faulty variant: *)
(* the status stays what it was.                                           *)
StatusKept == last
Cleared == [last EXCEPT !.status = "closed"]

(* What enumerateSessions makes of the list: a failed GetSessions is taken *)
(* for an empty list, an entry that cannot be read or is dead is skipped.  *)
Picks(n) == UNION {{f \in [1 .. m -> 1 .. n] :
                       \A i, j \in 1 .. m : i < j => f[i] < f[j]} : m \in 0 .. n}
Answer(pick, readable) ==
    [i \in DOMAIN pick |-> [Entries(listed)[pick[i]] EXCEPT
                                !.app = IF i \in readable THEN @ ELSE None]]
GetSessions == UNION {{Answer(pick, readable) : readable \in SUBSET DOMAIN pick} :
                         pick \in Picks(Len(listed))}

(* enumerateSessions with applySessionList.  The handlers of the last      *)
(* session stay.                                                           *)
Enumerate ==
    \E list \in GetSessions :
        /\ sessions' = list
        /\ unseen' = (list # Entries(listed))
        /\ \/ /\ list = <<>>
              /\ current' = None
              /\ last' = Cleared
              /\ progress' = Nothing
              /\ UNCHANGED <<tokens, handlers>>
           \/ /\ list # <<>>
              /\ Switch(list[Preferred(list)].object)
              /\ UNCHANGED told
        /\ UNCHANGED selected

(* selectDevice: an application that is not listed is remembered.          *)
Select(a) == /\ selected' = a
             /\ \/ /\ IndexOf(a, sessions) # 0
                   /\ Switch(sessions[IndexOf(a, sessions)].object)
                \/ /\ IndexOf(a, sessions) = 0
                   /\ UNCHANGED <<current, tokens, handlers>>
             /\ UNCHANGED <<sessions, told, unseen>>

(* The test that keeps an event from being sent twice.                     *)
Same(r) == Point(r) = last

(* readTimelineAndProgress: no session, a session that cannot be read (it  *)
(* may be gone already), or a report.                                      *)
ReadTimeline ==
    \/ UNCHANGED told
    \/ /\ current # None
       /\ \E r \in Report :
            \/ Same(r) /\ UNCHANGED told
            \/ ~Same(r) /\ last' = Point(r) /\ progress' = r

-----------------------------------------------------------------------------
(* initSessionManager: the list is read first and the handler registered   *)
(* after that, whose error is ignored; or Run fails before.                *)
FirstEnumerate == /\ phase = "starting"
                  /\ phase' = "enumerated"
                  /\ Enumerate
                  /\ UNCHANGED <<listed, queue, hears>>

SubscribeSessionsChanged == /\ phase = "enumerated"
                            /\ phase' = "running"
                            /\ hears' \in BOOLEAN
                            /\ UNCHANGED <<listed, queue, watch, told, unseen>>

(* The loop of Run: a command, a tick, or the end with cleanupRun.         *)
Executes(kind) == /\ phase = "running"
                  /\ queue # <<>> /\ Head(queue).kind = kind
                  /\ queue' = Tail(queue)
                  /\ UNCHANGED <<listed, phase, hears>>

ExecuteSessions == Executes("sessions") /\ Enumerate
ExecuteSelect == Executes("select") /\ Select(Head(queue).app)
ExecutePlayback == Executes("playback") /\ ReadTimeline /\ UNCHANGED <<watch, unseen>>

Tick == /\ phase = "running"
        /\ ReadTimeline
        /\ UNCHANGED <<listed, phase, queue, hears, watch, unseen>>

CleanupRun == /\ phase = "running"
              /\ phase' = "ended"
              /\ \E removed \in Removals : handlers' = Without(handlers, removed)
              /\ tokens' = IF current = None THEN tokens ELSE {}
              /\ current' = None
              /\ hears' = FALSE
              /\ UNCHANGED <<listed, queue, sessions, selected, told, unseen>>

Loop == ExecuteSessions \/ ExecuteSelect \/ ExecutePlayback

Next == \/ ListChanges \/ PlaybackInfoChanged \/ \E a \in Apps \cup {None} : SelectDevice(a)
        \/ FirstEnumerate \/ SubscribeSessionsChanged
        \/ Loop \/ Tick \/ CleanupRun

Spec == Init /\ [][Next]_vars

-----------------------------------------------------------------------------
TypeOK == /\ listed \in Lists
          /\ phase \in {"starting", "enumerated", "running", "ended"}
          /\ queue \in Seq(Command) /\ Len(queue) <= QueueCapacity
          /\ hears \in BOOLEAN
          /\ sessions \in Seq(Entry)
          /\ selected \in Apps \cup {None}
          /\ current \in Objects \cup {None}
          /\ tokens \subseteq Kinds
          /\ handlers \in [Kinds -> [Objects -> Nat]]
          /\ last \in [position : Positions, status : Statuses]
          /\ progress \in Report
          /\ unseen \in BOOLEAN

(* While it runs the monitor watches a session it lists, or none when it   *)
(* lists none; and one listed under the id the user selected whenever      *)
(* there is one, in whatever order lists and selections come.              *)
WatchesSelected ==
    phase \in {"enumerated", "running"} =>
        /\ current = None <=> sessions = <<>>
        /\ current # None =>
             \E i \in DOMAIN sessions :
                 /\ sessions[i].object = current
                 /\ selected # None /\ IndexOf(selected, sessions) # 0 =>
                        sessions[i].app = selected

(* A stored token is that of a registration the watched session still has, *)
(* so that its events come and the next removal is the right one, although *)
(* handlers are moved by every switch, also to the same session, any       *)
(* registration or removal may fail, and those of a session that went with *)
(* the last list are never removed.  A kind that Windows refused has no    *)
(* token: its events are lost until the next switch.                       *)
WatchedHasHandlers == current # None => \A k \in tokens : handlers[k][current] > 0

(* The monitor's list is Windows' in full, or a command to read it is      *)
(* waiting, or a change was dropped on a full channel, came while no       *)
(* handler was registered (before the registration, or because it failed), *)
(* or the last reading was incomplete: GetSessions, an entry or the id of  *)
(* an entry could not be read.                                             *)
ListIsSeen ==
    phase \in {"enumerated", "running"} =>
        sessions = Entries(listed) \/ SessionsCmd \in Range(queue) \/ unseen

(* What the deduplication takes for known is what clients were told: the   *)
(* status always, the position unless the session is closed, since the end *)
(* of the last session tells position zero and leaves the old one in last. *)
NothingKnownUntold ==
    /\ last.status = progress.status
    /\ last.position = progress.position \/ last.status = "closed"
=============================================================================

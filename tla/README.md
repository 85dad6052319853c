# TLA+ verification of smtc-now-playing

smtc-now-playing is a Windows program that watches the System Media Transport
Controls (SMTC), and serves what is playing to browser pages over HTTP and
WebSocket.  This directory models its concurrent core in TLA+, checks it with
TLC on small instances and proves theorems about it with TLAPS.

    tlc -workers 2 -config MCEventFanout.cfg MCEventFanout.tla
    tlapm EventFanoutProofs.tla
    tlapm MediaInfoProofs.tla
    tlapm ControlPathProofs.tla
    tlapm SessionsProofs.tla
    tlapm ThemeClientProofs.tla
    tlapm WebSessionProofs.tla
    tlapm ClientSyncProofs.tla
    tlapm SettingsProofs.tla

Paths below are relative to the repository, line numbers refer to its sources.

## The system

| component | state | operations | interacts with |
|---|---|---|---|
| Event fan-out (`internal/smtc/smtc.go`) | subscriber list under `subsMu`, one buffered channel and one drop counter per subscriber | `Subscribe`, `Unsubscribe`, `fanOut`, `cleanupRun` | called by the monitor goroutine, the server, the settings window, `smtc-test` |
| Commands and controls (`smtc.go`, `control.go`) | `cmdChan` (32 commands), the loop of `Run` | `SelectDevice`, `Play` ... `SetRepeat`, `GetCapabilities`, the WinRT callbacks | every other goroutine posts commands, the monitor goroutine executes them |
| Media properties and cover art (`media.go`, `thumbnail.go`) | current artist/title, current properties, cached picture, retry count, retry timer | `handleMediaPropertiesChanged`, `retryThumbnailAndFireInfo`, `clearMediaInfo` | commands from callbacks and from the timer; publishes `InfoEvent` |
| Sessions and progress (`session.go`, `playback.go`) | session list under `mu`, selected device, current session, last position/duration/status | `enumerateSessions`, `selectDevice`, `switchToSession`, `readTimelineAndProgress` | WinRT events, the 200 ms ticker; publishes `SessionsChanged`, `DeviceChanged`, `ProgressEvent` |
| Web server (`internal/server/server.go`, `hub.go`) | atomic state snapshot; the hub's channel (64) and connection set; per connection a heartbeat time stamp | `processEvents`, `handleInfoEvent`, `handleProgressEvent`, hub `Add`/`Remove`/`Broadcast`/`Shutdown`, `OnOpen`, `OnClose`, `OnMessage`, `runHeartbeat` | a subscriber of the monitor; one goroutine per connection |
| HTTP API (`api.go`, `middleware.go`) | none | now-playing, sessions, capabilities, control, album art | reads the snapshot, calls the monitor |
| Wire protocol (`internal/wsproto`) | none | encoding of envelopes, `ParseEnvelope`, `ParseControl` | server, theme client |
| Theme client (`script/functions.js`, `themes/`) | socket, reconnect delay, playback state, transition and idle timers | message dispatch, reconnect | WebSocket |
| Configuration (`internal/config`) | the JSON file | `Load`, migration, `Save` | main, settings window |
| Settings window and tray (`internal/gui`, `internal/webview`) | widgets, the shown device list | message handlers on the UI thread, a bridge goroutine | a subscriber; calls `SelectDevice`, `Save` |
| Lifecycle (`cmd/smtc-now-playing`) | single-instance mutex, errgroup context | start and stop of the services | all |
| Update check (`internal/updater`) | none | `CheckForUpdate`, `compareVersions` | GitHub releases; a goroutine of the process |

What is hard: several goroutines publish, subscribe and close under one mutex;
WinRT callbacks and timers post commands that are dropped when the channel is
full and run late when it is not; a retry timer outlives the track that armed
it; a new connection is registered, greeted and brought up to date while events
are being broadcast to it; peers stop reading; everything can be cancelled at
any moment.  `PROJECT.json` lists these hazards line by line with the
properties that cover them.

What makes each component correct:

- fan-out: no panic on a closed channel, no stall, nothing lost uncounted, order;
- media: the announced track has its own picture or none; a new track is announced;
- commands: every caller gets an answer, nothing blocks for ever;
- sessions and progress: the shown session is one that exists, a change is published;
- server: no client misses the latest state, the hub ends and closes what it knows;
- theme client: the page converges to the last message, whatever its timers do;
- WebSocket connection: it times out when its client is silent and only then,
  and what the client asks with an id is acknowledged;
- configuration: the file is always one complete version, and a restart finds
  what was last set;
- settings: window, menu and preview agree on what runs, and the device that is
  chosen is the one that was shown.

## Modules

| module | models | checked by |
|---|---|---|
| `EventFeed` | abstract: a lossy, ordered, at-most-once feed | refined by `EventFanout` |
| `EventFanout` | the subscriber list | run `fanout`, `EventFanoutProofs` |
| `EventFanoutProofs` | theorems about it | TLAPS |
| `MediaInfo` | media properties, cover art, retries | runs `media`, `media_announced`, `MediaInfoProofs` |
| `MediaInfoProofs` | theorems about it, for any tracks and number of attempts | TLAPS |
| `ClientSync` | snapshot, hub, WebSocket connections | runs `client_sync*`, `ClientSyncProofs` |
| `ClientSyncProofs` | theorems about what clients receive and about the end of the hub, for any clients, topics and capacity | TLAPS |
| `ControlPath` | commands to the monitor, the end of the services and of the process | run `control_path`, `ControlPathProofs` |
| `ControlPathProofs` | theorems about it, for any requests and capacity | TLAPS |
| `Sessions` | session list, selection, watched session, progress | run `sessions`, `SessionsProofs` |
| `SessionsProofs` | theorems about it | TLAPS |
| `ThemeClient` | the browser page: socket, retries, messages and timers | run `theme_client`, `ThemeClientProofs` |
| `ThemeClientProofs` | theorems about it | TLAPS |
| `WebSession` | one WebSocket connection: heartbeat, incoming messages, acknowledgements | run `web_session`, `WebSessionProofs` |
| `WebSessionProofs` | theorems about it, for any interval and timeout | TLAPS |
| `ConfigStore` | the configuration file, its saves, crashes and launches | through `Settings`, `SettingsProofs` |
| `Settings` | settings window, tray menu, preview, device list, update check; extends `ConfigStore` | run `settings`, `SettingsProofs` |
| `SettingsProofs` | theorems about `ConfigStore`, that `Settings` implements it, and more about `Settings` | TLAPS |
| `MC...` | instances for TLC | |

### EventFanout

`channel`, `buffer`, `dropped` and `subscribers` are the fields of `Smtc` and
`subscriber`; `holder` and `todo` say which loop holds `subsMu` and whom it has
yet to visit, so that receives interleave with `fanOut` and `cleanupRun` (the
only code that runs outside the mutex).  `Subscribe` and `Unsubscribe` are
atomic, since each is one critical section.  `Run` may return before its loop,
and then `cleanupRun` is not called (`smtc.go:100-111`): `RunStart`.  `got`,
`joined` and `published` are history.  The slice of subscribers is a set: its
order decides only who is offered an event first within one critical section.
A name of `Subscribers` stands for one call of `Subscribe`.

### MediaInfo

The monitor goroutine takes a command (`Take`) and executes it (`Execute...`);
callbacks and timers only `Post`, and `Post` drops on a full channel.  A title
stands for artist and title, `Blank` for the pair of empty strings, which the
program cannot tell from "no track".  A picture is the song it belongs to and
its length, since the code compares lengths only.  A stream that holds no bytes
stands for all the ways in which `readThumbnail` returns nil.  `timer` is what
`thumbnailRetryTimer` points to; a retry sets the pointer to nil whatever it
points to, and the timer it loses goes to `orphans`.  Several orphans can be
armed at once.  The first enumeration of `initSessionManager` is a queued
`sessions` command.  Sessions come and go but there is at most one: which of
several is watched is the matter of `Sessions`.

### ClientSync

`stored` is the snapshot and `unsent` the message between `s.state.Store` and
`s.hub.Broadcast`.  `queue`, `connections` and `hub` are the hub; `todo` is the
rest of its loop over the connections, in an order fixed when the loop begins,
because a blocked write keeps the loop at that connection.  `pc` and `outgoing`
are the goroutine of a connection: `OnOpen` step by step, then the read loop,
then `OnClose`.  `stalled` is the set of peers that have stopped reading: gws
writes synchronously and without a deadline, so a write to such a peer blocks
until it reads again or its connection goes.  A message counts as received when
it is written.  The snapshot `OnOpen` takes has every topic, with version 0 for
one that nothing was stored for, which `OnOpenWrite` skips.  `OnOpenHello`
comes when the monitor has answered the question for its capabilities, which may
be never.  `shown` is what the page shows and `newest` is history.  The sessions message and hot reload go through the same hub and are not kept apart.
The equality test of `handleInfoEvent` is left out because `wsproto` stamps
every envelope with the current time.

### ControlPath

`queue` is `cmdChan` and a command is named for its sender.  A request of the
web server tries to send and then waits for its result channel (`Request`,
`Return`: `sendControl`, `GetCapabilities`); a callback or timer tries and gives
up (`PostEvent`); `SelectDevice` waits for room, and `sendq` is the send Go
keeps blocked on the channel, which takes the place that `Take` frees.
`answered` are the result channels that hold a result: they have room for one,
so that `Execute` does not wait.  What a command does to the session is left
out, since every wait for WinRT is bounded (`waitForAsync`).  `monitor`,
`server` and `window` are the services of the errgroup and `ctxDone` its
context: `Fail` is what an error returned by one of them does.  `httpSrv.Shutdown`
waits for the requests of HTTP handlers until its grace period is over; calls
made for WebSocket messages are not waited for, and a handler that is already
running may call the monitor at any time.  `CreateWindow` is `WmCreate`: it
leaves an `open` window, a `bare` one when the themes cannot be read
(`gui.go:224-228`), for which nothing will post WM_CLOSE, or a `fatal` one, a
message box before `os.Exit` (`gui.go:240-251`).

### Sessions

`listed` is what Windows reports and `sessions` the monitor's copy (`s.sessions`
and `s.sessionObjects`, always assigned together), whose entries carry the
application id that was read.  An application may have several session objects,
and `SelectDevice` names an application.  Every call to Windows may fail, in the
way the code deals with it: `GetSessions` gives any part of the list in its
order, since a failure is taken for an empty list and an entry that cannot be
had or is dead is skipped, and an id that cannot be read is the empty string
(`session.go:114-147`); `hears` says whether the registration for
`SessionsChanged` succeeded (line 103).  `handlers` counts the registrations of
each kind on each object, and `tokens` are the kinds whose stored token is that
of one: a switch removes those of the session watched until then and registers
anew, even on the same session, and the errors of both are ignored (lines
254-300); the end of the last session removes none.  `last` is what the deduplication of
`readTimelineAndProgress` compares with and `progress` the last `ProgressEvent`;
position and duration are one value because they are always compared and
assigned together, and so are rate, shuffle and repeat, which are never
compared.  `unseen` is history: a change of the list was not heard of, or the
last reading of it was incomplete.  `phase` separates the first enumeration from
the registration for `SessionsChanged`.

### ThemeClient

The variables have the names of `functions.js`; `retry`, `transitionTimer`,
`idleTimer` and `reloading` are armed timers, whose delays are left out, and
`animating` says that `rafId` is not null.  JavaScript runs one callback at a
time, so each is one action.  `shown`, `bar`, `transitioning` and `class` are
what the theme and the document were last told.  The callbacks of themes are
taken not to throw: `onmessage` would catch it, a timer would not.  The server is
external: `owed` are the messages on their way, and a message is published when
the one of its kind before it has arrived, so that the page sees every sequence
of messages although no queue is modelled.  `calm` is an assumption made
explicit: from then on nothing is published and no connection breaks.

### WebSession

One connection against a clock.  `hb` is the program counter of `runHeartbeat`,
`age` what `time.Since(lastPong)` returns, `wait` and `due` the ticker and its
channel of one.  `Elapse` is a unit of time, and passes only when the heartbeat
has done what is due: the server's own steps take no time, except that a write
to a client that does not read blocks, which is how `SendPing` and `TimeOut`
wait in `WriteReturns`.  A heartbeat that is blocked in its ping no longer looks
at the time, so that a client that has stopped reading is never timed out;
`NoSilentClient` therefore speaks of clients that read.  `pings` is the age of
each ping that is on its way, kept only while the client is `prompt`, since the
pongs of any other are free to come or not.  `OnOpen` may take any time, and for
ever: it stores the time (`server.go:378`), asks the monitor for its
capabilities (line 381), which waits behind the commands in `cmdChan`, and only
then starts the heartbeat.  `opened` is how long it took, as long as that counts
in the age of the last pong.  gws reads messages in parallel and every control runs on a
goroutine of its own, so that controls have no order.  The application-level
ping of a client is answered and changes nothing.

### ConfigStore

`file` and `temp` are the two files, `unsynced` those whose data a power failure
may spoil.  A save is `Save`, `CreateTemp`, `Encode`, `SyncAndClose`, `Rename`,
or `SaveFails` at any of them, so that the process can be killed or the power
fail in between.  A file is what it holds for each field, with `Bad` for a value
that does not decode; the flat format of version 1 is known by its top-level
port, and then a bad field is skipped instead of failing the load (`Parsed`).
The configuration is loaded before the single-instance mutex is taken
(`main.go:84-108`), hence `launched`: what a process has loaded that does not
yet know whether it may run, and whether it could read the file: when it is
there and cannot be read, `Load` fails and `main` goes on with the defaults
(`config.go:106-110`, `main.go:89-93`).  A second process never saves.  Loading the flat
format does not rewrite it; the next save does.

### Settings

The handlers of the window run on one thread.  Each is an action up to its
`Save`; the save goes on as the steps of `ConfigStore` (`ContinueSave`), in
which the thread handles nothing else, and `Resume` is the rest of the handler.
The tray menu has a message loop of its own: while it is open (`menu`) posted
messages are handled and the user can only choose from it, but it goes on
showing what was the case when it was opened.  `form` is what the widgets show,
`cfg` the configuration in use, and `Synced` what `syncConfig` makes of the two.
A port out of range enters `cfg`, and from then on `Validate` refuses every
save.  The monitor is external here and reduced to the list, the selected and
the watched application; `events` are the events in the bridge's channel
together with the messages it has posted, and either may lose one.  `missed`
says that one was lost since the list was last filled; events published before
the window subscribes are missed in this sense.  `wmSessionsChanged` and
`wmDeviceChanged` read the monitor's list when they are handled, not when they
were posted.  `CheckForUpdate` indexes the parts of a version without looking
how many there are, and a panic on its goroutine ends the process.  The
start-minimized and always-on-top boxes are saved as `autoStart` is and are left
out.

The modules meet at shared abstractions: `Sessions` and `MediaInfo` publish
what `EventFanout` distributes, `ClientSync` takes what a subscriber receives as
its events and delivers to a `Client` what `ThemeClient` receives, and
`ControlPath` holds the command channel whose capacity bounds `Sessions` and
`MediaInfo`.  `WebSession` is one of the `connections` of `ClientSync` seen from
the other direction, and its controls are the `Requests` of `ControlPath`.
`Settings` extends `ConfigStore`, makes the `SelectDevice` calls that
`ControlPath` blocks and `Sessions` executes, and is one more subscriber of
`EventFanout`.

## Runs

| run | bounds | shows |
|---|---|---|
| `fanout` | 2 subscribers with buffers of 2 and 1, 3 events | all properties of the fan-out |
| `media` | 2 songs and `Blank`, one picture length, channel of 2, 2 attempts, 2 retries alive | cover art and announcements |
| `media_announced` | the same | a comment of `media.go` the code does not meet |
| `client_sync` | 2 clients, one of which may stall, 1 topic with 2 versions, channel of 2 | what a client may rely on |
| `client_sync_live` | the same with 1 version and a channel of 1 | delivery and the end of the hub |
| `client_sync_stale`, `client_sync_stalled` | as the two above | two promises of README and CHANGELOG the code does not meet |
| `control_path` | 2 requests, one of them HTTP, channel of 3 | who is answered, and that the process ends |
| `sessions` | 3 objects of 2 applications, 4 lists of up to 2 and their parts, channel of 2, 1 kind of event, 2 handlers per object | the watched session and what is told of it |
| `theme_client` | 2 tracks, one with late art, 5 progress messages, delays 1 to 3 | what the page shows, now and in the end |
| `web_session` | a unit of 15 s: interval 2, timeout 6, answer 3; at most 10 units without a pong; 2 messages with an id | when a connection times out, and that controls are acknowledged |
| `settings` | 2 themes and 1 that is gone, 2 applications, 3 lists, 3 files found, 3 port texts, 3 acts, 2 events on their way, 1 selection the monitor has yet to execute | file, configuration, preview and device list agree |

Why the bounds are enough: a buffer of one is full while one of two still has
room; three events overflow the larger and leave one to order against.  Two
songs give the return to a song that a retry was armed for; one picture length
is the hard case for a deduplication by length; two attempts give a first and a
last one.  Two versions are what a stale snapshot needs, and two clients what
one needs to hold up another; only one of them may stall, the other is the one
it holds up.  A channel of three holds both requests and an event that
competes with them.  Two objects of one
application and one of another give lists with the selected application alone,
behind the other one, and twice; the two kinds of events are treated alike, one
after the other, and one stands for both.  `MaxHandlers` stops the history of a
state once a session has kept one registration too many.  Three info messages
give the late art of a track, a change of track and the return to the first; the
progress messages are each status, with and without rate and time stamp; three
delays give a doubling, the upper limit and the reset.  The times of
`web_session` are those of the code in units of fifteen seconds; an `OnOpen` of
one unit is then the longest that is not `Late` (1 + 2 + 3 = 6), and `MaxAge`
lets it take longer than the timeout and the client still be found silent
(7 + 2 < 10).  An act of `settings` is something the user does or a list the
players report; opening the menu and leaving it are not counted.  Three are
enough for a preview that is open from the start, closed in one way and opened
again in another, and for a list, the menu opened on it, another list, and a
choice from the menu.  Saves, their
failures, crashes, power failures and launches are not counted.

Fairness: the goroutine that holds a mutex, the monitor loop, the publisher and
the hub are scheduled (Go's scheduler is fair, and critical sections do not
wait); armed timers fire.  A blocked write goes on when the peer reads (`SF` on
the hub's writes).  Nothing is assumed of `OnOpen`, which may wait for the
monitor for ever.  In `ControlPath` the monitor has `SF` for the
end of its loop, because `select` chooses at random among the ready cases, so
that a channel that is never empty cannot hide the cancelled context for ever;
the grace period of `Shutdown` passes; the server ends once the context is done,
and so does a window that `WmCreate` has left open and that is not held in
`SelectDevice`, but not a bare one.  `WmCreate` itself returns.  In `ThemeClient` timers fire, messages on their way arrive,
and an attempt to connect succeeds once the connection is `calm`; a timer that
is armed anew again and again need not fire in the program, but nothing depends
on it: `PageSettles` speaks of what follows the last message only.  In
`WebSession` the goroutine of a control executes it and writes the
acknowledgement when it can: a call returns (`CallsReturn`) and Go schedules
it.  A connection whose time has reached `MaxAge` or that is closed may stop, so
that deadlock is not checked there.  Nothing is assumed of the media source, of
clients connecting or leaving, or of pictures becoming readable.  `LiveSpec`
adds that a peer does not stop reading for ever, which is not the server's to
guarantee: `client_sync_stalled` shows what happens without it.

## Disagreements between code and documentation

1. `media_announced`: `media.go:133-134` promises that the client always
   receives a new track; a retry dropped on a full `cmdChan` breaks it.  The
   checked invariant `UnannouncedIsPending` says that nothing else does.
2. `client_sync_stale`: `README.md:22` promises that the page follows; a page
   that connects while an event is published may stay on the one before it.
   `NoUpdateMissed` shows that the newer one did reach it, before the older.
3. `client_sync_stalled`: `CHANGELOG.md:18` promises that a slow client does not
   stall others; the hub waits in the write to it.

Met while modelling, and without a run of their own:

- `media.go:59-65` promises that the cover art of a song does not flicker; the
  last attempt of a retry (`media.go:144`) has no fallback on the cached
  picture.  `MediaInfo` has the behaviour.
- `media.go:199-203` promises that the next tick tells a change of rate, shuffle
  or repeat; `playback.go:114` compares position, duration and status only.
  `Sessions` has the behaviour.
- `README.md:82` describes `autoStart` as starting with Windows; the code presses
  Start when the window is created (`gui.go:286`).
- `config.go:106-110` tells a file that is missing from one that cannot be read,
  but `main.go:90-92` takes the defaults for both: after a read error the next
  save replaces a good file by the defaults with one change.  `Settings` has the
  behaviour; `FileIsInUse` names it as an exception.
- A client that answers every ping is closed, and never pinged, when `OnOpen`
  takes longer than the timeout less one interval, 60 s (`server.go:378-397`).
  `WebSession` has the behaviour (`Late`).
- When the themes cannot be read, the window is not told to close when a service
  fails, and the process stays until the user closes it (`gui.go:224-228`).
  `ControlPath` has the behaviour (`NobodyCloses`).
- A save is not under a mutex and does not create the directory of the file,
  as `CHANGELOG.md:46` says; only the UI thread saves, so that nothing is lost.

Some exceptions are part of properties that hold, and say what the code does not
promise.  `CallsReturn` excuses a call whose command is still in `cmdChan` when
`Run` returns, or that is made later: nobody answers it.  `ProcessEnds` excuses a
UI thread that waits in `SelectDevice` on a full channel when the monitor ends,
whose window cannot be destroyed so that `g.Wait` does not return, and a window
that is not told to close.  `WatchedHasHandlers` speaks of the kinds of events
that Windows accepted a handler for, and `ListIsSeen` excuses a list that was
read in part.  `TimeoutMeansSilence` excuses an `OnOpen` that took too long.
`FileIsInUse` excuses a save that failed, which every save does once a port out
of range was typed, a process that loaded the file before another one saved it,
and one that could not read it.  `PageSettles` excuses the progress bar of a
player whose rate is not above 0: no frame moves it.

## Proofs

`EventFanoutProofs` proves for any finite set of subscribers, any positive
capacities and any bound on events: type correctness, `NoPanic`,
`EveryEventAccountedFor`, and that `EventFanout` implements `EventFeed`.  The
assumptions are the three ASSUMEs of `EventFanout`.

- `Types` is `TypeOK` with the bounds the counters need.
- `ListInv` is inductive for `NoPanic`: the loop that holds the mutex has yet
  to visit only listed subscribers, listed channels are open except those
  `cleanupRun` has already closed, and nothing is closed under `fanOut`.
- `CountInv` relates received, waiting and dropped events to those published
  since the subscriber joined, with one event pending while `fanOut` runs.
- `OrderInv` says that what a subscriber received and what waits for it is
  increasing and bounded by `published`; the refinement needs it to show that a
  receive is a `FeedDeliver`.

`MediaInfoProofs` proves for any tracks, lengths of pictures, capacity and number
of attempts: type correctness, `ArtBelongsToSong` and `UnannouncedIsPending`.
The assumption is the ASSUME of `MediaInfo`.  `ArtIsCurrent` is what a retry
relies on: while there is a track, the properties and the picture it works with
are those of this track; it fails only when there is none, since the end of the
last session clears the track and leaves both.  The rest follows a command from
a timer (`Armed`) to the channel to its execution (`RetryAlive`): whatever a
stale retry does to the pointer, the timer it loses goes on as an orphan.

`ControlPathProofs` proves for any finite set of requests and any capacity: type
correctness and `OneCommandPerCall`.  The property is inductive together with
the types; what it needs are facts about counting, of how often a value occurs
in a sequence that grows at its end (`CountAppend`) or shrinks at its beginning
(`CountTail`, by a bijection between the places).

`SessionsProofs` proves for any sets of session objects, applications, lists,
kinds of events and reports, any assignment of objects to applications, any
capacity of the channel and whatever calls to Windows fail: type correctness, `WatchesSelected`, `WatchedHasHandlers`, `ListIsSeen`
and `NothingKnownUntold`.  The assumption is the ASSUME of `Sessions`.  Their
conjunction is inductive with one addition, `WatchesWhileRunning`: no session is
watched before the first enumeration and after the end, or `FirstEnumerate`
could remove a registration that does not exist.  `WatchedHasHandlers` is what
types `handlers` as naturals: a switch subtracts one from the session watched,
for kinds whose token is that of a registration on it, although registrations
and removals may have failed before.
`IndexOf` takes the least index of a session of the application; that there is
one comes from the well-foundedness of `<` on the naturals (`FirstExists`).

`ThemeClientProofs` proves for any sets of messages and any limits of the delay:
type correctness, `LastInfoWins`, `IdleOnlyWhenStopped` and the action property
`SongsFadeOut`.  The assumption is the ASSUME of `ThemeClient`.  `CopiesAgree` is
what the three timers need to know of each other: a pending transition holds an
info message, the class and the timer of a transition go together, and the art
remembered for the comparison is the art shown, without which `UpdateShown` could
keep the art of another track.  `OwedExists` and `AnimatesSomething` keep null
out of the handlers.

`WebSessionProofs` proves type correctness and `TimeoutMeansSilence` for every
interval, timeout and answer time with interval + answer at most the timeout (30
and 90 s in the code), which is the ASSUME of `WebSession`, and for an `OnOpen`
of any length.  The argument is about ages: `PongIsRecent` says that while the
client is prompt the last pong is no older than `OnOpen` was long plus the time
since the last tick, or a ping that bounds it is on its way; `NeverOnPrompt`
that the heartbeat gives up on no prompt client unless `OnOpen` was late; `TickDecides` that while the
client reads every tick finds the age within the timeout or closes; `Opening`
that nothing of this has begun before the heartbeat is started.

`ClientSyncProofs` proves for any finite set of clients, any topics, any number
of events and any capacity of the hub's channel: type correctness,
`NoUpdateMissed`, `KnownConnectionsClosed` and the action property
`StepsBackAreRepaired`.  The assumption is the ASSUME of `ClientSync`.

- `Followed` says of an open connection who will see to it that it is closed:
  `OnOpen` is about to add it, its Add is in the channel, the hub knows it, or it
  is among those the hub is closing; and that a Remove in the channel is only
  ever for a connection that was closed before, since one removed while open
  would be forgotten.  `OrderOfAll` is what the range over the map must give: all
  connections, in whatever order.
- `DeliveryInv` is what makes delivery inductive.  `NothingNewer`: nothing that
  is under way or received is newer than what is stored.  `InOrder`: the channel
  holds the versions of a topic in order.  `LatestFollows`: while anything older
  of a topic is still to be written, its latest version is behind that, or was
  dropped.  `Told`: a connection that has its snapshot has received the latest
  version, is being sent it, or there is a broadcast of it in the channel at a
  place where the hub will know the connection (`KnownAt`), that is, behind its
  Add.  That an Add is in the channel before the snapshot is read is the step of
  `OnOpen` on which the proof rests: with the two the other way round `Told`
  fails for an event that is broadcast in between.
- `StepsBackAreRepaired` follows from `InOrder` and `LatestFollows`: the hub is
  writing something older than what the page shows, so that the latest is behind
  it.

`SettingsProofs` proves of `ConfigStore`, for any configurations, any set of
valid ones, any file found and any loss of unsynced data: type correctness,
`FileIsWhole` and `FileIsInUse`.  `SaveProgress` says what the temporary file
holds at each step of a save, and `FileIsSynced` that the file itself never has
unsynced data, which is what the rename after the sync is for.  `ReadsBack` is
the fact that a configuration loads as what was saved; it is why the ASSUME of
`ConfigStore` asks that a configuration holds no undecodable value.
`LaunchIsValid` says that what a launch goes on with is valid, whether or not it
could read the file.

It then proves that `Settings` implements `ConfigStore`
(`SettingsImplementStore`: `Spec => StoreSpec`; the two have the store's
variables in common, so that the refinement mapping is the identity): every step
is a step of the store or leaves it alone (`StepIsStoreStep`), and both
properties of the store hold in the program that uses it.  A handler may save
only configurations (`SavedIsConfig`), for which it must be known that what the
widgets show are values of their fields (`FormOK`).  The ASSUME of `Settings`
says what that needs: `Config` is the type of a Go struct, so that a field of
one may be set to any value of its type (`Values`).

The rest is about `Settings` alone: its types, and, for any lists and any
capacity of channel and queue, `PreviewFollowsBox`, `ListShowsWatched` and
`ChosenIsShown`.  `BoxIsFollowed` is what a handler that is saving may assume,
`NothingYet` that nothing runs without a window, and `MenuIsCurrent` that an open
menu says what is the case: its entry starts or stops the server by what it
showed, and nothing else can in the meantime.  `DeviceIsAsked` relates the
configuration to the calls on their way (the last one asks for the configured
device, and once there are none the monitor has selected it), `ListIsCurrent` the
list to the messages on their way, and `DeviceIsShown` the item selected to both.

Every invariant and every action property of the passing runs is a theorem.
Only model-checked: the liveness properties (`LockIsReleased`,
`ReadersReleased`, `TrackIsAnnounced`, `EveryoneIsTold`, `HubEnds`,
`CallsReturn`, `SelectDeviceReturns`, `ProcessEnds`, `PageSettles`,
`ControlsAcked`), whose proofs need ENABLED and fairness.

## Plan

Done: the modules above and the proofs about them.  Left: the order of hello and
broadcasts in `ClientSync`; what the server misses when the monitor publishes
before it subscribes; the composition of `Sessions` with `MediaInfo`, for the ids
that info events carry.

## Not modelled

- WinRT and COM calls, MIME sniffing, JSON encoding: data without state.
- Win32 widgets, WebView2 and its scripts, the showing and hiding of windows,
  the start-minimized and always-on-top boxes, the installer, the log.
- `ResolvePath`, which chooses where the file is and keeps nothing.
- The sessions message and hot reload: they go through the hub as other
  messages do, and are not kept apart.
- The files and album art the server delivers; a page that asks for the art of
  an event a newer one has replaced gets 404 (`server.go:562`).
- The recovery of a panicking `ReadLoop` (`server.go:361-367`): it removes and
  closes the connection, as `OnClose` and `Disconnect` do, and what might panic
  in it is in gws.
- Messages that Windows delivers to the window while a web view is being created
  (`gui.go:678-709`): `Settings` takes the creation as one step of its handler.
- The layout of the themes and the callbacks that pass messages through to them.
- `cfg.UI.Theme`, which HTTP handlers read (`server.go:606`) while the UI thread
  may write it, is a data race; `Settings` keeps the field on the UI thread and
  has no HTTP handler.

------------------------------ MODULE MediaInfo ------------------------------
(***************************************************************************)
(* How the SMTC monitor turns the media properties of the active session   *)
(* into InfoEvents (internal/smtc/media.go, with the parts of smtc.go,     *)
(* session.go and thumbnail.go it depends on).  WinRT callbacks and the    *)
(* thumbnail retry timer only post commands to cmdChan, which drops them   *)
(* when it is full; the monitor goroutine executes the commands.           *)
(*                                                                         *)
(* A title stands for the pair (artist, title); Blank is the pair of empty *)
(* strings.  A picture is the title it belongs to and its length in bytes. *)
(***************************************************************************)
EXTENDS Naturals, Sequences, FiniteSets, Functions

CONSTANTS Songs,          \* the tracks with an artist or a title
          Blank,          \* a track with neither, and the state "no track"
          NoProps,        \* currentProperties is nil
          NoArt,          \* thumbnail data is nil
          Sizes,          \* the lengths a picture can have
          QueueCapacity,  \* cmdChanCapacity
          MaxAttempts,    \* thumbnailRetryMaxAttempts
          MaxRetries      \* bound on the retries alive when a track starts

Titles == Songs \cup {Blank}
Art == [song : Titles, size : Sizes]

ASSUME MediaAssumption == /\ Blank \notin Songs /\ NoProps \notin Titles
                          /\ NoArt \notin Art
                          /\ Sizes \subseteq Nat \ {0}
                          /\ QueueCapacity \in Nat \ {0}
                          /\ MaxAttempts \in Nat \ {0}
                          /\ MaxRetries \in Nat

VARIABLES playing,     \* what the source application plays
          present,     \* whether the session manager lists a session
          session,     \* currentSession # nil
          props,       \* the track of currentProperties
          current,     \* currentArtist and currentTitle
          thumbSize,   \* currentThumbnailSize
          thumb,       \* currentThumbnailData
          retryCount,  \* thumbnailRetryCount
          timer,       \* the armed timer thumbnailRetryTimer points to: a set
                       \* holding its track, empty when nil, stopped or fired
          orphans,     \* armed timers nothing points to, counted by track
          queue,       \* cmdChan
          busy,        \* the command being executed, a sequence of at most one
          published,   \* the last InfoEvent
          lostRetry    \* history: a retry for the current track was dropped

source == <<playing, present>>
track  == <<session, props, current, thumbSize, thumb>>
retry  == <<retryCount, timer, orphans>>
vars   == <<source, track, retry, queue, busy, published, lostRetry>>

Command == [kind : {"media", "sessions", "other", "retry"}, song : Titles]
Cmd(kind) == [kind |-> kind, song |-> Blank]
RetryCmd(s) == [kind |-> "retry", song |-> s]

Init == /\ playing \in Titles /\ present = FALSE
        /\ session = FALSE /\ props = NoProps /\ current = Blank
        /\ thumbSize = 0 /\ thumb = NoArt
        /\ retryCount = 0 /\ timer = {} /\ orphans = [s \in Titles |-> 0]
        /\ queue = <<>> /\ busy = <<>>
        /\ published = [song |-> Blank, art |-> NoArt]
        /\ lostRetry = FALSE

-----------------------------------------------------------------------------
(* The non-blocking send of the callbacks and of the timer. *)
HasRoom == Len(queue) < QueueCapacity
Post(cmd) == queue' = IF HasRoom THEN Append(queue, cmd) ELSE queue

(* The number of retries alive or about to be, which bounds the model.     *)
Alive == Cardinality(timer) + SumFunction(orphans)
         + Len(SelectSeq(queue \o busy, LAMBDA c : c.kind # "other"))

(* The source changes track, or reports the one it plays once more.        *)
MediaPropertiesChanged ==
    /\ session
    /\ Alive < MaxRetries
    /\ playing' \in Titles
    /\ Post(Cmd("media"))
    /\ UNCHANGED <<present, track, retry, busy, published, lostRetry>>

(* The last session goes away or the first one comes.                      *)
SessionsChanged ==
    /\ Alive < MaxRetries
    /\ present' = ~present
    /\ Post(Cmd("sessions"))
    /\ UNCHANGED <<playing, track, retry, busy, published, lostRetry>>

(* Any command that leaves the track alone: playback events, controls.     *)
OtherCommand ==
    /\ HasRoom
    /\ Post(Cmd("other"))
    /\ UNCHANGED <<source, track, retry, busy, published, lostRetry>>

(* A timer fires: it posts the retry, or drops it if the channel is full.  *)
TimerFires(s) ==
    /\ \/ timer = {s} /\ timer' = {} /\ UNCHANGED orphans
       \/ /\ orphans[s] > 0
          /\ orphans' = [orphans EXCEPT ![s] = @ - 1]
          /\ UNCHANGED timer
    /\ Post(RetryCmd(s))
    /\ lostRetry' = (lostRetry \/ (~HasRoom /\ s = current))
    /\ UNCHANGED <<source, track, retryCount, busy, published>>

(* The monitor goroutine takes a command off the channel.                  *)
Take == /\ busy = <<>>
        /\ queue # <<>>
        /\ busy' = <<Head(queue)>>
        /\ queue' = Tail(queue)
        /\ UNCHANGED <<source, track, retry, published, lostRetry>>

-----------------------------------------------------------------------------
(* readThumbnail for the properties p when the stream holds n bytes (0: an *)
(* error or an empty stream), with the cached size and data.               *)
ReadThumbnail(p, n, size, cached) ==
    IF n = 0 \/ p = NoProps THEN NoArt
    ELSE IF n = size THEN cached
    ELSE [song |-> p, size |-> n]

Length(art) == IF art = NoArt THEN 0 ELSE art.size

(* scheduleThumbnailRetry: stop the timer thumbnailRetryTimer points to    *)
(* and arm another.  Faulty variant: an armed timer is left as it is.      *)
ScheduleUnlessArmed(s) == /\ timer' = IF timer = {} THEN {s} ELSE timer
                          /\ UNCHANGED orphans
Schedule(s) == timer' = {s} /\ UNCHANGED orphans

(* fanOut(InfoEvent). *)
Publish(s, art) == published' = [song |-> s, art |-> art]

(* A new current track starts with no retry lost.                          *)
Record(s) == /\ current' = s
             /\ lostRetry' = (lostRetry /\ s = current)

(* What readThumbnail deduplicates against: nothing after a change of      *)
(* track.  Faulty variant: the reset is forgotten.                         *)
StaleCache(changed) == [size |-> thumbSize, art |-> thumb]
Cache(changed) == IF changed THEN [size |-> 0, art |-> NoArt]
                  ELSE [size |-> thumbSize, art |-> thumb]

(* handleMediaPropertiesChanged with the properties of track p; the stream *)
(* holds n bytes.                                                          *)
ReadProperties(p, n) ==
    LET changed == p # current
        size    == Cache(changed).size
        cached  == Cache(changed).art
        read    == ReadThumbnail(p, n, size, cached)
        shown   == IF read = NoArt THEN cached ELSE read
    IN  /\ props' = p
        /\ thumb' = shown
        /\ thumbSize' = IF read = NoArt THEN size ELSE n
        /\ \/ /\ changed /\ read = NoArt
              /\ Record(p)
              /\ retryCount' = 0
              /\ Schedule(p)
              /\ UNCHANGED published
           \/ /\ ~changed /\ Length(shown) = Length(cached)
              /\ UNCHANGED <<current, lostRetry, retry, published>>
           \/ /\ ~(changed /\ read = NoArt)
              /\ changed \/ Length(shown) # Length(cached)
              /\ Record(p)
              /\ Publish(p, shown)
              /\ UNCHANGED retry

(* clearMediaInfo, when the properties cannot be read.                     *)
ClearMediaInfo ==
    \/ /\ current = Blank
       /\ UNCHANGED <<props, current, thumbSize, thumb, retry, published, lostRetry>>
    \/ /\ current # Blank
       /\ Record(Blank)
       /\ props' = NoProps /\ thumbSize' = 0 /\ thumb' = NoArt
       /\ Publish(Blank, NoArt)
       /\ UNCHANGED retry

HandleMediaPropertiesChanged ==
    \/ ClearMediaInfo
    \/ \E n \in Sizes \cup {0} : ReadProperties(playing, n)

Done == busy' = <<>>
Executing(kind) == busy # <<>> /\ busy[1].kind = kind

ExecuteMedia == /\ Executing("media")
                /\ Done
                /\ \/ session /\ HandleMediaPropertiesChanged
                   \/ ~session /\ UNCHANGED <<track, retry, published, lostRetry>>
                /\ UNCHANGED <<source, session, queue>>

ExecuteOther == /\ Executing("other")
                /\ Done
                /\ UNCHANGED <<source, track, retry, queue, published, lostRetry>>

(* enumerateSessions: no session clears the track but not the picture, the *)
(* properties or the timer; a session is switched to and read.             *)
ExecuteSessions ==
    /\ Executing("sessions")
    /\ Done
    /\ \/ /\ ~present
          /\ session' = FALSE
          /\ Record(Blank)
          /\ thumbSize' = 0
          /\ Publish(Blank, NoArt)
          /\ UNCHANGED <<props, thumb, retry>>
       \/ /\ present
          /\ session' = TRUE
          /\ HandleMediaPropertiesChanged
    /\ UNCHANGED <<source, queue>>

(* "If the song has already changed again, this retry is stale".           *)
Stale(s) == current # s

(* The retries left for the current track.  Faulty variants: one attempt   *)
(* too many; an attempt that is not counted.                               *)
MayRetryOnceMore == retryCount < MaxAttempts
MayRetry == retryCount < MaxAttempts - 1
Uncounted == retryCount
Counted == retryCount + 1

(* retryThumbnailAndFireInfo: the handle is cleared whatever it points to. *)
ExecuteRetry(s) ==
    /\ Executing("retry")
    /\ busy[1].song = s
    /\ Done
    /\ orphans' = [x \in Titles |-> orphans[x] + Cardinality(timer \cap {x})]
    /\ \/ /\ Stale(s)
          /\ timer' = {}
          /\ UNCHANGED <<track, retryCount, published>>
       \/ /\ ~Stale(s)
          /\ \E n \in Sizes \cup {0} :
                LET read == ReadThumbnail(props, n, thumbSize, thumb)
                IN  /\ thumb' = IF read = NoArt THEN thumb ELSE read
                    /\ thumbSize' = IF read = NoArt THEN thumbSize ELSE n
                    /\ \/ /\ read = NoArt /\ MayRetry
                          /\ retryCount' = Counted
                          /\ timer' = {s}
                          /\ UNCHANGED published
                       \/ /\ ~(read = NoArt /\ MayRetry)
                          /\ Publish(s, read)
                          /\ timer' = {}
                          /\ UNCHANGED retryCount
          /\ UNCHANGED <<session, props, current>>
    /\ UNCHANGED <<source, queue, lostRetry>>

-----------------------------------------------------------------------------
Environment == MediaPropertiesChanged \/ SessionsChanged \/ OtherCommand
Loop == \/ Take \/ ExecuteMedia \/ ExecuteSessions \/ ExecuteOther
        \/ \E s \in Titles : ExecuteRetry(s)

Next == Environment \/ Loop \/ \E s \in Titles : TimerFires(s)

Spec == Init /\ [][Next]_vars

(* The monitor goroutine and the runtime's timers run; nothing is assumed  *)
(* of the source, nor that a picture ever becomes readable.                *)
FairSpec == /\ Spec
            /\ WF_vars(Loop)
            /\ \A s \in Titles : WF_vars(TimerFires(s))

-----------------------------------------------------------------------------
TypeOK == /\ playing \in Titles /\ present \in BOOLEAN
          /\ session \in BOOLEAN /\ props \in Titles \cup {NoProps}
          /\ current \in Titles
          /\ thumbSize \in Sizes \cup {0} /\ thumb \in Art \cup {NoArt}
          /\ retryCount \in 0 .. (MaxAttempts - 1)
          /\ timer \in SUBSET Titles /\ Cardinality(timer) <= 1
          /\ orphans \in [Titles -> Nat]
          /\ queue \in Seq(Command) /\ Len(queue) <= QueueCapacity
          /\ busy \in Seq(Command) /\ Len(busy) <= 1
          /\ published \in [song : Titles, art : Art \cup {NoArt}]
          /\ lostRetry \in BOOLEAN

(* Clients never see one track's cover art with another track's name: an   *)
(* InfoEvent that names a song carries that song's picture or none,        *)
(* although pictures are cached across events, deduplicated by length and  *)
(* read again later by retries that other tracks may have overtaken.       *)
ArtBelongsToSong ==
    published.song # Blank /\ published.art # NoArt
        => published.art.song = published.song

(* media.go:75-84 records a new track before it tells anybody.  Until it   *)
(* is told, a retry for this track is still armed, queued or running, or a *)
(* retry for it was dropped on a full cmdChan (the case that               *)
(* AlwaysAnnounced, below, is about).                                      *)
RetryAlive == \/ current \in timer \/ orphans[current] > 0
              \/ RetryCmd(current) \in Range(queue \o busy)
UnannouncedIsPending == published.song = current \/ RetryAlive \/ lostRetry

(* A recorded track is announced, superseded, or a retry for it was        *)
(* dropped: the chain of at most MaxAttempts retries ends, even when the   *)
(* picture never becomes readable and stale retries interfere with it.     *)
TrackIsAnnounced ==
    \A s \in Songs : current = s ~> published.song = s \/ current # s \/ lostRetry

(* media.go:133-134: "Fires OnInfo regardless of whether a thumbnail is    *)
(* available, so the client always receives the new track info".           *)
AlwaysAnnounced == published.song = current \/ RetryAlive
=============================================================================

-------------------------- MODULE MediaInfoProofs --------------------------
(***************************************************************************)
(* A song is never told with the picture of another, and a song that is    *)
(* recorded and not told has a retry under way, for any tracks, pictures,  *)
(* number of attempts and capacity of the channel.                         *)
(***************************************************************************)
EXTENDS MediaInfo, TLAPS, FiniteSetTheorems, SequenceTheorems

USE MediaAssumption

(* While there is a track, the properties and the picture that a retry     *)
(* works with are those of this track.                                     *)
ArtIsCurrent == current # Blank => /\ props = current
                                   /\ thumb # NoArt => thumb.song = current

IInv == TypeOK /\ ArtIsCurrent /\ ArtBelongsToSong /\ UnannouncedIsPending

(* The types of what the monitor goroutine owns.                           *)
MonitorTypeOK == /\ props \in Titles \cup {NoProps} /\ current \in Titles
                 /\ thumbSize \in Sizes \cup {0} /\ thumb \in Art \cup {NoArt}
                 /\ retryCount \in 0 .. (MaxAttempts - 1)
                 /\ timer \in SUBSET Titles /\ Cardinality(timer) <= 1
                 /\ orphans \in [Titles -> Nat]
                 /\ published \in [song : Titles, art : Art \cup {NoArt}]
                 /\ lostRetry \in BOOLEAN

-----------------------------------------------------------------------------
(* The sets and sequences of the state.                                    *)
LEMMA OneTimer ==
    /\ \A s \in Titles : {s} \in SUBSET Titles /\ Cardinality({s}) <= 1
    /\ Cardinality({}) <= 1
<1>1. ASSUME NEW s \in Titles PROVE {s} \in SUBSET Titles /\ Cardinality({s}) <= 1
  <2>1. Cardinality({s}) = 1
      BY FS_Singleton
  <2> QED BY <2>1
<1>2. Cardinality({}) <= 1
    BY FS_EmptySet
<1> QED BY <1>1, <1>2

LEMMA Counts ==
    ASSUME NEW x
    PROVE  /\ Cardinality(timer \cap {x}) \in Nat
           /\ x \in timer => Cardinality(timer \cap {x}) = 1
<1>1. CASE x \in timer
  <2>1. timer \cap {x} = {x}
      BY <1>1
  <2> QED BY <2>1, FS_Singleton
<1>2. CASE x \notin timer
  <2>1. timer \cap {x} = {}
      BY <1>2
  <2> QED BY <1>2, <2>1, FS_EmptySet
<1> QED BY <1>1, <1>2

LEMMA RangeAppend ==
    ASSUME NEW s \in Seq(Command), NEW x \in Command
    PROVE  Range(Append(s, x)) = Range(s) \cup {x}
<1>1. Append(s, x) = s \o <<x>> /\ <<x>> \in Seq(Command)
    BY AppendIsConcat
<1>2. Range(<<x>>) = {x}
    BY DEF Range
<1> DEFINE one == <<x>>
<1> HIDE DEF one
<1>3. one \in Seq(Command) => Range(s \o one) = Range(s) \cup Range(one)
    BY RangeConcatenation
<1> QED BY <1>1, <1>2, <1>3 DEF one

LEMMA RangeOfRest ==
    ASSUME NEW s \in Seq(Command), s # <<>>
    PROVE  Range(s) = {Head(s)} \cup Range(Tail(s))
<1>1. /\ Tail(s) \in Seq(Command) /\ Len(Tail(s)) = Len(s) - 1 /\ Len(s) \in Nat
      /\ \A i \in 1 .. Len(Tail(s)) : Tail(s)[i] = s[i + 1]
      /\ Head(s) = s[1] /\ Len(s) >= 1
    BY HeadTailProperties
<1>2. Range(s) = {s[i] : i \in 1 .. Len(s)}
    BY RangeEquality
<1>3. Range(Tail(s)) = {Tail(s)[i] : i \in 1 .. Len(Tail(s))}
    BY <1>1, RangeEquality
<1>4. Head(s) \in Range(s)
    BY <1>1, <1>2
<1>5. ASSUME NEW y \in Range(Tail(s)) PROVE y \in Range(s)
  <2>1. PICK i \in 1 .. Len(Tail(s)) : y = Tail(s)[i]
      BY <1>3
  <2>2. y = s[i + 1] /\ i + 1 \in 1 .. Len(s)
      BY <1>1, <2>1
  <2> QED BY <1>2, <2>2
<1>6. ASSUME NEW y \in Range(s), y # Head(s) PROVE y \in Range(Tail(s))
  <2>1. PICK i \in 1 .. Len(s) : y = s[i]
      BY <1>2
  <2>2. i # 1
      BY <1>1, <1>6, <2>1
  <2>3. i - 1 \in 1 .. Len(Tail(s)) /\ (i - 1) + 1 = i
      BY <1>1, <2>2
  <2>4. y = Tail(s)[i - 1]
      BY <1>1, <2>1, <2>3
  <2> QED BY <1>3, <2>3, <2>4
<1> QED BY <1>4, <1>5, <1>6

(* A command is alive in the channel or in execution.                      *)
LEMMA RangeOfBoth ==
    ASSUME queue \in Seq(Command), busy \in Seq(Command)
    PROVE  Range(queue \o busy) = Range(queue) \cup Range(busy)
BY RangeConcatenation

-----------------------------------------------------------------------------
LEMMA PictureType ==
    ASSUME NEW p \in Titles \cup {NoProps}, NEW n \in Sizes \cup {0}, NEW size,
           NEW cached \in Art \cup {NoArt}
    PROVE  /\ ReadThumbnail(p, n, size, cached) \in Art \cup {NoArt}
           /\ \/ ReadThumbnail(p, n, size, cached) = NoArt
              \/ /\ n \in Sizes /\ p \in Titles
                 /\ \/ n = size /\ ReadThumbnail(p, n, size, cached) = cached
                    \/ /\ n # size
                       /\ ReadThumbnail(p, n, size, cached) \in Art
                       /\ ReadThumbnail(p, n, size, cached).song = p
BY DEF ReadThumbnail, Art

(* What handleMediaPropertiesChanged does, for a track or for none.        *)
LEMMA HandleStep ==
    ASSUME TypeOK, ArtIsCurrent, ArtBelongsToSong, HandleMediaPropertiesChanged
    PROVE  /\ MonitorTypeOK' /\ ArtIsCurrent' /\ ArtBelongsToSong'
           /\ \/ published'.song = current'
              \/ current' \in timer'
              \/ UNCHANGED <<current, lostRetry, retry, published>>
<1> USE DEF TypeOK, MonitorTypeOK, ArtIsCurrent, ArtBelongsToSong
<1>1. CASE ClearMediaInfo
  <2>1. CASE current = Blank /\ UNCHANGED <<props, current, thumbSize, thumb, retry,
                                             published, lostRetry>>
      BY <2>1 DEF retry
  <2>2. CASE current # Blank /\ Record(Blank) /\ props' = NoProps /\ thumbSize' = 0
             /\ thumb' = NoArt /\ Publish(Blank, NoArt) /\ UNCHANGED retry
    <3>1. /\ lostRetry' \in BOOLEAN /\ current' = Blank
          /\ published' = [song |-> Blank, art |-> NoArt]
        BY <2>2, Zenon DEF Record, Publish
    <3> QED BY <2>2, <3>1 DEF retry, Titles
  <2> QED BY <1>1, <2>1, <2>2, Zenon DEF ClearMediaInfo
<1>2. ASSUME NEW n \in Sizes \cup {0}, ReadProperties(playing, n)
      PROVE  /\ MonitorTypeOK' /\ ArtIsCurrent' /\ ArtBelongsToSong'
             /\ \/ published'.song = current'
                \/ current' \in timer'
                \/ UNCHANGED <<current, lostRetry, retry, published>>
  <2> DEFINE p == playing
             changed == p # current
             size == Cache(changed).size
             cached == Cache(changed).art
             read == ReadThumbnail(p, n, size, cached)
             shown == IF read = NoArt THEN cached ELSE read
  <2>1. /\ size \in Sizes \cup {0} /\ cached \in Art \cup {NoArt}
        /\ changed => size = 0 /\ cached = NoArt
        /\ ~changed => size = thumbSize /\ cached = thumb
      BY DEF Cache
  <2>2. /\ props' = p /\ thumb' = shown
        /\ thumbSize' = IF read = NoArt THEN size ELSE n
        /\ \/ /\ changed /\ read = NoArt
              /\ Record(p) /\ retryCount' = 0 /\ Schedule(p) /\ UNCHANGED published
           \/ /\ ~changed
              /\ UNCHANGED <<current, lostRetry, retry, published>>
           \/ Record(p) /\ Publish(p, shown) /\ UNCHANGED retry
      BY <1>2, Zenon DEF ReadProperties
  <2> HIDE DEF size, cached
  <2>3. /\ read \in Art \cup {NoArt}
        /\ \/ read = NoArt
           \/ n \in Sizes /\ n = size /\ read = cached
           \/ n \in Sizes /\ read \in Art /\ read.song = p
      BY <2>1, PictureType
  <2>4. /\ shown \in Art \cup {NoArt}
        /\ p # Blank /\ shown # NoArt => shown.song = p
    <3>1. changed => 0 \notin Sizes /\ (read = NoArt \/ read.song = p)
        BY <2>1, <2>3
    <3>2. ~changed /\ p # Blank /\ cached # NoArt => cached.song = p
        BY <2>1
    <3> QED BY <2>1, <2>3, <3>1, <3>2
  <2> HIDE DEF read, shown
  <2>5. props' \in Titles /\ thumb' \in Art \cup {NoArt} /\ thumbSize' \in Sizes \cup {0}
      BY <2>1, <2>2, <2>3, <2>4
  <2>6. CASE changed /\ Record(p) /\ retryCount' = 0 /\ Schedule(p) /\ UNCHANGED published
    <3>1. lostRetry' \in BOOLEAN /\ current' = p /\ timer' = {p} /\ UNCHANGED orphans
        BY <2>6, Zenon DEF Record, Schedule
    <3>2. retryCount' \in 0 .. (MaxAttempts - 1)
        BY <2>6
    <3>3. timer' \in SUBSET Titles /\ Cardinality(timer') <= 1
        BY <3>1, OneTimer
    <3> QED BY <2>2, <2>4, <2>5, <2>6, <3>1, <3>2, <3>3
  <2>7. CASE ~changed /\ UNCHANGED <<current, lostRetry, retry, published>>
      BY <2>2, <2>4, <2>5, <2>7 DEF retry
  <2>8. CASE Record(p) /\ Publish(p, shown) /\ UNCHANGED retry
    <3>1. /\ lostRetry' \in BOOLEAN /\ current' = p
          /\ published' = [song |-> p, art |-> shown]
        BY <2>8, Zenon DEF Record, Publish
    <3> QED BY <2>2, <2>4, <2>5, <2>8, <3>1 DEF retry
  <2> QED BY <2>2, <2>6, <2>7, <2>8
<1> QED BY <1>1, <1>2 DEF HandleMediaPropertiesChanged

-----------------------------------------------------------------------------
(* The pieces of the invariant that the rest of a step leaves alone.       *)
LEMMA PostStep ==
    ASSUME TypeOK, NEW x \in Command, Post(x)
    PROVE  /\ queue' \in Seq(Command) /\ Len(queue') <= QueueCapacity
           /\ Range(queue) \subseteq Range(queue')
           /\ HasRoom => x \in Range(queue')
<1>1. CASE HasRoom
  <2>1. queue' = Append(queue, x) /\ queue \in Seq(Command)
      BY <1>1 DEF Post, TypeOK
  <2>2. queue' \in Seq(Command) /\ Len(queue') = Len(queue) + 1 /\ Len(queue) \in Nat
      BY <2>1, AppendProperties
  <2>3. Range(queue') = Range(queue) \cup {x}
      BY <2>1, RangeAppend
  <2> QED BY <1>1, <2>2, <2>3 DEF HasRoom
<1>2. CASE ~HasRoom
    BY <1>2 DEF Post, TypeOK
<1> QED BY <1>1, <1>2

(* What waits or is executed stays so, and the monitor does nothing.       *)
LEMMA ElsewhereStep ==
    ASSUME IInv, UNCHANGED <<track, retryCount, published>>,
           playing' \in Titles, present' \in BOOLEAN, lostRetry' \in BOOLEAN,
           timer' \in SUBSET Titles, Cardinality(timer') <= 1,
           orphans' \in [Titles -> Nat],
           queue' \in Seq(Command), Len(queue') <= QueueCapacity,
           busy' \in Seq(Command), Len(busy') <= 1,
           RetryAlive => RetryAlive' \/ lostRetry',
           lostRetry => lostRetry'
    PROVE  IInv'
<1>1. TypeOK' /\ ArtIsCurrent' /\ ArtBelongsToSong'
    BY DEF IInv, TypeOK, ArtIsCurrent, ArtBelongsToSong, track
<1>2. UnannouncedIsPending'
  <2>1. published' = published /\ current' = current
      BY DEF track
  <2> QED BY <2>1 DEF IInv, UnannouncedIsPending
<1> QED BY <1>1, <1>2 DEF IInv

(* A step that posts a command and leaves the timers alone.                *)
LEMMA SendStep ==
    ASSUME IInv, NEW x \in Command, Post(x),
           playing' \in Titles, present' \in BOOLEAN,
           UNCHANGED <<track, retry, busy, published, lostRetry>>
    PROVE  IInv'
<1>1. TypeOK
    BY DEF IInv
<1>2. /\ queue' \in Seq(Command) /\ Len(queue') <= QueueCapacity
      /\ Range(queue) \subseteq Range(queue')
    BY <1>1, PostStep
<1>3. RetryAlive => RetryAlive'
  <2>1. /\ Range(queue \o busy) = Range(queue) \cup Range(busy)
        /\ Range(queue' \o busy') = Range(queue') \cup Range(busy')
      BY <1>1, <1>2, RangeConcatenation DEF TypeOK
  <2> QED BY <1>2, <2>1 DEF RetryAlive, RetryCmd, retry, track
<1> QED BY <1>1, <1>2, <1>3, ElsewhereStep DEF TypeOK, retry

LEMMA TimerStep ==
    ASSUME IInv, NEW s \in Titles, TimerFires(s)
    PROVE  IInv'
<1>1. TypeOK
    BY DEF IInv
<1>2. RetryCmd(s) \in Command
    BY DEF RetryCmd, Command
<1>3. /\ queue' \in Seq(Command) /\ Len(queue') <= QueueCapacity
      /\ Range(queue) \subseteq Range(queue')
      /\ HasRoom => RetryCmd(s) \in Range(queue')
    BY <1>1, <1>2, PostStep DEF TimerFires
<1>4. lostRetry' = (lostRetry \/ (~HasRoom /\ s = current))
    BY Zenon DEF TimerFires
<1>5. lostRetry' \in BOOLEAN
    BY <1>4, Zenon
<1>6. /\ timer' \in SUBSET Titles /\ Cardinality(timer') <= 1
      /\ orphans' \in [Titles -> Nat]
      /\ \A x \in Titles : x # s => (x \in timer => x \in timer')
                                    /\ orphans'[x] = orphans[x]
  <2>1. CASE timer = {s} /\ timer' = {} /\ UNCHANGED orphans
      BY <1>1, <2>1, OneTimer DEF TypeOK
  <2>2. CASE orphans[s] > 0 /\ orphans' = [orphans EXCEPT ![s] = @ - 1] /\ UNCHANGED timer
    <3>1. orphans \in [Titles -> Nat] /\ orphans[s] - 1 \in Nat
        BY <1>1, <2>2 DEF TypeOK
    <3>2. orphans' \in [Titles -> Nat] /\ \A x \in Titles : x # s => orphans'[x] = orphans[x]
        BY <2>2, <3>1
    <3> QED BY <1>1, <2>2, <3>2 DEF TypeOK
  <2> QED BY <2>1, <2>2 DEF TimerFires
<1>7. RetryAlive => RetryAlive' \/ lostRetry'
  <2>1. /\ Range(queue \o busy) = Range(queue) \cup Range(busy)
        /\ Range(queue' \o busy') = Range(queue') \cup Range(busy')
        /\ current \in Titles
      BY <1>1, <1>3, RangeConcatenation DEF TypeOK, TimerFires
  <2>2. current' = current /\ busy' = busy
      BY DEF TimerFires, track
  <2>3. CASE s = current
      BY <1>3, <1>4, <2>1, <2>2, <2>3 DEF RetryAlive
  <2>4. CASE s # current
      BY <1>3, <1>6, <2>1, <2>2, <2>4 DEF RetryAlive, RetryCmd
  <2> QED BY <2>3, <2>4
<1>8. /\ UNCHANGED <<track, retryCount, published>> /\ playing' \in Titles
      /\ present' \in BOOLEAN /\ busy' \in Seq(Command) /\ Len(busy') <= 1
    BY <1>1 DEF TimerFires, TypeOK, source
<1> QED BY <1>3, <1>4, <1>5, <1>6, <1>7, <1>8, ElsewhereStep

LEMMA TakeStep ==
    ASSUME IInv, Take
    PROVE  IInv'
<1>1. TypeOK
    BY DEF IInv
<1>2. /\ queue \in Seq(Command) /\ queue # <<>> /\ busy = <<>>
      /\ busy' = <<Head(queue)>> /\ queue' = Tail(queue)
    BY <1>1 DEF Take, TypeOK
<1>3. /\ Head(queue) \in Command /\ queue' \in Seq(Command)
      /\ Len(queue') = Len(queue) - 1 /\ Len(queue) \in Nat
    BY <1>2, HeadTailProperties
<1>4. busy' \in Seq(Command) /\ Len(busy') <= 1 /\ Range(busy') = {Head(queue)}
    BY <1>2, <1>3 DEF Range
<1>5. Len(queue') <= QueueCapacity
    BY <1>1, <1>3 DEF TypeOK
<1>6. Range(queue' \o busy') = Range(queue \o busy)
  <2>1. Range(queue' \o busy') = Range(queue') \cup {Head(queue)}
      BY <1>3, <1>4, RangeConcatenation
  <2>2. Range(queue) = {Head(queue)} \cup Range(queue')
      BY <1>2, RangeOfRest
  <2>3. queue \o busy = queue
      BY <1>2, ConcatEmptySeq
  <2> QED BY <2>1, <2>2, <2>3
<1>7. RetryAlive => RetryAlive'
    BY <1>6 DEF RetryAlive, RetryCmd, Take, track, retry
<1> QED BY <1>1, <1>3, <1>4, <1>5, <1>7, ElsewhereStep DEF Take, TypeOK, source, retry

-----------------------------------------------------------------------------
(* A timer is armed for the current track.                                 *)
Armed == current \in timer \/ orphans[current] > 0

(* A step of the monitor ends the command it executes, and nothing else    *)
(* about the channel changes.                                              *)
LEMMA MonitorStep ==
    ASSUME IInv, busy # <<>>, Done, UNCHANGED <<source, queue>>,
           session' \in BOOLEAN, MonitorTypeOK', ArtIsCurrent', ArtBelongsToSong',
           \/ published'.song = current' \/ Armed'
           \/ /\ busy[1] # RetryCmd(current)
              /\ UNCHANGED <<current, published, lostRetry>>
              /\ Armed => Armed'
    PROVE  IInv'
<1>1. TypeOK'
    BY DEF IInv, TypeOK, MonitorTypeOK, Done, source
<1>2. UnannouncedIsPending'
  <2>1. /\ busy \in Seq(Command) /\ Len(busy) <= 1 /\ queue \in Seq(Command)
        /\ busy' = <<>>
      BY DEF IInv, TypeOK, Done
  <2>2. Range(busy) = {busy[1]}
      BY <2>1 DEF Range
  <2>3. Range(queue \o busy) = Range(queue) \cup {busy[1]}
      BY <2>1, <2>2, RangeConcatenation
  <2>4. queue' \o busy' = queue
      BY <2>1, ConcatEmptySeq
  <2>5. CASE published'.song = current' \/ Armed'
      BY <2>5 DEF UnannouncedIsPending, RetryAlive, Armed
  <2>6. CASE /\ busy[1] # RetryCmd(current)
             /\ UNCHANGED <<current, published, lostRetry>>
             /\ Armed => Armed'
      BY <2>3, <2>4, <2>6 DEF IInv, UnannouncedIsPending, RetryAlive, RetryCmd, Armed
  <2> QED BY <2>5, <2>6
<1> QED BY <1>1, <1>2 DEF IInv

(* A command of another kind is not the retry for the current track.       *)
LEMMA NoRetry ==
    ASSUME NEW kind \in {"media", "sessions", "other"}, Executing(kind)
    PROVE  busy # <<>> /\ busy[1] # RetryCmd(current)
BY DEF Executing, RetryCmd

LEMMA MediaStep ==
    ASSUME IInv, ExecuteMedia
    PROVE  IInv'
<1>1. /\ busy # <<>> /\ busy[1] # RetryCmd(current) /\ Done
      /\ UNCHANGED <<source, session, queue>> /\ session' \in BOOLEAN
    BY NoRetry DEF ExecuteMedia, IInv, TypeOK
<1>2. CASE HandleMediaPropertiesChanged
  <2>1. /\ MonitorTypeOK' /\ ArtIsCurrent' /\ ArtBelongsToSong'
        /\ \/ published'.song = current' \/ current' \in timer'
           \/ UNCHANGED <<current, lostRetry, retry, published>>
      BY <1>2, HandleStep DEF IInv
  <2> QED BY <1>1, <2>1, MonitorStep DEF retry, Armed
<1>3. CASE UNCHANGED <<track, retry, published, lostRetry>>
  <2>1. MonitorTypeOK' /\ ArtIsCurrent' /\ ArtBelongsToSong'
      BY <1>3 DEF IInv, TypeOK, MonitorTypeOK, ArtIsCurrent, ArtBelongsToSong, track, retry
  <2> QED BY <1>1, <1>3, <2>1, MonitorStep DEF retry, track, Armed
<1> QED BY <1>2, <1>3 DEF ExecuteMedia

LEMMA OtherStep ==
    ASSUME IInv, ExecuteOther
    PROVE  IInv'
<1>1. /\ busy # <<>> /\ busy[1] # RetryCmd(current) /\ Done
      /\ UNCHANGED <<source, track, retry, queue, published, lostRetry>>
    BY NoRetry DEF ExecuteOther
<1>2. MonitorTypeOK' /\ ArtIsCurrent' /\ ArtBelongsToSong' /\ session' \in BOOLEAN
    BY <1>1 DEF IInv, TypeOK, MonitorTypeOK, ArtIsCurrent, ArtBelongsToSong, track, retry
<1> QED BY <1>1, <1>2, MonitorStep DEF retry, track, Armed

LEMMA SessionsStep ==
    ASSUME IInv, ExecuteSessions
    PROVE  IInv'
<1>1. /\ busy # <<>> /\ busy[1] # RetryCmd(current) /\ Done
      /\ UNCHANGED <<source, queue>>
    BY NoRetry DEF ExecuteSessions
<1>2. CASE session' = TRUE /\ HandleMediaPropertiesChanged
  <2>1. /\ MonitorTypeOK' /\ ArtIsCurrent' /\ ArtBelongsToSong'
        /\ \/ published'.song = current' \/ current' \in timer'
           \/ UNCHANGED <<current, lostRetry, retry, published>>
      BY <1>2, HandleStep DEF IInv
  <2>2. session' \in BOOLEAN
      BY <1>2, Zenon
  <2> QED BY <1>1, <2>1, <2>2, MonitorStep DEF retry, Armed
<1>3. CASE /\ session' = FALSE /\ Record(Blank) /\ thumbSize' = 0
           /\ Publish(Blank, NoArt) /\ UNCHANGED <<props, thumb, retry>>
  <2>1. /\ session' \in BOOLEAN /\ lostRetry' \in BOOLEAN /\ current' = Blank
        /\ published' = [song |-> Blank, art |-> NoArt]
      BY <1>3, Zenon DEF Record, Publish
  <2>2. MonitorTypeOK' /\ ArtIsCurrent' /\ ArtBelongsToSong'
      BY <1>3, <2>1 DEF IInv, TypeOK, MonitorTypeOK, ArtIsCurrent, ArtBelongsToSong,
                        retry, Titles
  <2> QED BY <1>1, <2>1, <2>2, MonitorStep
<1> QED BY <1>2, <1>3 DEF ExecuteSessions

(* A retry takes over what the pointer lost, and then gives up, tries      *)
(* again, or tells the track.                                              *)
LEMMA RetryStep ==
    ASSUME IInv, NEW s \in Titles, ExecuteRetry(s)
    PROVE  IInv'
<1> USE DEF MonitorTypeOK, ArtIsCurrent, ArtBelongsToSong
<1>1. /\ busy # <<>> /\ busy[1].song = s /\ Done /\ UNCHANGED <<source, queue, lostRetry>>
      /\ orphans' = [x \in Titles |-> orphans[x] + Cardinality(timer \cap {x})]
    BY DEF ExecuteRetry, Executing
<1>2. TypeOK
    BY DEF IInv
<1>3. /\ orphans \in [Titles -> Nat] /\ orphans' \in [Titles -> Nat]
      /\ \A x \in Titles : x \in timer \/ orphans[x] > 0 => orphans'[x] > 0
  <2>1. orphans \in [Titles -> Nat]
      BY <1>2 DEF TypeOK
  <2>2. ASSUME NEW x \in Titles
        PROVE  /\ orphans'[x] \in Nat
               /\ x \in timer \/ orphans[x] > 0 => orphans'[x] > 0
    <3>1. orphans'[x] = orphans[x] + Cardinality(timer \cap {x})
        BY <1>1
    <3>2. Cardinality(timer \cap {x}) \in Nat /\ (x \in timer => Cardinality(timer \cap {x}) = 1)
        BY Counts
    <3> QED BY <2>1, <3>1, <3>2
  <2> QED BY <1>1, <2>1, <2>2
<1>4. lostRetry' \in BOOLEAN
    BY <1>1, <1>2 DEF TypeOK
<1>5. CASE Stale(s) /\ timer' = {} /\ UNCHANGED <<track, retryCount, published>>
  <2>1. busy[1] # RetryCmd(current) /\ current' = current
      BY <1>1, <1>5 DEF Stale, RetryCmd, track
  <2>2. Armed => Armed'
      BY <1>2, <1>3, <2>1 DEF Armed, TypeOK
  <2>3. MonitorTypeOK' /\ ArtIsCurrent' /\ ArtBelongsToSong' /\ session' \in BOOLEAN
      BY <1>2, <1>3, <1>4, <1>5, OneTimer DEF IInv, TypeOK, track
  <2> QED BY <1>1, <1>5, <2>1, <2>2, <2>3, MonitorStep
<1>6. ASSUME NEW n \in Sizes \cup {0}, NEW read, ~Stale(s),
             read = ReadThumbnail(props, n, thumbSize, thumb),
             thumb' = IF read = NoArt THEN thumb ELSE read,
             thumbSize' = IF read = NoArt THEN thumbSize ELSE n,
             UNCHANGED <<session, props, current>>,
             \/ /\ read = NoArt /\ MayRetry
                /\ retryCount' = Counted
                /\ timer' = {s}
                /\ UNCHANGED published
             \/ /\ Publish(s, read)
                /\ timer' = {}
                /\ UNCHANGED retryCount
      PROVE  IInv'
  <2>1. s = current /\ current' = current /\ props' = props /\ session' \in BOOLEAN
      BY <1>2, <1>6 DEF Stale, TypeOK
  <2>2. /\ read \in Art \cup {NoArt}
        /\ \/ read = NoArt
           \/ n \in Sizes /\ read = thumb
           \/ n \in Sizes /\ read \in Art /\ read.song = props
      BY <1>2, <1>6, PictureType DEF TypeOK
  <2>3. /\ thumb' \in Art \cup {NoArt} /\ thumbSize' \in Sizes \cup {0}
        /\ current # Blank /\ thumb' # NoArt => thumb'.song = current
        /\ current # Blank /\ read # NoArt => read.song = current
      BY <1>2, <1>6, <2>2 DEF IInv, TypeOK
  <2>4. ArtIsCurrent'
      BY <2>1, <2>3 DEF IInv
  <2>5. CASE read = NoArt /\ MayRetry /\ retryCount' = Counted /\ timer' = {s}
             /\ UNCHANGED published
    <3>1. retryCount' \in 0 .. (MaxAttempts - 1)
        BY <1>2, <2>5 DEF MayRetry, Counted, TypeOK
    <3>2. MonitorTypeOK' /\ ArtBelongsToSong'
        BY <1>2, <1>3, <1>4, <2>1, <2>3, <2>5, <3>1, OneTimer DEF IInv, TypeOK
    <3>3. Armed'
        BY <2>1, <2>5 DEF Armed
    <3> QED BY <1>1, <2>1, <2>4, <3>2, <3>3, MonitorStep
  <2>6. CASE Publish(s, read) /\ timer' = {} /\ UNCHANGED retryCount
    <3>1. published' = [song |-> s, art |-> read]
        BY <2>6 DEF Publish
    <3>2. MonitorTypeOK' /\ ArtBelongsToSong'
        BY <1>2, <1>3, <1>4, <2>1, <2>2, <2>3, <2>6, <3>1, OneTimer DEF IInv, TypeOK
    <3> QED BY <1>1, <2>1, <2>4, <3>1, <3>2, MonitorStep
  <2> QED BY <1>6, <2>5, <2>6
<1> QED BY <1>5, <1>6 DEF ExecuteRetry

-----------------------------------------------------------------------------
LEMMA InitIInv == Init => IInv
<1> SUFFICES ASSUME Init PROVE IInv
    OBVIOUS
<1>1. lostRetry \in BOOLEAN /\ present \in BOOLEAN /\ session \in BOOLEAN
    BY Zenon DEF Init
<1>2. TypeOK
    BY <1>1, OneTimer DEF Init, TypeOK, Titles
<1>3. ArtIsCurrent /\ ArtBelongsToSong /\ UnannouncedIsPending
    BY DEF Init, ArtIsCurrent, ArtBelongsToSong, UnannouncedIsPending
<1> QED BY <1>2, <1>3 DEF IInv

LEMMA NextIInv == IInv /\ [Next]_vars => IInv'
<1> SUFFICES ASSUME IInv, [Next]_vars PROVE IInv'
    OBVIOUS
<1>1. ASSUME NEW kind \in {"media", "sessions", "other"} PROVE Cmd(kind) \in Command
    BY DEF Cmd, Command, Titles
<1>2. playing \in Titles /\ present \in BOOLEAN /\ (~present) \in BOOLEAN
    BY DEF IInv, TypeOK
<1>3. CASE MediaPropertiesChanged
    BY <1>1, <1>2, <1>3, SendStep DEF MediaPropertiesChanged
<1>4. CASE SessionsChanged
  <2>1. present' \in BOOLEAN
      BY <1>4, Zenon DEF SessionsChanged
  <2> QED BY <1>1, <1>2, <1>4, <2>1, SendStep DEF SessionsChanged
<1>5. CASE OtherCommand
    BY <1>1, <1>2, <1>5, SendStep DEF OtherCommand, source
<1>6. CASE UNCHANGED vars
    BY <1>6 DEF vars, source, track, retry, IInv, TypeOK, ArtIsCurrent, ArtBelongsToSong,
                UnannouncedIsPending, RetryAlive
<1> QED BY <1>3, <1>4, <1>5, <1>6, TimerStep, TakeStep, MediaStep, SessionsStep,
           OtherStep, RetryStep, Zenon DEF Next, Environment, Loop

(* The state is well typed: attempts are counted below their maximum, one  *)
(* timer is pointed to at most, and the channel holds its capacity.        *)
THEOREM MediaTypes == Spec => []TypeOK
<1>1. IInv => TypeOK
    BY DEF IInv
<1> QED BY <1>1, InitIInv, NextIInv, PTL DEF Spec

(* An InfoEvent that names a song carries its picture or none, whatever    *)
(* is cached, deduplicated by length, or read again by retries (media.go,  *)
(* readThumbnail).                                                         *)
THEOREM ArtIsOfTheSong == Spec => []ArtBelongsToSong
<1>1. IInv => ArtBelongsToSong
    BY DEF IInv
<1> QED BY <1>1, InitIInv, NextIInv, PTL DEF Spec

(* A track that is recorded and not told has a retry armed, waiting or     *)
(* running, unless one was dropped on a full cmdChan: no interplay of      *)
(* timers, stale retries and the pointer they clear loses the last one.    *)
THEOREM UntoldHasRetry == Spec => []UnannouncedIsPending
<1>1. IInv => UnannouncedIsPending
    BY DEF IInv
<1> QED BY <1>1, InitIInv, NextIInv, PTL DEF Spec
=============================================================================

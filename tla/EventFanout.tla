----------------------------- MODULE EventFanout -----------------------------
(***************************************************************************)
(* The subscriber list of the SMTC monitor (internal/smtc/smtc.go): the    *)
(* monitor goroutine publishes with fanOut and closes every channel in     *)
(* cleanupRun, other goroutines call Subscribe and Unsubscribe, and each   *)
(* subscriber's own goroutine receives.  subsMu serialises everything but  *)
(* the receives, which interleave with the two loops that hold it.         *)
(*                                                                         *)
(* A Subscriber is one call of Subscribe: Go makes a fresh channel for     *)
(* every call, so a name is used once.  An event is the number of the      *)
(* fanOut call that carries it.  The slice of subscribers is a set: the    *)
(* order in which fanOut visits it is not visible to anybody.              *)
(***************************************************************************)
EXTENDS Naturals, Sequences, FiniteSets

CONSTANTS Subscribers,  \* the Subscribe calls of the program
          BufSize,      \* the capacity each of them asks for
          MaxEvents     \* bound on the number of fanOut calls

ASSUME SubscribersAssumption == IsFiniteSet(Subscribers)
ASSUME BufSizeAssumption == BufSize \in [Subscribers -> Nat \ {0}]
ASSUME MaxEventsAssumption == MaxEvents \in Nat

VARIABLES phase,        \* Run: "starting", "running", or "ended"
          holder,       \* which loop holds subsMu: "none", "fanOut", "cleanup"
          todo,         \* the subscribers that loop has not visited yet
          subscribers,  \* s.subscribers
          channel,      \* of each sub.ch: "absent", "open" or "closed"
          buffer,       \* the events waiting in each sub.ch
          dropped,      \* sub.dropped
          reader,       \* the receiving goroutine: "absent", "reading",
                        \* "stopped" (it returned early) or "done" (saw close)
          published,    \* number of fanOut calls so far
          got,          \* history: the events each reader has received
          joined        \* history: value of published at Subscribe

vars == <<phase, holder, todo, subscribers, channel, buffer, dropped, reader,
          published, got, joined>>

-----------------------------------------------------------------------------
Init == /\ phase = "starting"
        /\ holder = "none"
        /\ todo = {}
        /\ subscribers = {}
        /\ channel = [s \in Subscribers |-> "absent"]
        /\ buffer = [s \in Subscribers |-> <<>>]
        /\ dropped = [s \in Subscribers |-> 0]
        /\ reader = [s \in Subscribers |-> "absent"]
        /\ published = 0
        /\ got = [s \in Subscribers |-> <<>>]
        /\ joined = [s \in Subscribers |-> 0]

(* Run reaches its loop, or returns before it: RoInitialize failed, the    *)
(* context was cancelled already, or the session manager is unavailable.   *)
(* The early returns do not call cleanupRun.                               *)
RunStart == /\ phase = "starting"
            /\ phase' \in {"running", "ended"}
            /\ UNCHANGED <<holder, todo, subscribers, channel, buffer, dropped,
                           reader, published, got, joined>>

-----------------------------------------------------------------------------
(* Subscribe: the new channel is listed under subsMu, and the caller       *)
(* starts receiving from it.  It may come before, during or after Run.     *)
Subscribe(s) ==
    /\ channel[s] = "absent"
    /\ holder = "none"
    /\ subscribers' = subscribers \cup {s}
    /\ channel' = [channel EXCEPT ![s] = "open"]
    /\ reader' = [reader EXCEPT ![s] = "reading"]
    /\ joined' = [joined EXCEPT ![s] = published]
    /\ UNCHANGED <<phase, holder, todo, buffer, dropped, published, got>>

(* Faulty variant: the channel that is closed stays on the list.           *)
Relisted(s) == subscribers

(* The list without s: the copy that shifts the tail and the truncation.   *)
Unlisted(s) == subscribers \ {s}

(* Unsubscribe: if the channel is still listed it is unlisted and closed;  *)
(* otherwise cleanupRun has closed it already and nothing happens, which   *)
(* is a stuttering step here.                                              *)
Unsubscribe(s) ==
    /\ channel[s] # "absent"
    /\ holder = "none"
    /\ s \in subscribers
    /\ subscribers' = Unlisted(s)
    /\ channel' = [channel EXCEPT ![s] = "closed"]
    /\ UNCHANGED <<phase, holder, todo, buffer, dropped, reader, published,
                   got, joined>>

-----------------------------------------------------------------------------
(* fanOut, called by the monitor goroutine only: take subsMu, offer the    *)
(* event to every subscriber without waiting, release subsMu.              *)
FanOutLock == /\ phase = "running"
              /\ holder = "none"
              /\ published < MaxEvents
              /\ holder' = "fanOut"
              /\ todo' = subscribers
              /\ published' = published + 1
              /\ UNCHANGED <<phase, subscribers, channel, buffer, dropped,
                             reader, got, joined>>

(* Faulty variants of Offer, each a mistake the code could have made:      *)
(* no test for room, a select without its default case, a drop that is not *)
(* counted, and a newer event put before the ones that wait.               *)
OfferUnbounded(s) == /\ buffer' = [buffer EXCEPT ![s] = Append(@, published)]
                     /\ UNCHANGED dropped
OfferBlocks(s) == Len(buffer[s]) < BufSize[s] /\ OfferUnbounded(s)
OfferUncounted(s) == \/ OfferBlocks(s)
                     \/ Len(buffer[s]) >= BufSize[s] /\ UNCHANGED <<buffer, dropped>>
OfferNewestFirst(s) ==
    \/ /\ Len(buffer[s]) < BufSize[s]
       /\ buffer' = [buffer EXCEPT ![s] = <<published>> \o @]
       /\ UNCHANGED dropped
    \/ Len(buffer[s]) >= BufSize[s] /\ UNCHANGED <<buffer, dropped>>

(* The two cases of fanOut's select for one subscriber: never wait.        *)
Offer(s) ==
    \/ /\ Len(buffer[s]) < BufSize[s]
       /\ buffer' = [buffer EXCEPT ![s] = Append(@, published)]
       /\ UNCHANGED dropped
    \/ /\ Len(buffer[s]) >= BufSize[s]
       /\ dropped' = [dropped EXCEPT ![s] = @ + 1]
       /\ UNCHANGED buffer

(* A send on a closed channel panics.  The channel of a listed subscriber  *)
(* must be open, which NoPanic states: the guard then stops nothing.       *)
FanOutSend(s) == /\ holder = "fanOut"
                 /\ s \in todo
                 /\ channel[s] = "open"
                 /\ Offer(s)
                 /\ todo' = todo \ {s}
                 /\ UNCHANGED <<phase, holder, subscribers, channel, reader,
                                published, got, joined>>

FanOutUnlock == /\ holder = "fanOut"
                /\ todo = {}
                /\ holder' = "none"
                /\ UNCHANGED <<phase, todo, subscribers, channel, buffer,
                               dropped, reader, published, got, joined>>

-----------------------------------------------------------------------------
(* The end of Run: cleanupRun takes subsMu, closes every listed channel,   *)
(* and forgets the list before it releases subsMu.                         *)
CleanupLock == /\ phase = "running"
               /\ holder = "none"
               /\ holder' = "cleanup"
               /\ todo' = subscribers
               /\ UNCHANGED <<phase, subscribers, channel, buffer, dropped,
                              reader, published, got, joined>>

(* Faulty variant: the loop passes over the channel without closing it.    *)
PassedOver(s) == [channel EXCEPT ![s] = @]
Closed(s) == [channel EXCEPT ![s] = "closed"]

CleanupClose(s) == /\ holder = "cleanup"
                   /\ s \in todo
                   /\ channel[s] = "open"
                   /\ channel' = Closed(s)
                   /\ todo' = todo \ {s}
                   /\ UNCHANGED <<phase, holder, subscribers, buffer, dropped,
                                  reader, published, got, joined>>

CleanupUnlock == /\ holder = "cleanup"
                 /\ todo = {}
                 /\ subscribers' = {}
                 /\ phase' = "ended"
                 /\ holder' = "none"
                 /\ UNCHANGED <<todo, channel, buffer, dropped, reader,
                                published, got, joined>>

-----------------------------------------------------------------------------
(* A subscriber's goroutine receives: Go delivers what is buffered first   *)
(* and reports the close when the buffer is empty.                         *)
Receive(s) ==
    /\ reader[s] = "reading"
    /\ \/ /\ buffer[s] # <<>>
          /\ got' = [got EXCEPT ![s] = Append(@, Head(buffer[s]))]
          /\ buffer' = [buffer EXCEPT ![s] = Tail(@)]
          /\ UNCHANGED reader
       \/ /\ buffer[s] = <<>>
          /\ channel[s] = "closed"
          /\ reader' = [reader EXCEPT ![s] = "done"]
          /\ UNCHANGED <<got, buffer>>
    /\ UNCHANGED <<phase, holder, todo, subscribers, channel, dropped,
                   published, joined>>

(* The goroutine returns on its own context, and its channel stays listed  *)
(* until its owner unsubscribes (processEvents, the loop of smtc-test).    *)
StopReading(s) ==
    /\ reader[s] = "reading"
    /\ reader' = [reader EXCEPT ![s] = "stopped"]
    /\ UNCHANGED <<phase, holder, todo, subscribers, channel, buffer, dropped,
                   published, got, joined>>

-----------------------------------------------------------------------------
Monitor == \/ RunStart \/ FanOutLock \/ FanOutUnlock
           \/ CleanupLock \/ CleanupUnlock
           \/ \E s \in Subscribers : FanOutSend(s) \/ CleanupClose(s)

Next == \/ Monitor
        \/ \E s \in Subscribers : \/ Subscribe(s) \/ Unsubscribe(s)
                                  \/ Receive(s) \/ StopReading(s)

Spec == Init /\ [][Next]_vars

(* The goroutine that holds subsMu is scheduled, and a goroutine that can  *)
(* receive does.  Nothing forces a subscriber to go on reading, to leave,  *)
(* or the monitor to publish or to end.                                    *)
LoopSteps == \/ FanOutUnlock \/ CleanupUnlock
             \/ \E s \in Subscribers : FanOutSend(s) \/ CleanupClose(s)

FairSpec == /\ Spec
            /\ WF_vars(LoopSteps)
            /\ \A s \in Subscribers : WF_vars(Receive(s))

-----------------------------------------------------------------------------
TypeOK == /\ phase \in {"starting", "running", "ended"}
          /\ holder \in {"none", "fanOut", "cleanup"}
          /\ todo \in SUBSET Subscribers
          /\ subscribers \in SUBSET Subscribers
          /\ channel \in [Subscribers -> {"absent", "open", "closed"}]
          /\ buffer \in [Subscribers -> Seq(1 .. MaxEvents)]
          /\ \A s \in Subscribers : Len(buffer[s]) <= BufSize[s]
          /\ dropped \in [Subscribers -> 0 .. MaxEvents]
          /\ reader \in [Subscribers -> {"absent", "reading", "stopped", "done"}]
          /\ published \in 0 .. MaxEvents
          /\ got \in [Subscribers -> Seq(1 .. MaxEvents)]
          /\ joined \in [Subscribers -> 0 .. MaxEvents]

(* fanOut never sends on a closed channel and no channel is closed twice   *)
(* (both panic in Go and would take the process down): whoever is about to *)
(* send to or close a channel of the list finds it open, although          *)
(* Unsubscribe and cleanupRun both close and may come in either order.     *)
NoPanic == /\ holder # "none" => \A s \in todo : channel[s] = "open"
           /\ holder = "none" => \A s \in subscribers : channel[s] = "open"

(* Every event published since a listed subscriber joined is accounted     *)
(* for: received, waiting, or counted in sub.dropped, except the one that  *)
(* a running fanOut has yet to offer to it.                                *)
Pending(s) == IF holder = "fanOut" /\ s \in todo THEN 1 ELSE 0
EveryEventAccountedFor ==
    \A s \in subscribers :
        Len(got[s]) + Len(buffer[s]) + dropped[s] + Pending(s)
            = published - joined[s]

(* Slow, stopped or departed subscribers never stall the monitor or each   *)
(* other: a loop that took subsMu releases it, with no help from readers.  *)
LockIsReleased == holder # "none" ~> holder = "none"

(* When cleanupRun has run, no goroutine stays blocked on the channel of a *)
(* subscriber that was listed: each reader sees the close (or has left).   *)
ReadersReleased ==
    \A s \in Subscribers :
        holder = "cleanup" /\ s \in subscribers ~> reader[s] \in {"done", "stopped"}

(* The monitor implements the lossy, ordered, at-most-once feed.           *)
Finished == {s \in Subscribers : reader[s] = "done"}
Feed == INSTANCE EventFeed WITH finished <- Finished
ImplementsFeed == Feed!FeedSpec
=============================================================================

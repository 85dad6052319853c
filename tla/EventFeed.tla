------------------------------ MODULE EventFeed ------------------------------
(***************************************************************************)
(* What a subscriber of internal/smtc may rely on, whatever the buffers    *)
(* and the mutex of smtc.go do: events are numbered in the order the       *)
(* monitor publishes them, a subscriber receives some of them, each at     *)
(* most once and in that order, none before it was published and none      *)
(* after it has seen its channel closed.  Nothing is promised about the    *)
(* events it does not receive: the feed is lossy.                          *)
(***************************************************************************)
EXTENDS Naturals, Sequences

CONSTANT Subscribers

VARIABLES published,   \* number of events published so far
          got,         \* what each subscriber has received, oldest first
          finished     \* the subscribers that have seen the end of their feed

feedVars == <<published, got, finished>>

NewestOf(seq) == IF seq = <<>> THEN 0 ELSE seq[Len(seq)]

FeedInit == /\ published = 0
            /\ got = [s \in Subscribers |-> <<>>]
            /\ finished = {}

FeedPublish == /\ published' = published + 1
               /\ UNCHANGED <<got, finished>>

FeedDeliver(s) == /\ s \notin finished
                  /\ \E e \in (NewestOf(got[s]) + 1) .. published :
                        got' = [got EXCEPT ![s] = Append(@, e)]
                  /\ UNCHANGED <<published, finished>>

FeedFinish(s) == /\ s \notin finished
                 /\ finished' = finished \cup {s}
                 /\ UNCHANGED <<published, got>>

FeedNext == \/ FeedPublish
            \/ \E s \in Subscribers : FeedDeliver(s) \/ FeedFinish(s)

FeedSpec == FeedInit /\ [][FeedNext]_feedVars
=============================================================================

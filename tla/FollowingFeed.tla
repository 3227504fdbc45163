---------------------------- MODULE FollowingFeed ----------------------------
(***************************************************************************)
(* The following feed: the inboxes and the author's outbox kept in Redis   *)
(* (application/video/fanout_worker.go, application/relation,              *)
(* infra/cache/feed_cache.go, persistence/feed).                           *)
(*                                                                         *)
(* One author is followed and left while videos are published.  The worker *)
(* pushes a published video into the followers' inboxes batch by batch;    *)
(* an author with BigThreshold followers or more keeps an outbox that      *)
(* readers pull.  A new follower's inbox is filled with the author's       *)
(* recent videos after the follow has been committed.  The follower count  *)
(* is the number of followers (FollowGraph!FollowTally).  The two history  *)
(* variables say which of the feed's promises no longer apply.             *)
(***************************************************************************)
EXTENDS Integers, FiniteSets, FiniteSetsExt

CONSTANTS
    Viewer,        \* users who may follow the author: their ids
    Crowd,         \* how many other followers the author may have, who stay
    Clip,          \* the author's videos: their ids, later ones are larger
    BigThreshold,  \* BigCreatorFollowerThreshold
    BatchSize,     \* followers in a batch of the fan-out
    InboxMax,      \* inboxMaxLen, outboxMaxLen and the backfill's bound
    BackfillMax,   \* defaultBackfillVideoLimit
    MaxUpsets      \* bound: failed calls, expired keys, moderations, changes of side

ASSUME FeedConstants ==
    /\ Viewer \subseteq Nat \ {0} /\ IsFiniteSet(Viewer)
    /\ Crowd \subseteq Nat
    /\ Clip \subseteq Nat \ {0} /\ IsFiniteSet(Clip)
    /\ BigThreshold \in Nat
    /\ {BatchSize, InboxMax, BackfillMax} \subseteq Nat \ {0}
    /\ MaxUpsets \in Nat

VARIABLES
    crowd,      \* the author's other followers
    fans,       \* of the viewers, the active followers of the author in MySQL
    clips,      \* published at some time
    aired,      \* of these, the ones with status published
    unsent,     \* videos with a publication event in the outbox or in the queue
    fanout,     \* the worker's event, and the cursor of its batches
    inbox,      \* feed:following:inbox of each viewer
    outbox,     \* feed:following:author
    signup,     \* follow requests after their commit
    upsets,
    crossed,    \* history: the author changed side after the first publication
    lapsed      \* history: viewers whose inbox expired or whose last backfill failed

feedVars == <<crowd, fans, clips, aired, unsent, fanout, inbox, outbox, signup, upsets,
              crossed, lapsed>>

-----------------------------------------------------------------------------
IdleFanout == [pc |-> "idle"]

FeedTypeOK ==
    /\ crowd \in Crowd
    /\ fans \in SUBSET Viewer
    /\ aired \in SUBSET clips
    /\ clips \in SUBSET Clip
    /\ unsent \in SUBSET clips
    /\ fanout \in [pc: {"list"}, clip: clips, cursor: Nat] \cup {IdleFanout}
    /\ inbox \in [Viewer -> SUBSET clips]
    /\ outbox \in SUBSET clips
    /\ signup \in [Viewer -> [pc: {"idle", "count", "read", "fill"}, todo: SUBSET clips]]
    /\ upsets \in 0..MaxUpsets
    /\ crossed \in BOOLEAN
    /\ lapsed \in SUBSET Viewer

FeedInit ==
    /\ crowd \in Crowd
    /\ fans \in SUBSET Viewer
    /\ clips = {}
    /\ aired = {}
    /\ unsent = {}
    /\ fanout = IdleFanout
    /\ inbox = [v \in Viewer |-> {}]
    /\ outbox = {}
    /\ signup = [v \in Viewer |-> [pc |-> "idle", todo |-> {}]]
    /\ upsets = 0
    /\ crossed = FALSE
    /\ lapsed = {}

\* The n largest of a set of ids.
Newest(S, n) == {x \in S : Cardinality({y \in S : y > x}) < n}

CountFollowers == crowd + Cardinality(fans)

IsBig(n) == n >= BigThreshold

\* ZADD, then ZREMRANGEBYRANK 0 -maxLen-1.
AddItem(index, c) == Newest(index \cup {c}, InboxMax)

Upset ==
    /\ upsets < MaxUpsets
    /\ upsets' = upsets + 1

-----------------------------------------------------------------------------
(* Publication and moderation.                                             *)

\* createCoreVideo and the event relayed for it (OutboxRelay).
Release(c) ==
    /\ c \notin clips
    /\ \A d \in Clip : d < c => d \in clips
    /\ clips' = clips \cup {c}
    /\ aired' = aired \cup {c}
    /\ unsent' = unsent \cup {c}
    /\ UNCHANGED <<crowd, fans, fanout, inbox, outbox, signup, upsets, crossed, lapsed>>

\* adminUpdateVideo takes a video offline.
Withdraw(c) ==
    /\ c \in aired
    /\ Upset
    /\ aired' = aired \ {c}
    /\ UNCHANGED <<crowd, fans, clips, unsent, fanout, inbox, outbox, signup, crossed, lapsed>>

\* adminUpdateVideo leaves a video published, which was offline or has a new
\* title: a fresh event is queued.
Republish(c) ==
    /\ c \in clips
    /\ IF c \in aired THEN Upset ELSE UNCHANGED upsets
    /\ aired' = aired \cup {c}
    /\ unsent' = unsent \cup {c}
    /\ UNCHANGED <<crowd, fans, clips, fanout, inbox, outbox, signup, crossed, lapsed>>

\* handleEvent: the event of a video that is offline is complete.
EventObsolete(c) ==
    /\ c \in unsent \ aired
    /\ unsent' = unsent \ {c}
    /\ UNCHANGED <<crowd, fans, clips, aired, fanout, inbox, outbox, signup, upsets, crossed,
                   lapsed>>

-----------------------------------------------------------------------------
(* FanoutWorker.HandleVideoPublished.                                      *)

\* A delivery: the card is preheated and the followers are counted.
FanoutCount(c) ==
    /\ fanout = IdleFanout
    /\ c \in unsent
    /\ unsent' = unsent \ {c}
    /\ \/ /\ IsBig(CountFollowers)
          /\ outbox' = AddItem(outbox, c)
          /\ UNCHANGED fanout
       \/ /\ ~IsBig(CountFollowers)
          /\ fanout' = [pc |-> "list", clip |-> c, cursor |-> 0]
          /\ UNCHANGED outbox
    /\ UNCHANGED <<crowd, fans, clips, aired, inbox, signup, upsets, crossed, lapsed>>

\* ListFollowerIDs: the next ids above the cursor, as many as fit into a batch.
ListFollowerIDs(cursor) ==
    LET above == {v \in fans : v > cursor} IN
    {v \in above : Cardinality({w \in above : w < v}) < BatchSize}

\* Mutant: the next batch leaves one id out.
NextCursorBeyond(batch) == Max(batch) + 1

NextCursor(batch) == Max(batch)

\* AddInboxItems for a batch; a batch that is not full is the last, and the event
\* is acknowledged.
FanoutBatch ==
    LET batch == ListFollowerIDs(fanout.cursor) IN
    /\ fanout.pc = "list"
    /\ inbox' = [v \in Viewer |->
           IF v \in batch THEN AddItem(inbox[v], fanout.clip) ELSE inbox[v]]
    /\ fanout' = IF Cardinality(batch) < BatchSize
                 THEN IdleFanout
                 ELSE [fanout EXCEPT !.cursor = NextCursor(batch)]
    /\ UNCHANGED <<crowd, fans, clips, aired, unsent, outbox, signup, upsets, crossed, lapsed>>

\* A call fails or the worker dies: the event is requeued and handled from the
\* start.
FanoutFails ==
    /\ fanout # IdleFanout
    /\ Upset
    /\ fanout' = IdleFanout
    /\ unsent' = unsent \cup {fanout.clip}
    /\ UNCHANGED <<crowd, fans, clips, aired, inbox, outbox, signup, crossed, lapsed>>

-----------------------------------------------------------------------------
(* Service.setFollow around Repository.SetFollow.                          *)

Crossing(new) == clips # {} /\ IsBig(crowd + Cardinality(new)) # IsBig(CountFollowers)

SetFans(new) ==
    /\ fans' = new
    /\ crossed' = (crossed \/ Crossing(new))
    /\ IF Crossing(new) THEN Upset ELSE UNCHANGED upsets

\* The follow is committed; a repeated request of a follower backfills again.
FollowCommits(v) ==
    /\ signup[v].pc = "idle"
    /\ SetFans(fans \cup {v})
    /\ signup' = [signup EXCEPT ![v].pc = "count"]
    /\ UNCHANGED <<crowd, clips, aired, unsent, fanout, inbox, outbox, lapsed>>

\* Unfollow: what is in the inbox stays.
UnfollowCommits(v) ==
    /\ v \in fans
    /\ SetFans(fans \ {v})
    /\ UNCHANGED <<crowd, clips, aired, unsent, fanout, inbox, outbox, signup, lapsed>>

\* backfillFollowFeed: a big author's videos are pulled from his outbox.
BackfillCount(v) ==
    /\ signup[v].pc = "count"
    /\ signup' = [signup EXCEPT ![v].pc = IF IsBig(CountFollowers) THEN "idle" ELSE "read"]
    /\ UNCHANGED <<crowd, fans, clips, aired, unsent, fanout, inbox, outbox, upsets, crossed,
                   lapsed>>

\* ListAuthorRecentVideos
BackfillRead(v) ==
    /\ signup[v].pc = "read"
    /\ signup' = [signup EXCEPT ![v] = [pc |-> "fill", todo |-> Newest(aired, BackfillMax)]]
    /\ UNCHANGED <<crowd, fans, clips, aired, unsent, fanout, inbox, outbox, upsets, crossed,
                   lapsed>>

\* AddInboxItems for one video after the other, the newest first.
BackfillAdd(v) ==
    LET r == signup[v] IN
    /\ r.pc = "fill"
    /\ \/ /\ r.todo = {}
          /\ signup' = [signup EXCEPT ![v].pc = "idle"]
          /\ lapsed' = lapsed \ {v}
          /\ UNCHANGED inbox
       \/ /\ r.todo # {}
          /\ inbox' = [inbox EXCEPT ![v] = AddItem(@, Max(r.todo))]
          /\ signup' = [signup EXCEPT ![v].todo = @ \ {Max(@)}]
          /\ UNCHANGED lapsed
    /\ UNCHANGED <<crowd, fans, clips, aired, unsent, fanout, outbox, upsets, crossed>>

\* ErrBackfillFollowFeedFailed: the follow is committed, the client is told 503.
BackfillFails(v) ==
    /\ signup[v].pc # "idle"
    /\ Upset
    /\ signup' = [signup EXCEPT ![v] = [pc |-> "idle", todo |-> {}]]
    /\ lapsed' = lapsed \cup {v}
    /\ UNCHANGED <<crowd, fans, clips, aired, unsent, fanout, inbox, outbox, crossed>>

\* followingIndexKeyTTL passes without a write to the inbox; the writes of a
\* backfill follow each other at once.
InboxExpires(v) ==
    /\ inbox[v] # {}
    /\ signup[v].pc # "fill"
    /\ Upset
    /\ inbox' = [inbox EXCEPT ![v] = {}]
    /\ lapsed' = lapsed \cup {v}
    /\ UNCHANGED <<crowd, fans, clips, aired, unsent, fanout, outbox, signup, crossed>>

FeedNext ==
    \/ \E c \in Clip : Release(c) \/ Withdraw(c) \/ Republish(c) \/ EventObsolete(c)
                      \/ FanoutCount(c)
    \/ FanoutBatch \/ FanoutFails
    \/ \E v \in Viewer :
          \/ FollowCommits(v) \/ UnfollowCommits(v)
          \/ BackfillCount(v) \/ BackfillRead(v) \/ BackfillAdd(v) \/ BackfillFails(v)
          \/ InboxExpires(v)

FeedSpec == FeedInit /\ [][FeedNext]_feedVars

-----------------------------------------------------------------------------
(* What a reader is shown.                                                 *)

\* ListFollowingPullAuthorIDs: the outbox counts while the author is big.
PulledOutbox(v) == IF v \in fans /\ IsBig(CountFollowers) THEN outbox ELSE {}

\* ListFollowingIndexPage: the inbox as it is, whoever is followed now.
IndexPage(v) == inbox[v] \cup PulledOutbox(v)

\* ListFollowingPage: MySQL.
ListFollowingPage(v) == IF v \in fans THEN aired ELSE {}

\* listFollowingItems, then the recheck of PublishedVideoIDs in GetFeed.
FollowingItems(v) ==
    LET items == IF IndexPage(v) # {} THEN IndexPage(v) ELSE ListFollowingPage(v)
    IN items \cap aired

\* Nobody is missed between the fan-out and the backfill: once no event of a
\* published video is waiting or being handled, every follower whose request has
\* ended is shown it, in whatever order the follow, the batches, the
\* redeliveries, the publication and a withdrawal and return happened.  It may
\* be one of the InboxMax or BackfillMax newest only, and nothing is promised
\* for a viewer whose inbox expired or whose backfill failed and who has not
\* asked again, or once the author has become a big one, or a small one again,
\* after publishing (HandleVideoPublished, setFollow, listFollowingItems).
NobodyMissed ==
    \A v \in fans, c \in aired :
        \/ c \in unsent
        \/ fanout # IdleFanout /\ fanout.clip = c
        \/ signup[v].pc # "idle"
        \/ v \in lapsed
        \/ crossed
        \/ c \notin Newest(clips, Min({InboxMax, BackfillMax}))
        \/ c \in FollowingItems(v)
=============================================================================

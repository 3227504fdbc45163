--------------------------- MODULE ActionPipeline ---------------------------
(***************************************************************************)
(* Likes and favourites of one video.  The request stores the choice and   *)
(* the counters in Redis and answers; an event takes the choice to MySQL   *)
(* through RabbitMQ and the action worker (application/interaction,        *)
(* infra/cache/feed_cache.go, infra/mq, persistence/interaction).          *)
(*                                                                         *)
(* SetAction locks the video and the action row first: one step.  The      *)
(* Redis transaction watches the action key and is one step; a lost race   *)
(* on that key is a Redis error.  A client makes one idempotency key for   *)
(* one press and repeats it only for that press, so a key has a direction. *)
(***************************************************************************)
EXTENDS Integers, Sequences, FiniteSets, SequencesExt

CONSTANTS
    Fan,       \* users
    Kind,      \* ActionTypeLike, ActionTypeFavorite
    Desk,      \* requests under way, on any API instance
    Token,     \* what tells a client's presses apart, within one direction
    NoToken,   \* no Idempotency-Key header
    MaxPress,  \* bound: presses in a behaviour
    MaxUpset   \* bound: times something is lost, refused or overtaken

ASSUME ActionConstants ==
    /\ IsFiniteSet(Fan)
    /\ NoToken \notin Token
    /\ MaxPress \in Nat /\ MaxUpset \in Nat

VARIABLES
    row,       \* interaction_action: status, and the key of the last change
    count,     \* like_count and favorite_count of video_stat
    onAir,     \* the video is published
    hot,       \* Redis: the action state of a user
    base,      \* Redis: the counters' base hash
    shard,     \* Redis: what a user's shard adds to the base
    queue,     \* ActionChangedQueue: events the broker holds ready
    buffer,    \* deliveries the worker has received and not settled
    applied,   \* the worker committed the first of them
    desk,      \* requests between two of their calls
    presses,   \* requests so far (bound)
    upsets     \* history: times something was lost, refused or overtaken

actionVars == <<row, count, onAir, hot, base, shard, queue, buffer, applied,
                desk, presses, upsets>>

-----------------------------------------------------------------------------
Key == [active: BOOLEAN, token: Token \cup {NoToken}]

NoKey == [active |-> FALSE, token |-> NoToken]

Keyed(key) == key.token # NoToken

ChoiceState == [status: {"none", "active", "canceled"}, key: Key]

NoChoice == [status |-> "none", key |-> NoKey]

StatusOf(active) == IF active THEN "active" ELSE "canceled"

\* ActionChangedEvent, as far as the worker reads it.
Event == [user: Fan, kind: Kind, active: BOOLEAN, key: Key]

Counts == [Kind -> Nat]

NoBase == [k \in Kind |-> -1]

\* loaded: GetVideoStat has answered.  stored: Redis has the choice and the
\* event is owed.  sync: the publication failed.
DeskState == [pc: {"loaded", "stored", "sync"}, press: Event, initial: Counts]

IdleDesk == [pc |-> "idle"]

ActionTypeOK ==
    /\ row \in [Fan -> [Kind -> ChoiceState]]
    /\ count \in Counts
    /\ onAir \in BOOLEAN
    /\ hot \in [Fan -> [Kind -> ChoiceState]]
    /\ base \in Counts \cup {NoBase}
    /\ shard \in [Fan -> [Kind -> Int]]
    /\ queue \in Seq(Event)
    /\ buffer \in Seq(Event)
    /\ applied \in BOOLEAN
    /\ applied => buffer # <<>>
    /\ desk \in [Desk -> DeskState \cup {IdleDesk}]
    /\ presses \in 0..MaxPress
    /\ upsets \in 0..MaxUpset

ActionInit ==
    /\ row = [u \in Fan |-> [k \in Kind |-> NoChoice]]
    /\ count = [k \in Kind |-> 0]
    /\ onAir = TRUE
    /\ hot = [u \in Fan |-> [k \in Kind |-> NoChoice]]
    /\ base = NoBase
    /\ shard = [u \in Fan |-> [k \in Kind |-> 0]]
    /\ queue = <<>>
    /\ buffer = <<>>
    /\ applied = FALSE
    /\ desk = [d \in Desk |-> IdleDesk]
    /\ presses = 0
    /\ upsets = 0

UpsetIf(condition) ==
    /\ condition => upsets < MaxUpset
    /\ upsets' = IF condition THEN upsets + 1 ELSE upsets

-----------------------------------------------------------------------------
(* MySQL: Repository.SetAction.                                            *)

SameKey(stored, key) == stored.status # "none" /\ Keyed(key) /\ stored.key = key

\* Mutant: the counter follows every request, changed status or not.
ActionDeltaAlways(stored, active, key) ==
    IF SameKey(stored, key) THEN 0 ELSE IF active THEN 1 ELSE -1

\* What the change is worth: nothing for the key already stored, and nothing
\* unless the row becomes or ceases to be active.
ActionDelta(stored, active, key) ==
    IF SameKey(stored, key) THEN 0
    ELSE IF active /\ stored.status # "active" THEN 1
    ELSE IF ~active /\ stored.status = "active" THEN -1
    ELSE 0

\* clampCount
Clamp(n) == IF n < 0 THEN 0 ELSE n

\* The first DELETE makes a canceled row.
SetAction(e) ==
    LET stored == row[e.user][e.kind] IN
    /\ row' = [row EXCEPT ![e.user][e.kind] =
                 IF SameKey(stored, e.key) THEN stored
                 ELSE [status |-> StatusOf(e.active), key |-> e.key]]
    /\ count' = [count EXCEPT ![e.kind] = Clamp(@ + ActionDelta(stored, e.active, e.key))]

-----------------------------------------------------------------------------
(* Redis: FeedCache.SetActionState.                                        *)

\* Mutant: a canceled state is taken for a missing one.
StateDeltaTwoState(stored, active, key) ==
    IF SameKey(stored, key) THEN 0
    ELSE IF active /\ stored.status = "none" THEN 1
    ELSE IF ~active /\ stored.status = "active" THEN -1
    ELSE 0

\* A missing state counts as canceled, so taking back what Redis has forgotten
\* is worth nothing.
StateDelta(stored, active, key) ==
    IF SameKey(stored, key) THEN 0
    ELSE IF stored.status = "none" THEN (IF active THEN 1 ELSE 0)
    ELSE IF stored.status = StatusOf(active) THEN 0
    ELSE IF active THEN 1 ELSE -1

\* The key is stored anyway; the base is set only where it is missing (HSETNX).
SetActionState(e, initial) ==
    LET stored == hot[e.user][e.kind] IN
    /\ hot' = [hot EXCEPT ![e.user][e.kind] =
                 [status |-> IF SameKey(stored, e.key) THEN stored.status ELSE StatusOf(e.active),
                  key |-> e.key]]
    /\ base' = IF base = NoBase THEN initial ELSE base
    /\ shard' = [shard EXCEPT ![e.user][e.kind] = @ + StateDelta(stored, e.active, e.key)]

\* What all the shards add.
ShardDelta(k) == FoldFunction(+, 0, [u \in Fan |-> shard[u][k]])

\* actionStatWithPresence: base and shards, never below zero.
Shown(k) == Clamp((IF base = NoBase THEN 0 ELSE base[k]) + ShardDelta(k))

-----------------------------------------------------------------------------
(* The request: setActionAsync and, when the broker does not confirm,      *)
(* setActionSync.  Notifications are MessageCentre's.                      *)

UNCHANGEDbyDesk == UNCHANGED <<onAir, buffer, applied>>

DeskIdle(d) == desk' = [desk EXCEPT ![d] = IdleDesk]

BusyWith(d, u, k) ==
    desk[d].pc # "idle" /\ desk[d].press.user = u /\ desk[d].press.kind = k

\* GetVideoStat finds published videos only.
PressBegin(d, e) ==
    /\ desk[d].pc = "idle"
    /\ onAir
    /\ presses < MaxPress
    /\ presses' = presses + 1
    /\ desk' = [desk EXCEPT ![d] = [pc |-> "loaded", press |-> e, initial |-> count]]
    /\ UpsetIf(\E other \in Desk : BusyWith(other, e.user, e.kind))
    /\ UNCHANGED <<row, count, hot, base, shard, queue>>
    /\ UNCHANGEDbyDesk

PressStore(d) ==
    LET e == desk[d].press
        delta == StateDelta(hot[e.user][e.kind], e.active, e.key)
    IN  /\ desk[d].pc = "loaded"
        /\ SetActionState(e, desk[d].initial)
        /\ desk' = [desk EXCEPT ![d] = IF delta = 0 THEN IdleDesk
                                       ELSE [desk[d] EXCEPT !.pc = "stored"]]
        /\ UNCHANGED <<row, count, queue, presses, upsets>>
        /\ UNCHANGEDbyDesk

\* The broker confirms within five seconds.
PressPublish(d) ==
    /\ desk[d].pc = "stored"
    /\ queue' = Append(queue, desk[d].press)
    /\ DeskIdle(d)
    /\ UNCHANGED <<row, count, hot, base, shard, presses, upsets>>
    /\ UNCHANGEDbyDesk

\* It does not; the event may be in the queue all the same.
PressUnconfirmed(d, enqueued) ==
    /\ desk[d].pc = "stored"
    /\ queue' = IF enqueued THEN Append(queue, desk[d].press) ELSE queue
    /\ desk' = [desk EXCEPT ![d].pc = "sync"]
    /\ UpsetIf(TRUE)
    /\ UNCHANGED <<row, count, hot, base, shard, presses>>
    /\ UNCHANGEDbyDesk

PressSync(d) ==
    /\ desk[d].pc = "sync"
    /\ onAir
    /\ SetAction(desk[d].press)
    /\ DeskIdle(d)
    /\ UNCHANGED <<hot, base, shard, queue, presses, upsets>>
    /\ UNCHANGEDbyDesk

\* Redis or MySQL fails, or the process dies; what Redis has, it keeps.
PressFails(d) ==
    /\ desk[d].pc # "idle"
    /\ UpsetIf(desk[d].pc # "loaded")
    /\ DeskIdle(d)
    /\ UNCHANGED <<row, count, hot, base, shard, queue, presses>>
    /\ UNCHANGEDbyDesk

-----------------------------------------------------------------------------
(* The worker: ConsumeActionChanged around HandleActionChanged.  The       *)
(* channel has no prefetch limit, so deliveries pile up in the process.    *)

UNCHANGEDbyWorker == UNCHANGED <<onAir, hot, base, shard, desk, presses>>

Deliver ==
    /\ queue # <<>>
    /\ buffer' = Append(buffer, Head(queue))
    /\ queue' = Tail(queue)
    /\ UNCHANGED <<row, count, applied, upsets>>
    /\ UNCHANGEDbyWorker

ApplyAction ==
    /\ buffer # <<>>
    /\ ~applied
    /\ onAir
    /\ SetAction(Head(buffer))
    /\ applied' = TRUE
    /\ UNCHANGED <<queue, buffer, upsets>>
    /\ UNCHANGEDbyWorker

\* Mutant: the worker takes the next delivery for committed as well.
AckActionKeepsFlag ==
    /\ applied
    /\ buffer' = Tail(buffer)
    /\ UNCHANGED <<row, count, applied, queue, upsets>>
    /\ UNCHANGEDbyWorker

AckAction ==
    /\ applied
    /\ buffer' = Tail(buffer)
    /\ applied' = FALSE
    /\ UNCHANGED <<row, count, queue, upsets>>
    /\ UNCHANGEDbyWorker

\* MySQL fails, or the video is not published: back to the head of the queue,
\* behind what the process already holds.
NackAction ==
    /\ buffer # <<>>
    /\ ~applied
    /\ queue' = <<Head(buffer)>> \o queue
    /\ buffer' = Tail(buffer)
    /\ UpsetIf(TRUE)
    /\ UNCHANGED <<row, count, applied>>
    /\ UNCHANGEDbyWorker

\* Unsettled deliveries come back in their order, a committed one included.
WorkerDies ==
    /\ buffer # <<>>
    /\ queue' = buffer \o queue
    /\ buffer' = <<>>
    /\ applied' = FALSE
    /\ UNCHANGED <<row, count, upsets>>
    /\ UNCHANGEDbyWorker

-----------------------------------------------------------------------------
(* What happens around them.                                               *)

\* actionStateTTL (30 days), or Redis starts empty.
ForgetChoice(u, k) ==
    /\ hot[u][k] # NoChoice
    /\ hot' = [hot EXCEPT ![u][k] = NoChoice]
    /\ UpsetIf(TRUE)
    /\ UNCHANGED <<row, count, onAir, base, shard, queue, buffer, applied, desk, presses>>

\* actionStatTTL (24 hours): a shard nobody touches goes before the base does.
ForgetShard(u) ==
    /\ \E k \in Kind : shard[u][k] # 0
    /\ shard' = [shard EXCEPT ![u] = [k \in Kind |-> 0]]
    /\ UpsetIf(TRUE)
    /\ UNCHANGED <<row, count, onAir, hot, base, queue, buffer, applied, desk, presses>>

ForgetBase ==
    /\ base # NoBase
    /\ \A u \in Fan, k \in Kind : shard[u][k] = 0
    /\ base' = NoBase
    /\ UpsetIf(TRUE)
    /\ UNCHANGED <<row, count, onAir, hot, shard, queue, buffer, applied, desk, presses>>

\* An administrator takes the video off the air, or puts it back.
Moderate ==
    /\ onAir' = ~onAir
    /\ UNCHANGED <<row, count, hot, base, shard, queue, buffer, applied, desk, presses, upsets>>

-----------------------------------------------------------------------------
KeysFor(active) == {[active |-> active, token |-> t] : t \in Token} \cup {NoKey}

Presses == UNION {[user: Fan, kind: Kind, active: {a}, key: KeysFor(a)] : a \in BOOLEAN}

DeskStep(d) ==
    \/ \E e \in Presses : PressBegin(d, e)
    \/ PressStore(d)
    \/ PressPublish(d)
    \/ \E enqueued \in BOOLEAN : PressUnconfirmed(d, enqueued)
    \/ PressSync(d)
    \/ PressFails(d)

ActionNext ==
    \/ \E d \in Desk : DeskStep(d)
    \/ Deliver
    \/ ApplyAction
    \/ AckAction
    \/ NackAction
    \/ WorkerDies
    \/ \E u \in Fan, k \in Kind : ForgetChoice(u, k)
    \/ \E u \in Fan : ForgetShard(u)
    \/ ForgetBase
    \/ Moderate

ActionSpec == ActionInit /\ [][ActionNext]_actionVars

-----------------------------------------------------------------------------
(* Properties.                                                             *)

ActiveFans == [k \in Kind |-> {u \in Fan : row[u][k].status = "active"}]

Counter == INSTANCE Tally WITH Member <- Fan, Ledger <- Kind, chosen <- ActiveFans, tally <- count

\* MySQL implements a tally: one user's choice and the counter of video_stat
\* change in the same step, whatever is lost, repeated, overtaken or retried
\* on the way there (SetAction).
ActionTally == Counter!TallySpec

InFlight(u, k) ==
    \/ \E d \in Desk : BusyWith(d, u, k)
    \/ \E e \in ToSet(queue) \cup ToSet(buffer) : e.user = u /\ e.kind = k

\* Where nothing was lost, refused or overtaken, MySQL ends with the choice
\* Redis answered the client with and with the number it showed, even when the
\* worker died and applied an event twice (setActionAsync, HandleActionChanged).
Converged ==
    upsets = 0 =>
            /\ \A u \in Fan, k \in Kind :
                  ~InFlight(u, k) => (row[u][k].status = "active" <=> hot[u][k].status = "active")
            /\ \A k \in Kind :
                  (\A u \in Fan : ~InFlight(u, k)) => Shown(k) = count[k]
=============================================================================

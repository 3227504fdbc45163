----------------------------- MODULE OutboxRelay -----------------------------
(***************************************************************************)
(* The transactional outbox of backend/worker.go.  A request writes a      *)
(* "video.published" row in the transaction that makes the video visible;  *)
(* publishOutbox sends batches of rows to RabbitMQ and marks them once the *)
(* broker has confirmed them; consumeEvents handles the deliveries, and    *)
(* sends the ones that failed through owlet.retry until their attempts are *)
(* used up and they go to owlet.dead.  Everything runs inside one broker   *)
(* session, which any error ends and runWorker starts again.               *)
(*                                                                         *)
(* All rows are about one video.  RabbitMQ is modelled from how worker.go  *)
(* uses it: durable queues, publisher confirms that the library delivers   *)
(* in order, mandatory returns before their confirm, commands of a channel *)
(* handled in order, unacknowledged deliveries returned to their queue     *)
(* when the connection goes.                                               *)
(***************************************************************************)
EXTENDS Naturals, FiniteSets, Sequences

CONSTANTS
    Ev,               \* outbox rows, numbered in the order of (created_at, id)
    Consumer,         \* the eventConsumers goroutines
    BatchSize,        \* outboxBatchSize
    MaxAttempt,       \* 3, the attempt header that is not retried any more
    MaxFaults         \* bound: failures of the broker, the handler and the session

ASSUME OutboxConstants ==
    /\ Ev \subseteq Nat
    /\ IsFiniteSet(Consumer)
    /\ BatchSize \in Nat \ {0}
    /\ MaxAttempt \in Nat
    /\ MaxFaults \in Nat

VARIABLES
    row,       \* the outbox table: published_at IS NULL or not
    online,    \* the video is visible (status = 2)
    up,        \* a broker session is running
    batch,     \* publishOutboxBatch: what became of each row it sends
    returned,  \* a mandatory return has arrived
    queue,     \* owlet.events: copies of each message that wait
    retry,     \* owlet.retry: copies that wait for their TTL
    dead,      \* events in owlet.dead
    con,       \* consumers: the delivery each one holds and how far it is
    sending,   \* the consumer's retry copy that has not reached the broker, if any
    confirms,  \* confirmations of the consumer's channel it has not read
    relayed,   \* events handed to publishCoreVideo with success
    skipped,   \* events found obsolete because the video was not visible
    failedAt,  \* attempts at which processEvent failed
    unrouted,  \* history: events of which a retry copy was returned
    misread,   \* history: events acked on the confirmation of an earlier copy
    faults

vars == <<row, online, up, batch, returned, queue, retry, dead, con, sending, confirms,
          relayed, skipped, failedAt, unrouted, misread, faults>>

broker == <<queue, retry, dead>>
producer == <<row, batch, returned>>
consumers == <<con, sending, confirms>>
history == <<relayed, skipped, failedAt, unrouted, misread>>

-----------------------------------------------------------------------------
Attempt == 0..MaxAttempt

Msg == [ev: Ev, att: Attempt]

\* "held": processEvent is to run; "awaiting": the retry copy is sent, its
\* confirmation is not in; then the delivery is to be acked, requeued or rejected.
Delivery == [pc: {"held", "awaiting", "ack", "requeue", "reject"}, msg: Msg]

NoDelivery == [pc |-> "idle"]

Answer == {"ack", "nack"}

TypeOK ==
    /\ row \in [Ev -> {"none", "pending", "published"}]
    /\ online \in BOOLEAN
    /\ up \in BOOLEAN
    /\ batch \in [Ev -> {"out", "unsent", "sent", "acked", "nacked"}]
    /\ returned \in BOOLEAN
    /\ queue \in [Msg -> Nat]
    /\ retry \in [Msg -> Nat]
    /\ dead \subseteq Ev
    /\ con \in [Consumer -> Delivery \cup {NoDelivery}]
    /\ sending \in [Consumer -> SUBSET Msg]
    /\ confirms \in [Consumer -> Seq(Answer)]
    /\ relayed \subseteq Ev
    /\ skipped \subseteq Ev
    /\ failedAt \in [Ev -> SUBSET Attempt]
    /\ unrouted \subseteq Ev
    /\ misread \subseteq Ev
    /\ faults \in Nat

Init ==
    /\ row = [e \in Ev |-> "none"]
    /\ online = FALSE
    /\ up = FALSE
    /\ batch = [e \in Ev |-> "out"]
    /\ returned = FALSE
    /\ queue = [m \in Msg |-> 0]
    /\ retry = [m \in Msg |-> 0]
    /\ dead = {}
    /\ con = [c \in Consumer |-> NoDelivery]
    /\ sending = [c \in Consumer |-> {}]
    /\ confirms = [c \in Consumer |-> <<>>]
    /\ relayed = {}
    /\ skipped = {}
    /\ failedAt = [e \in Ev |-> {}]
    /\ unrouted = {}
    /\ misread = {}
    /\ faults = 0

Fault ==
    /\ faults < MaxFaults
    /\ faults' = faults + 1

Put(q, m) == [q EXCEPT ![m] = @ + 1]

Take(q, m) == [q EXCEPT ![m] = @ - 1]

-----------------------------------------------------------------------------
(* Transactions of the API.                                                *)

\* Mutant: only the first publication writes a row.
EnqueueFirst(e) == row' = IF \A f \in Ev : row[f] = "none" THEN [row EXCEPT ![e] = "pending"] ELSE row

Enqueue(e) == row' = [row EXCEPT ![e] = "pending"]

\* publishVideo, and adminUpdateVideo when the video ends up with status 2: the
\* row is written in the transaction that makes the video visible.
Publish(e) ==
    /\ row[e] = "none"
    /\ \A f \in Ev : f < e => row[f] # "none"
    /\ online' = TRUE
    /\ Enqueue(e)
    /\ UNCHANGED <<up, batch, returned, broker, consumers, history, faults>>

\* adminUpdateVideo with status 3, or the author deletes the video.
TakeOffline ==
    /\ online
    /\ online' = FALSE
    /\ UNCHANGED <<up, producer, broker, consumers, history, faults>>

-----------------------------------------------------------------------------
(* The broker session: runWorker and runBrokerSession.                     *)


Connect ==
    /\ ~up
    /\ up' = TRUE
    /\ UNCHANGED <<online, producer, broker, consumers, history, faults>>

\* Deliveries of m the broker takes back when the connection goes.
Unsettled(m) == {c \in Consumer : con[c] # NoDelivery /\ con[c].msg = m}

\* The connection is closed: whatever was on its way is gone, and deliveries that
\* were not settled return to the queue.
EndSession ==
    /\ up
    /\ up' = FALSE
    /\ batch' = [e \in Ev |-> "out"]
    /\ returned' = FALSE
    /\ queue' = [m \in Msg |-> queue[m] + Cardinality(Unsettled(m))]
    /\ con' = [c \in Consumer |-> NoDelivery]
    /\ sending' = [c \in Consumer |-> {}]
    /\ confirms' = [c \in Consumer |-> <<>>]
    /\ UNCHANGED <<row, online, retry, dead, history>>

\* A lost connection, a database error, the 5 seconds of a batch, a shutdown or
\* a crash of the worker process.
Interrupted == Fault /\ EndSession

-----------------------------------------------------------------------------
(* publishOutbox and publishOutboxBatch.                                   *)

Pending == {e \in Ev : row[e] = "pending"}

InBatch == {e \in Ev : batch[e] # "out"}

\* ORDER BY created_at, id LIMIT outboxBatchSize.
Oldest == {e \in Pending : Cardinality({f \in Pending : f <= e}) <= BatchSize}

SelectRows ==
    /\ up
    /\ InBatch = {}
    /\ Pending # {}
    /\ batch' = [e \in Ev |-> IF e \in Oldest THEN "unsent" ELSE "out"]
    /\ UNCHANGED <<row, online, up, returned, broker, consumers, history, faults>>

SendRow(e) ==
    /\ batch[e] = "unsent"
    /\ batch' = [batch EXCEPT ![e] = "sent"]
    /\ UNCHANGED <<row, online, up, returned, broker, consumers, history, faults>>

\* The broker stores the message and confirms it.
ConfirmRow(e) ==
    /\ batch[e] = "sent"
    /\ batch' = [batch EXCEPT ![e] = "acked"]
    /\ queue' = Put(queue, [ev |-> e, att |-> 0])
    /\ UNCHANGED <<row, online, up, returned, retry, dead, consumers, history, faults>>

\* No queue is bound: the message comes back, and is confirmed all the same.
ReturnRow(e) ==
    /\ Fault
    /\ batch[e] = "sent"
    /\ batch' = [batch EXCEPT ![e] = "acked"]
    /\ returned' = TRUE
    /\ UNCHANGED <<row, online, up, broker, consumers, history>>

RefuseRow(e) ==
    /\ Fault
    /\ batch[e] = "sent"
    /\ batch' = [batch EXCEPT ![e] = "nacked"]
    /\ UNCHANGED <<row, online, up, returned, broker, consumers, history>>

\* Mutant: the returns are not looked at.
BatchConfirmedOnly == InBatch # {} /\ \A e \in InBatch : batch[e] = "acked"

BatchConfirmed ==
    /\ InBatch # {}
    /\ \A e \in InBatch : batch[e] = "acked"
    /\ ~returned

MarkPublished ==
    /\ BatchConfirmed
    /\ row' = [e \in Ev |-> IF e \in InBatch THEN "published" ELSE row[e]]
    /\ batch' = [e \in Ev |-> "out"]
    /\ UNCHANGED <<online, up, returned, broker, consumers, history, faults>>

\* A return or a negative confirmation ends the session.
BatchFails ==
    /\ returned \/ \E e \in Ev : batch[e] = "nacked"
    /\ EndSession
    /\ UNCHANGED faults

-----------------------------------------------------------------------------
(* consumeEvents and processEvent.                                         *)

SetCon(c, pc) == con' = [con EXCEPT ![c].pc = pc]

Deliver(c, m) ==
    /\ up
    /\ con[c] = NoDelivery
    /\ queue[m] > 0
    /\ queue' = Take(queue, m)
    /\ con' = [con EXCEPT ![c] = [pc |-> "held", msg |-> m]]
    /\ UNCHANGED <<online, up, producer, retry, dead, sending, confirms, history, faults>>

\* processEvent reads the video and relays it through publishCoreVideo.
Relay(c) ==
    /\ con[c].pc = "held"
    /\ online
    /\ relayed' = relayed \cup {con[c].msg.ev}
    /\ SetCon(c, "ack")
    /\ UNCHANGED <<online, up, producer, broker, sending, confirms, skipped, failedAt,
                   unrouted, misread, faults>>

\* The video is not visible: the event is obsolete and complete.
Skip(c) ==
    /\ con[c].pc = "held"
    /\ ~online
    /\ skipped' = skipped \cup {con[c].msg.ev}
    /\ SetCon(c, "ack")
    /\ UNCHANGED <<online, up, producer, broker, sending, confirms, relayed, failedAt,
                   unrouted, misread, faults>>

\* Mutant: one attempt too many.
ExhaustedLate(m) == m.att > MaxAttempt

\* Mutant: one attempt too few.
ExhaustedEarly(m) == m.att + 1 >= MaxAttempt

Exhausted(m) == m.att >= MaxAttempt

RetryCopy(m) == [ev |-> m.ev, att |-> m.att + 1]

\* processEvent fails, before the relay or because its confirmation never came:
\* the delivery is rejected, or a retry copy is sent; a publication that fails
\* on the spot requeues the delivery.
Fail(c) ==
    /\ Fault
    /\ con[c].pc = "held"
    /\ LET m == con[c].msg IN
       /\ failedAt' = [failedAt EXCEPT ![m.ev] = @ \cup {m.att}]
       /\ \/ UNCHANGED relayed
          \/ online /\ relayed' = relayed \cup {m.ev}
       /\ \/ /\ Exhausted(m)
             /\ SetCon(c, "reject")
             /\ UNCHANGED sending
          \/ /\ ~Exhausted(m)
             /\ SetCon(c, "awaiting")
             /\ sending' = [sending EXCEPT ![c] = {RetryCopy(m)}]
          \/ /\ ~Exhausted(m)
             /\ SetCon(c, "requeue")
             /\ UNCHANGED sending
    /\ UNCHANGED <<online, up, producer, broker, confirms, skipped, unrouted, misread>>

\* The broker stores the retry copy and confirms it.
ConfirmRetry(c) ==
    /\ \E m \in sending[c] : retry' = Put(retry, m)
    /\ sending' = [sending EXCEPT ![c] = {}]
    /\ confirms' = [confirms EXCEPT ![c] = Append(@, "ack")]
    /\ UNCHANGED <<online, up, producer, queue, dead, con, history, faults>>

RefuseRetry(c) ==
    /\ Fault
    /\ sending[c] # {}
    /\ sending' = [sending EXCEPT ![c] = {}]
    /\ confirms' = [confirms EXCEPT ![c] = Append(@, "nack")]
    /\ UNCHANGED <<online, up, producer, broker, con, history>>

\* No owlet.retry: the mandatory copy comes back and is confirmed all the same.
\* consumeEvents has asked for no returns (publishOutbox has).
ReturnRetry(c) ==
    /\ Fault
    /\ sending[c] # {}
    /\ unrouted' = unrouted \cup {m.ev : m \in sending[c]}
    /\ sending' = [sending EXCEPT ![c] = {}]
    /\ confirms' = [confirms EXCEPT ![c] = Append(@, "ack")]
    /\ UNCHANGED <<online, up, producer, broker, con, relayed, skipped, failedAt, misread>>

AfterConfirm(answer) == IF answer = "ack" THEN "ack" ELSE "requeue"

\* The first confirmation in the channel is not the one of the last copy sent.
Overtaken(c) == sending[c] # {} \/ Len(confirms[c]) > 1

\* case ack := <-confirm: whatever confirmation is first in the channel.
ReadConfirm(c) ==
    /\ con[c].pc = "awaiting"
    /\ confirms[c] # <<>>
    /\ SetCon(c, AfterConfirm(Head(confirms[c])))
    /\ confirms' = [confirms EXCEPT ![c] = Tail(@)]
    /\ misread' = IF Head(confirms[c]) = "ack" /\ Overtaken(c)
                  THEN misread \cup {con[c].msg.ev} ELSE misread
    /\ UNCHANGED <<online, up, producer, broker, sending, relayed, skipped, failedAt, unrouted,
                   faults>>

\* case <-time.After(5 * time.Second): the confirmation comes later.
ConfirmTimeout(c) ==
    /\ Fault
    /\ con[c].pc = "awaiting"
    /\ SetCon(c, "requeue")
    /\ UNCHANGED <<online, up, producer, broker, sending, confirms, history>>

\* The Ack, Nack or Reject reaches the broker, after any publication sent before
\* it on the same channel.
Settle(c) ==
    /\ con[c].pc \in {"ack", "requeue", "reject"}
    /\ sending[c] = {}
    /\ con' = [con EXCEPT ![c] = NoDelivery]
    /\ queue' = IF con[c].pc = "requeue" THEN Put(queue, con[c].msg) ELSE queue
    /\ dead' = IF con[c].pc = "reject" THEN dead \cup {con[c].msg.ev} ELSE dead
    /\ UNCHANGED <<online, up, producer, retry, sending, confirms, history, faults>>

\* The TTL of owlet.retry dead-letters the copy to owlet.events.
RetryExpires(m) ==
    /\ retry[m] > 0
    /\ retry' = Take(retry, m)
    /\ queue' = Put(queue, m)
    /\ UNCHANGED <<online, up, producer, dead, consumers, history, faults>>

-----------------------------------------------------------------------------
Api == (\E e \in Ev : Publish(e)) \/ TakeOffline

PublishOutbox ==
    \/ SelectRows \/ MarkPublished \/ BatchFails
    \/ \E e \in Ev : SendRow(e) \/ ConfirmRow(e) \/ ReturnRow(e) \/ RefuseRow(e)

ConsumeEvents(c) ==
    \/ \E m \in Msg : Deliver(c, m)
    \/ Relay(c) \/ Skip(c) \/ Fail(c)
    \/ ConfirmRetry(c) \/ RefuseRetry(c) \/ ReturnRetry(c)
    \/ ReadConfirm(c) \/ ConfirmTimeout(c) \/ Settle(c)

Next ==
    \/ Api
    \/ Connect
    \/ Interrupted
    \/ PublishOutbox
    \/ \E c \in Consumer : ConsumeEvents(c)
    \/ \E m \in Msg : RetryExpires(m)

\* runWorker reconnects for ever, the goroutines and the broker keep going, and a
\* message in a queue is delivered; users and faults are under no obligation.
Fairness ==
    /\ WF_vars(Connect)
    /\ WF_vars(SelectRows)
    /\ WF_vars(MarkPublished)
    /\ WF_vars(BatchFails)
    /\ \A e \in Ev : WF_vars(SendRow(e)) /\ WF_vars(ConfirmRow(e))
    /\ \A m \in Msg : WF_vars(RetryExpires(m)) /\ WF_vars(\E c \in Consumer : Deliver(c, m))
    /\ \A c \in Consumer : /\ WF_vars(Relay(c) \/ Skip(c))
                           /\ WF_vars(ConfirmRetry(c))
                           /\ WF_vars(ReadConfirm(c))
                           /\ WF_vars(Settle(c))

Spec == Init /\ [][Next]_vars

FairSpec == Spec /\ Fairness

-----------------------------------------------------------------------------
\* A copy of the event is in a queue or in the hands of a consumer.
Travelling(e) ==
    \/ \E m \in Msg : m.ev = e /\ queue[m] + retry[m] > 0
    \/ \E c \in Consumer : con[c] # NoDelivery /\ con[c].msg.ev = e

Completed(e) == e \in relayed \cup skipped \cup dead

\* The two ways in which consumeEvents gives an event up: a retry copy came back
\* unroutable and nobody listens for returns, or the confirmation of an earlier
\* copy, late, was taken for the one of the copy just sent.
GivenUp(e) == e \in unrouted \cup misread

\* A row marked published is relayed, found obsolete, kept in owlet.dead, or still
\* on its way, whatever sessions end, publications are refused or returned and
\* handlers fail; the only other end is one of the two ways consumeEvents gives
\* events up (publishOutboxBatch, consumeEvents, processEvent).
NoEventLost == \A e \in Ev : row[e] = "published" => Travelling(e) \/ Completed(e) \/ GivenUp(e)

\* "The extension outbox reliably relays uploaded video publication to GCFeed"
\* (coreWorker in core.go), while owlet.retry is there: a row marked published
\* is not lost to a confirmation that comes late.
RelaysReliably ==
    \A e \in Ev : row[e] = "published" => Travelling(e) \/ Completed(e) \/ e \in unrouted

\* Only an event whose handling failed at every attempt is in owlet.dead.
DeadOnlyAfterRetries == \A e \in dead : failedAt[e] = Attempt

\* "Restoring it queues a fresh event; obsolete publication is complete"
\* (processEvent): while the video is visible, the latest event about it has
\* not been skipped.
VisibleVideoNotSkipped ==
    online => \E e \in Ev : /\ row[e] # "none"
                            /\ \A f \in Ev : f > e => row[f] = "none"
                            /\ e \notin skipped

=============================================================================

-------------------------- MODULE OutboxRelayProofs --------------------------
(***************************************************************************)
(* Proofs about OutboxRelay, for any number of rows and consumers, any     *)
(* batch size and any number of attempts and faults.                       *)
(***************************************************************************)
EXTENDS OutboxRelay, FiniteSetTheorems, TLAPS

Holding(c) == con[c] # NoDelivery

\* A message stands for a row that was written, and its handling failed at every
\* attempt before its own.
Good(m) ==
    /\ row[m.ev] # "none"
    /\ \A a \in Attempt : a < m.att => a \in failedAt[m.ev]

Failed(m) == m.att \in failedAt[m.ev]

\* Every message that waits or is held is good, and a delivery to be rejected
\* failed at its last attempt.
MessageInv ==
    /\ \A m \in Msg : queue[m] > 0 \/ retry[m] > 0 => Good(m)
    /\ \A c \in Consumer : Holding(c) => Good(con[c].msg)
    /\ \A c \in Consumer : con[c].pc = "reject" =>
         con[c].msg.att = MaxAttempt /\ Failed(con[c].msg)

\* A retry copy under way is a good one of the delivery its consumer holds.
CopyOf(m, c) ==
    /\ con[c].pc \in {"awaiting", "ack", "requeue"}
    /\ m.ev = con[c].msg.ev
    /\ Good(m)

CopyInv == \A c \in Consumer : \A m \in sending[c] : CopyOf(m, c)

\* Rows are written in their order, and only written rows are sent or skipped.
RowInv ==
    /\ \A e, f \in Ev : f < e /\ row[e] # "none" => row[f] # "none"
    /\ \A e \in Ev : batch[e] # "out" => row[e] # "none"
    /\ \A e \in skipped : row[e] # "none"

IInv ==
    /\ TypeOK /\ MessageInv /\ CopyInv /\ RowInv
    /\ DeadOnlyAfterRetries /\ VisibleVideoNotSkipped

-----------------------------------------------------------------------------
\* The actions, one by one: what a case split on Next needs.
LEMMA NextCases ==
    ASSUME Next
    PROVE  \/ \E e \in Ev : Publish(e)
           \/ TakeOffline \/ Connect
           \/ EndSession /\ faults' \in {faults, faults + 1}
           \/ SelectRows \/ MarkPublished
           \/ \E e \in Ev : SendRow(e) \/ ConfirmRow(e) \/ ReturnRow(e) \/ RefuseRow(e)
           \/ \E c \in Consumer, m \in Msg : Deliver(c, m)
           \/ \E c \in Consumer : Relay(c) \/ Skip(c) \/ Fail(c)
           \/ \E c \in Consumer : ConfirmRetry(c) \/ RefuseRetry(c) \/ ReturnRetry(c)
           \/ \E c \in Consumer : ReadConfirm(c) \/ ConfirmTimeout(c) \/ Settle(c)
           \/ \E m \in Msg : RetryExpires(m)
BY DEF Next, Api, Interrupted, BatchFails, PublishOutbox, ConsumeEvents, Fault

\* A consumer past "idle" holds a delivery, which has a message.
LEMMA HoldingTypes ==
    ASSUME TypeOK, NEW c \in Consumer
    PROVE  /\ con[c].pc # "idle" => con[c] \in Delivery
           /\ con[c] \in Delivery <=> Holding(c)
           /\ con[c] \in Delivery => con[c].msg \in Msg
BY DEF TypeOK, Delivery, NoDelivery, Holding

\* Changing the step a consumer is at keeps the message.
LEMMA SetConTypes ==
    ASSUME TypeOK, NEW c \in Consumer, con[c] \in Delivery,
           NEW pc \in {"held", "awaiting", "ack", "requeue", "reject"}, SetCon(c, pc)
    PROVE  /\ con' \in [Consumer -> Delivery \cup {NoDelivery}]
           /\ con'[c] \in Delivery /\ con'[c].pc = pc /\ con'[c].msg = con[c].msg
           /\ \A d \in Consumer \ {c} : con'[d] = con[d]
BY DEF TypeOK, Delivery, NoDelivery, SetCon

\* The deliveries the broker takes back are finitely many, and counted.
LEMMA UnsettledCount ==
    ASSUME NEW m \in Msg
    PROVE  /\ Cardinality(Unsettled(m)) \in Nat
           /\ \A c \in Unsettled(m) : Cardinality(Unsettled(m)) > 0
<1>1. Unsettled(m) \subseteq Consumer
  BY DEF Unsettled
<1>2. IsFiniteSet(Unsettled(m))
  BY <1>1, OutboxConstants, FS_Subset
<1>3. Cardinality(Unsettled(m)) \in Nat
  BY <1>2, FS_CardinalityType
<1>4. Cardinality(Unsettled(m)) = 0 <=> Unsettled(m) = {}
  BY <1>2, FS_EmptySet
<1>5. QED
  BY <1>3, <1>4

\* A message added to a queue, or taken from one that holds it, leaves a queue.
LEMMA QueueTypes ==
    ASSUME NEW q \in [Msg -> Nat], NEW m
    PROVE  /\ Put(q, m) \in [Msg -> Nat]
           /\ \A n \in Msg : Put(q, m)[n] = IF n = m THEN q[n] + 1 ELSE q[n]
           /\ m \in Msg /\ q[m] > 0 => Take(q, m) \in [Msg -> Nat]
           /\ \A n \in Msg \ {m} : Take(q, m)[n] = q[n]
<1>1. Put(q, m) \in [Msg -> Nat]
  <2>1. m \in Msg => q[m] + 1 \in Nat
    OBVIOUS
  <2>2. Put(q, m) = [n \in Msg |-> IF n = m THEN q[m] + 1 ELSE q[n]]
    BY DEF Put
  <2>3. QED
    BY <2>1, <2>2
<1>2. \A n \in Msg : Put(q, m)[n] = IF n = m THEN q[n] + 1 ELSE q[n]
  BY DEF Put
<1>3. ASSUME m \in Msg, q[m] > 0 PROVE Take(q, m) \in [Msg -> Nat]
  <2>1. q[m] - 1 \in Nat
    BY <1>3
  <2>2. QED
    BY <1>3, <2>1 DEF Take
<1>4. \A n \in Msg \ {m} : Take(q, m)[n] = q[n]
  BY DEF Take
<1>5. QED
  BY <1>1, <1>2, <1>3, <1>4

\* What a message added or taken means for the messages that wait.
LEMMA QueueCounts ==
    ASSUME NEW q \in [Msg -> Nat], NEW m, NEW n \in Msg
    PROVE  /\ Put(q, m)[n] > 0 <=> q[n] > 0 \/ n = m
           /\ Take(q, m)[n] > 0 => q[n] > 0
           /\ n # m => Take(q, m)[n] = q[n]
<1>1. Put(q, m)[n] = IF n = m THEN q[n] + 1 ELSE q[n]
  BY QueueTypes
<1>2. q[n] \in Nat
  OBVIOUS
<1>3. Take(q, m)[n] = IF n = m THEN q[n] - 1 ELSE q[n]
  BY DEF Take
<1>4. QED
  BY <1>1, <1>2, <1>3

-----------------------------------------------------------------------------
\* The worker starts well typed.
LEMMA InitType == Init => TypeOK
<1> SUFFICES ASSUME Init PROVE TypeOK
  OBVIOUS
<1>1. <<>> \in Seq(Answer)
  OBVIOUS
<1>2. confirms \in [Consumer -> Seq(Answer)]
  BY <1>1 DEF Init
<1>3. queue \in [Msg -> Nat] /\ retry \in [Msg -> Nat]
  BY DEF Init
<1>4. con \in [Consumer -> Delivery \cup {NoDelivery}] /\ sending \in [Consumer -> SUBSET Msg]
  BY DEF Init
<1>5. row \in [Ev -> {"none", "pending", "published"}]
      /\ batch \in [Ev -> {"out", "unsent", "sent", "acked", "nacked"}]
      /\ failedAt \in [Ev -> SUBSET Attempt]
  BY DEF Init
<1>6. QED
  BY <1>2, <1>3, <1>4, <1>5 DEF Init, TypeOK

\* No step leaves the types; in particular, no queue counts below zero.
LEMMA TypeStep == TypeOK /\ [Next]_vars => TypeOK'
<1> SUFFICES ASSUME TypeOK, [Next]_vars PROVE TypeOK'
  OBVIOUS
<1>1. CASE UNCHANGED vars
  BY <1>1 DEF TypeOK, vars
<1>2. ASSUME NEW e \in Ev, Publish(e) PROVE TypeOK'
  BY <1>2 DEF TypeOK, Publish, Enqueue, broker, consumers, history
<1>3. CASE TakeOffline \/ Connect
  BY <1>3 DEF TypeOK, TakeOffline, Connect, producer, broker, consumers, history
<1>4. CASE EndSession /\ faults' \in {faults, faults + 1}
  <2>1. queue' \in [Msg -> Nat]
    BY <1>4, UnsettledCount DEF EndSession, TypeOK
  <2>2. con' \in [Consumer -> Delivery \cup {NoDelivery}]
    BY <1>4 DEF EndSession
  <2>3. confirms' \in [Consumer -> Seq(Answer)] /\ sending' \in [Consumer -> SUBSET Msg]
    BY <1>4 DEF EndSession
  <2>4. batch' \in [Ev -> {"out", "unsent", "sent", "acked", "nacked"}] /\ faults' \in Nat
    BY <1>4 DEF EndSession, TypeOK
  <2>5. up' \in BOOLEAN /\ returned' \in BOOLEAN
    BY <1>4 DEF EndSession
  <2>6. QED
    BY <1>4, <2>1, <2>2, <2>3, <2>4, <2>5 DEF TypeOK, EndSession, history
<1>5. CASE SelectRows \/ MarkPublished
  BY <1>5 DEF TypeOK, SelectRows, MarkPublished, broker, consumers, history
<1>6. ASSUME NEW e \in Ev, SendRow(e) \/ ReturnRow(e) \/ RefuseRow(e) PROVE TypeOK'
  <2>1. batch' \in [Ev -> {"out", "unsent", "sent", "acked", "nacked"}]
    BY <1>6 DEF TypeOK, SendRow, ReturnRow, RefuseRow
  <2>2. faults' \in Nat
    BY <1>6 DEF TypeOK, SendRow, ReturnRow, RefuseRow, Fault
  <2>3. returned' \in BOOLEAN
    BY <1>6, Zenon DEF TypeOK, SendRow, ReturnRow, RefuseRow
  <2>4. QED
    BY <1>6, <2>1, <2>2, <2>3
    DEF TypeOK, SendRow, ReturnRow, RefuseRow, broker, consumers, history
<1>7. ASSUME NEW e \in Ev, ConfirmRow(e) PROVE TypeOK'
  <2>1. queue' \in [Msg -> Nat]
    BY <1>7, QueueTypes DEF TypeOK, ConfirmRow
  <2>2. QED
    BY <1>7, <2>1 DEF TypeOK, ConfirmRow, consumers, history
<1>8. ASSUME NEW c \in Consumer, NEW m \in Msg, Deliver(c, m) PROVE TypeOK'
  <2>1. queue' \in [Msg -> Nat]
    BY <1>8, QueueTypes DEF TypeOK, Deliver
  <2>2. con' \in [Consumer -> Delivery \cup {NoDelivery}]
    BY <1>8 DEF TypeOK, Deliver, Delivery
  <2>3. QED
    BY <1>8, <2>1, <2>2 DEF TypeOK, Deliver, producer, history
<1>9. ASSUME NEW c \in Consumer, Relay(c) \/ Skip(c) PROVE TypeOK'
  <2>1. con[c] \in Delivery /\ con[c].msg.ev \in Ev
    BY <1>9, HoldingTypes DEF Relay, Skip, Msg
  <2>2. con' \in [Consumer -> Delivery \cup {NoDelivery}]
    BY <1>9, <2>1, SetConTypes DEF Relay, Skip
  <2>3. QED
    BY <1>9, <2>1, <2>2 DEF TypeOK, Relay, Skip, producer, broker
<1>10. ASSUME NEW c \in Consumer, Fail(c) PROVE TypeOK'
  <2>1. con[c] \in Delivery /\ con[c].msg.ev \in Ev /\ con[c].msg.att \in Attempt
    BY <1>10, HoldingTypes DEF Fail, Msg
  <2>2. con' \in [Consumer -> Delivery \cup {NoDelivery}]
    BY <1>10, <2>1, SetConTypes DEF Fail
  <2>3. failedAt' \in [Ev -> SUBSET Attempt]
    BY <1>10, <2>1 DEF TypeOK, Fail
  <2>4. relayed' \subseteq Ev
    BY <1>10, <2>1 DEF TypeOK, Fail
  <2>5. sending' \in [Consumer -> SUBSET Msg]
    <3>1. PICK m \in Msg : m = con[c].msg
      BY <2>1, HoldingTypes
    <3>2. m.ev \in Ev /\ m.att \in Attempt
      BY <3>1, <2>1
    <3>3. ~Exhausted(m) => RetryCopy(m) \in Msg
      BY <3>2, OutboxConstants DEF Exhausted, RetryCopy, Msg, Attempt
    <3>4. sending' = sending \/ (~Exhausted(m) /\ sending' = [sending EXCEPT ![c] = {RetryCopy(m)}])
      BY <1>10, <3>1 DEF Fail
    <3>5. PICK k : k = {RetryCopy(m)}
      OBVIOUS
    <3>6. ~Exhausted(m) => k \in SUBSET Msg
      BY <3>3, <3>5
    <3>7. sending \in [Consumer -> SUBSET Msg]
      BY DEF TypeOK
    <3>8. sending' = sending \/ (k \in SUBSET Msg /\ sending' = [sending EXCEPT ![c] = k])
      BY <3>4, <3>5, <3>6
    <3>9. QED
      BY <3>7, <3>8
  <2>6. faults' \in Nat
    BY <1>10 DEF TypeOK, Fail, Fault
  <2>7. QED
    BY <1>10, <2>2, <2>3, <2>4, <2>5, <2>6 DEF TypeOK, Fail, producer, broker
<1>11. ASSUME NEW c \in Consumer, ConfirmRetry(c) \/ RefuseRetry(c) \/ ReturnRetry(c) PROVE TypeOK'
  <2>1. retry' \in [Msg -> Nat]
    <3>1. CASE ConfirmRetry(c)
      BY <3>1, QueueTypes DEF TypeOK, ConfirmRetry
    <3>2. CASE RefuseRetry(c) \/ ReturnRetry(c)
      BY <3>2 DEF TypeOK, RefuseRetry, ReturnRetry, broker
    <3>3. QED
      BY <1>11, <3>1, <3>2
  <2>2. confirms' \in [Consumer -> Seq(Answer)]
    <3>1. \A a \in Answer : Append(confirms[c], a) \in Seq(Answer)
      BY DEF TypeOK
    <3>2. "ack" \in Answer /\ "nack" \in Answer
      BY DEF Answer
    <3>3. QED
      BY <1>11, <3>1, <3>2 DEF TypeOK, ConfirmRetry, RefuseRetry, ReturnRetry
  <2>3. sending' \in [Consumer -> SUBSET Msg]
    BY <1>11 DEF TypeOK, ConfirmRetry, RefuseRetry, ReturnRetry
  <2>4. faults' \in Nat
    BY <1>11 DEF TypeOK, ConfirmRetry, RefuseRetry, ReturnRetry, Fault
  <2>5. unrouted' \subseteq Ev
    <3>1. \A m \in sending[c] : m.ev \in Ev
      BY DEF TypeOK, Msg
    <3>2. {m.ev : m \in sending[c]} \subseteq Ev
      BY <3>1
    <3>3. unrouted' = unrouted \/ unrouted' = unrouted \cup {m.ev : m \in sending[c]}
      BY <1>11 DEF ConfirmRetry, RefuseRetry, ReturnRetry, history
    <3>4. unrouted \subseteq Ev
      BY DEF TypeOK
    <3>5. PICK k : k = {m.ev : m \in sending[c]}
      OBVIOUS
    <3>6. k \subseteq Ev /\ (unrouted' = unrouted \/ unrouted' = unrouted \cup k)
      BY <3>2, <3>3, <3>5
    <3>7. QED
      BY <3>4, <3>6
  <2>6. UNCHANGED <<online, up, producer, queue, dead, con, relayed, skipped, failedAt, misread>>
    BY <1>11 DEF ConfirmRetry, RefuseRetry, ReturnRetry, broker, history
  <2>7. QED
    BY <2>1, <2>2, <2>3, <2>4, <2>5, <2>6 DEF TypeOK, producer
<1>12. ASSUME NEW c \in Consumer, ReadConfirm(c) PROVE TypeOK'
  <2>1. con' \in [Consumer -> Delivery \cup {NoDelivery}]
    BY <1>12, HoldingTypes, SetConTypes DEF ReadConfirm, AfterConfirm
  <2>2. confirms' \in [Consumer -> Seq(Answer)]
    BY <1>12 DEF TypeOK, ReadConfirm
  <2>3. misread' \subseteq Ev
    <3>1. con[c].msg.ev \in Ev
      BY <1>12, HoldingTypes DEF ReadConfirm, Msg
    <3>2. QED
      BY <1>12, <3>1 DEF TypeOK, ReadConfirm
  <2>4. QED
    BY <1>12, <2>1, <2>2, <2>3 DEF TypeOK, ReadConfirm, producer, broker
<1>13. ASSUME NEW c \in Consumer, ConfirmTimeout(c) PROVE TypeOK'
  <2>1. con' \in [Consumer -> Delivery \cup {NoDelivery}]
    BY <1>13, HoldingTypes, SetConTypes DEF ConfirmTimeout
  <2>2. QED
    BY <1>13, <2>1 DEF TypeOK, ConfirmTimeout, Fault, producer, broker, history
<1>14. ASSUME NEW c \in Consumer, Settle(c) PROVE TypeOK'
  <2>1. con[c] \in Delivery /\ con[c].msg.ev \in Ev
    BY <1>14, HoldingTypes DEF Settle, Msg
  <2>2. queue' \in [Msg -> Nat] /\ dead' \subseteq Ev
    BY <1>14, <2>1, QueueTypes DEF TypeOK, Settle
  <2>3. con' \in [Consumer -> Delivery \cup {NoDelivery}]
    BY <1>14 DEF TypeOK, Settle
  <2>4. QED
    BY <1>14, <2>2, <2>3 DEF TypeOK, Settle, producer, history
<1>15. ASSUME NEW m \in Msg, RetryExpires(m) PROVE TypeOK'
  <2>1. queue' \in [Msg -> Nat] /\ retry' \in [Msg -> Nat]
    BY <1>15, QueueTypes DEF TypeOK, RetryExpires
  <2>2. QED
    BY <1>15, <2>1 DEF TypeOK, RetryExpires, producer, consumers, history
<1>16. QED
  BY <1>1, <1>2, <1>3, <1>4, <1>5, <1>6, <1>7, <1>8, <1>9, <1>10, <1>11, <1>12, <1>13,
     <1>14, <1>15, NextCases

\* Every variable stays in its type: counts of messages never become negative,
\* and what consumers hold are messages of the outbox.
THEOREM TypeCorrect == Spec => []TypeOK
BY InitType, TypeStep, PTL DEF Spec

-----------------------------------------------------------------------------
\* With no rows and empty queues the invariant holds.
LEMMA InitIInv == Init => IInv
<1> SUFFICES ASSUME Init PROVE IInv
  OBVIOUS
<1>1. MessageInv
  BY OutboxConstants DEF Init, MessageInv, Holding, NoDelivery
<1>2. CopyInv /\ RowInv /\ DeadOnlyAfterRetries /\ VisibleVideoNotSkipped
  BY DEF Init, CopyInv, RowInv, DeadOnlyAfterRetries, VisibleVideoNotSkipped
<1>3. QED
  BY <1>1, <1>2, InitType DEF IInv

\* Rows stay written and failures stay recorded, so good messages stay good.
LEMMA GoodStable ==
    ASSUME TypeOK, Next
    PROVE  /\ \A e \in Ev : row[e] # "none" => row'[e] # "none"
           /\ \A e \in Ev : failedAt[e] \subseteq failedAt'[e]
           /\ \A m \in Msg : Good(m) => Good(m)'
           /\ \A m \in Msg : Failed(m) => Failed(m)'
<1>1. \A e \in Ev : row[e] # "none" => row'[e] # "none"
  <2>1. ASSUME NEW e \in Ev, Publish(e) PROVE \A f \in Ev : row[f] # "none" => row'[f] # "none"
    BY <2>1 DEF Publish, Enqueue, TypeOK
  <2>2. CASE MarkPublished
    BY <2>2 DEF MarkPublished, TypeOK
  <2>3. CASE UNCHANGED row
    BY <2>3
  <2>4. QED
    BY <2>1, <2>2, <2>3, NextCases
    DEF TakeOffline, Connect, EndSession, SelectRows, SendRow, ConfirmRow, ReturnRow, RefuseRow,
        Deliver, Relay, Skip, Fail, ConfirmRetry, RefuseRetry, ReturnRetry, ReadConfirm,
        ConfirmTimeout, Settle, RetryExpires, producer
<1>2. \A e \in Ev : failedAt[e] \subseteq failedAt'[e]
  <2>1. ASSUME NEW c \in Consumer, Fail(c) PROVE \A e \in Ev : failedAt[e] \subseteq failedAt'[e]
    BY <2>1 DEF Fail, TypeOK
  <2>2. CASE UNCHANGED failedAt
    BY <2>2
  <2>3. QED
    BY <2>1, <2>2, NextCases
    DEF Publish, TakeOffline, Connect, EndSession, SelectRows, MarkPublished, SendRow, ConfirmRow,
        ReturnRow, RefuseRow, Deliver, Relay, Skip, ConfirmRetry, RefuseRetry, ReturnRetry,
        ReadConfirm, ConfirmTimeout, Settle, RetryExpires, history
<1>3. QED
  BY <1>1, <1>2 DEF Good, Failed, Msg

\* Every step keeps the messages good: only consumeEvents' failures raise an attempt.
LEMMA MessageStep == IInv /\ Next => MessageInv'
<1> SUFFICES ASSUME IInv, Next PROVE MessageInv'
  OBVIOUS
<1> TypeOK /\ TypeOK' /\ MessageInv /\ CopyInv /\ RowInv
  BY TypeStep DEF IInv
<1>1. CASE UNCHANGED <<queue, retry, con>>
  BY <1>1, GoodStable, HoldingTypes DEF MessageInv, Holding
<1>2. CASE EndSession
  <2>1. ASSUME NEW m \in Msg, queue'[m] > 0 \/ retry'[m] > 0 PROVE Good(m)'
    <3>1. CASE queue[m] > 0 \/ retry[m] > 0
      BY <3>1, GoodStable DEF MessageInv
    <3>2. CASE Cardinality(Unsettled(m)) # 0
      <4>1. Unsettled(m) # {}
        BY <3>2, FS_EmptySet
      <4>2. Good(m)
        BY <4>1 DEF Unsettled, MessageInv, Holding
      <4>3. QED
        BY <4>2, GoodStable
    <3>3. QED
      BY <1>2, <2>1, <3>1, <3>2, UnsettledCount DEF EndSession, TypeOK
  <2>2. \A c \in Consumer : con'[c] = NoDelivery
    BY <1>2 DEF EndSession
  <2>3. QED
    BY <2>1, <2>2 DEF MessageInv, Holding, NoDelivery
<1>3. ASSUME NEW e \in Ev, ConfirmRow(e) PROVE MessageInv'
  <2>1. ASSUME NEW m \in Msg, queue'[m] > 0 \/ retry'[m] > 0 PROVE Good(m)'
    <3>1. CASE queue[m] > 0 \/ retry[m] > 0
      BY <3>1, GoodStable DEF MessageInv
    <3>2. CASE m = [ev |-> e, att |-> 0]
      <4>1. Good(m)
        BY <1>3, <3>2, OutboxConstants DEF ConfirmRow, RowInv, Good, Attempt
      <4>2. QED
        BY <4>1, GoodStable
    <3>3. queue[m] > 0 \/ retry[m] > 0 \/ m = [ev |-> e, att |-> 0]
      <4>1. queue' = Put(queue, [ev |-> e, att |-> 0]) /\ retry' = retry
        BY <1>3 DEF ConfirmRow
      <4>2. queue \in [Msg -> Nat]
        BY DEF TypeOK
      <4>3. QED
        BY <2>1, <4>1, <4>2, QueueCounts
    <3>4. QED
      BY <3>1, <3>2, <3>3
  <2>2. UNCHANGED con
    BY <1>3 DEF ConfirmRow, consumers
  <2>3. QED
    BY <2>1, <2>2, GoodStable, HoldingTypes DEF MessageInv, Holding
<1>4. ASSUME NEW c \in Consumer, NEW m \in Msg, Deliver(c, m) PROVE MessageInv'
  <2>1. \A n \in Msg : queue'[n] > 0 \/ retry'[n] > 0 => queue[n] > 0 \/ retry[n] > 0
    BY <1>4, QueueCounts DEF Deliver, TypeOK
  <2>2. con'[c].msg = m /\ con'[c].pc = "held" /\ \A d \in Consumer \ {c} : con'[d] = con[d]
    BY <1>4 DEF Deliver, TypeOK
  <2>3. Good(m)
    BY <1>4 DEF Deliver, MessageInv
  <2>4. QED
    BY <2>1, <2>2, <2>3, GoodStable, HoldingTypes DEF MessageInv, Holding
<1>5. ASSUME NEW c \in Consumer, Relay(c) \/ Skip(c) \/ ReadConfirm(c) \/ ConfirmTimeout(c)
      PROVE  MessageInv'
  <2>1. con[c] \in Delivery /\ con[c].pc \in {"held", "awaiting"}
    BY <1>5, HoldingTypes DEF Relay, Skip, ReadConfirm, ConfirmTimeout
  <2>2. PICK pc \in {"ack", "requeue"} : SetCon(c, pc)
    <3>1. CASE Relay(c) \/ Skip(c)
      BY <3>1 DEF Relay, Skip
    <3>2. CASE ReadConfirm(c)
      BY <3>2 DEF ReadConfirm, AfterConfirm
    <3>3. CASE ConfirmTimeout(c)
      BY <3>3 DEF ConfirmTimeout
    <3>4. QED
      BY <1>5, <3>1, <3>2, <3>3
  <2>3. con'[c].pc = pc /\ con'[c].msg = con[c].msg /\ \A d \in Consumer \ {c} : con'[d] = con[d]
    BY <2>1, <2>2, SetConTypes
  <2>4. UNCHANGED <<queue, retry>>
    BY <1>5 DEF Relay, Skip, ReadConfirm, ConfirmTimeout, broker
  <2>5. QED
    BY <2>1, <2>2, <2>3, <2>4, GoodStable, HoldingTypes DEF MessageInv, Holding
<1>6. ASSUME NEW c \in Consumer, Fail(c) PROVE MessageInv'
  <2>1. con[c] \in Delivery /\ con[c].msg \in Msg
    BY <1>6, HoldingTypes DEF Fail
  <2>2. PICK pc \in {"reject", "awaiting", "requeue"} :
          SetCon(c, pc) /\ (pc = "reject" => Exhausted(con[c].msg))
    BY <1>6 DEF Fail
  <2>3. con'[c].pc = pc /\ con'[c].msg = con[c].msg /\ \A d \in Consumer \ {c} : con'[d] = con[d]
    BY <2>1, <2>2, SetConTypes
  <2>4. Failed(con[c].msg)'
    BY <1>6, <2>1, <2>3 DEF Fail, Failed, Msg, TypeOK
  <2>5. pc = "reject" => con[c].msg.att = MaxAttempt
    BY <2>1, <2>2, OutboxConstants DEF Exhausted, Msg, Attempt
  <2>6. UNCHANGED <<queue, retry>>
    BY <1>6 DEF Fail, broker
  <2>7. QED
    BY <2>1, <2>2, <2>3, <2>4, <2>5, <2>6, GoodStable, HoldingTypes DEF MessageInv, Holding
<1>7. ASSUME NEW c \in Consumer, ConfirmRetry(c) PROVE MessageInv'
  <2>1. PICK k \in sending[c] : retry' = Put(retry, k)
    BY <1>7 DEF ConfirmRetry
  <2>2. ASSUME NEW m \in Msg, queue'[m] > 0 \/ retry'[m] > 0 PROVE Good(m)'
    <3>1. CASE queue[m] > 0 \/ retry[m] > 0
      BY <3>1, GoodStable DEF MessageInv
    <3>2. CASE m = k
      <4>1. Good(m)
        BY <2>1, <3>2 DEF CopyInv, CopyOf
      <4>2. QED
        BY <4>1, GoodStable
    <3>3. QED
      BY <1>7, <2>1, <2>2, <3>1, <3>2, QueueCounts DEF ConfirmRetry, TypeOK
  <2>3. UNCHANGED con
    BY <1>7 DEF ConfirmRetry
  <2>4. QED
    BY <2>2, <2>3, GoodStable, HoldingTypes DEF MessageInv, Holding
<1>8. ASSUME NEW c \in Consumer, Settle(c) PROVE MessageInv'
  <2>1. con[c] \in Delivery /\ con[c].msg \in Msg /\ Good(con[c].msg)
    BY <1>8, HoldingTypes DEF Settle, MessageInv
  <2>2. \A m \in Msg : queue'[m] > 0 \/ retry'[m] > 0 =>
          queue[m] > 0 \/ retry[m] > 0 \/ m = con[c].msg
    <3>1. queue' \in {queue, Put(queue, con[c].msg)} /\ retry' = retry
      BY <1>8 DEF Settle
    <3>2. queue \in [Msg -> Nat]
      BY DEF TypeOK
    <3>3. QED
      BY <3>1, <3>2, QueueCounts
  <2>3. con'[c] = NoDelivery /\ (\A d \in Consumer \ {c} : con'[d] = con[d])
    BY <1>8 DEF Settle, TypeOK
  <2>4. QED
    BY <2>1, <2>2, <2>3, GoodStable, HoldingTypes DEF MessageInv, Holding, NoDelivery
<1>9. ASSUME NEW m \in Msg, RetryExpires(m) PROVE MessageInv'
  <2>1. \A n \in Msg : queue'[n] > 0 \/ retry'[n] > 0 => queue[n] > 0 \/ retry[n] > 0
    <3>1. queue' = Put(queue, m) /\ retry' = Take(retry, m) /\ retry[m] > 0
      BY <1>9 DEF RetryExpires
    <3>2. queue \in [Msg -> Nat] /\ retry \in [Msg -> Nat]
      BY DEF TypeOK
    <3>3. \A n \in Msg : queue'[n] > 0 => queue[n] > 0 \/ n = m
      BY <3>1, <3>2, QueueCounts
    <3>4. \A n \in Msg : retry'[n] > 0 => retry[n] > 0
      BY <3>1, <3>2, QueueCounts
    <3>5. QED
      BY <3>1, <3>3, <3>4
  <2>2. UNCHANGED con
    BY <1>9 DEF RetryExpires, consumers
  <2>3. QED
    BY <2>1, <2>2, GoodStable, HoldingTypes DEF MessageInv, Holding
<1>10. QED
  BY <1>1, <1>2, <1>3, <1>4, <1>5, <1>6, <1>7, <1>8, <1>9, NextCases
  DEF Publish, TakeOffline, Connect, SelectRows, MarkPublished, SendRow, ReturnRow, RefuseRow,
      RefuseRetry, ReturnRetry, broker, consumers

\* A consumer that holds nothing, or has yet to handle its delivery, sends nothing.
LEMMA NothingSent ==
    ASSUME CopyInv, NEW c \in Consumer, con[c].pc \in {"idle", "held", "reject"}
    PROVE  sending[c] = {}
BY DEF CopyInv, CopyOf

\* A copy stays one of its delivery while consumeEvents waits and settles.
LEMMA CopyKept ==
    ASSUME TypeOK, CopyInv, Next, NEW d \in Consumer, NEW m \in sending[d],
           con'[d].msg = con[d].msg, con'[d].pc \in {con[d].pc, "ack", "requeue"}
    PROVE  CopyOf(m, d)'
<1>1. CopyOf(m, d)
  BY DEF CopyInv
<1>2. m \in Msg
  BY DEF TypeOK
<1>3. Good(m)'
  BY <1>1, <1>2, GoodStable DEF CopyOf
<1>4. QED
  BY <1>1, <1>3 DEF CopyOf

\* The copies under way stay good ones, of the deliveries they were made from.
LEMMA CopyStep == IInv /\ Next => CopyInv'
<1> SUFFICES ASSUME IInv, Next, NEW d \in Consumer, NEW m \in sending'[d] PROVE CopyOf(m, d)'
  BY DEF CopyInv
<1> TypeOK /\ TypeOK' /\ MessageInv /\ CopyInv
  BY TypeStep DEF IInv
<1>1. CASE sending'[d] \subseteq sending[d] /\ con'[d] = con[d]
  BY <1>1, CopyKept
<1>2. CASE EndSession
  BY <1>2 DEF EndSession
<1>3. ASSUME NEW c \in Consumer \ {d}, NEW n \in Msg,
             \/ Deliver(c, n) \/ Relay(c) \/ Skip(c) \/ Fail(c) \/ ConfirmRetry(c)
             \/ RefuseRetry(c) \/ ReturnRetry(c) \/ ReadConfirm(c) \/ ConfirmTimeout(c) \/ Settle(c)
      PROVE  CopyOf(m, d)'
  <2>1. sending'[d] = sending[d] /\ con'[d] = con[d]
    BY <1>3 DEF Deliver, Relay, Skip, Fail, ConfirmRetry, RefuseRetry, ReturnRetry, ReadConfirm,
       ConfirmTimeout, Settle, SetCon, TypeOK
  <2>2. QED
    BY <1>1, <2>1
<1>4. ASSUME NEW n \in Msg, Deliver(d, n) \/ Relay(d) \/ Skip(d) PROVE CopyOf(m, d)'
  <2>1. con[d].pc \in {"idle", "held"} /\ sending' = sending
    BY <1>4 DEF Deliver, Relay, Skip, NoDelivery
  <2>2. QED
    BY <2>1, NothingSent
<1>5. CASE ReadConfirm(d) \/ ConfirmTimeout(d)
  <2>1. con[d] \in Delivery /\ sending' = sending
    BY <1>5, HoldingTypes DEF ReadConfirm, ConfirmTimeout
  <2>2. PICK pc \in {"ack", "requeue"} : SetCon(d, pc)
    BY <1>5 DEF ReadConfirm, ConfirmTimeout, AfterConfirm
  <2>3. con'[d].pc = pc /\ con'[d].msg = con[d].msg
    BY <2>1, <2>2, SetConTypes
  <2>4. QED
    BY <2>1, <2>2, <2>3, CopyKept
<1>6. CASE ConfirmRetry(d) \/ RefuseRetry(d) \/ ReturnRetry(d)
  BY <1>6 DEF ConfirmRetry, RefuseRetry, ReturnRetry, TypeOK
<1>7. CASE Settle(d)
  BY <1>7 DEF Settle
<1>8. CASE Fail(d)
  <2>1. con[d] \in Delivery /\ con[d].msg \in Msg /\ Good(con[d].msg) /\ con[d].pc = "held"
    BY <1>8, HoldingTypes DEF Fail, MessageInv
  <2>2. sending[d] = {}
    BY <2>1, NothingSent
  <2>3. SetCon(d, "awaiting") /\ sending' = [sending EXCEPT ![d] = {RetryCopy(con[d].msg)}]
    BY <1>8, <2>2 DEF Fail
  <2>4. PICK n \in Msg : n = con[d].msg
    BY <2>1
  <2>5. m = RetryCopy(n)
    BY <2>3, <2>4 DEF TypeOK
  <2>6. con'[d].pc = "awaiting" /\ con'[d].msg = n
    BY <2>1, <2>3, <2>4, SetConTypes
  <2>7. Good(n)'
    BY <2>1, <2>4, GoodStable
  <2>8. n.att \in failedAt'[n.ev]
    <3>1. failedAt' = [failedAt EXCEPT ![n.ev] = @ \cup {n.att}]
      BY <1>8, <2>4 DEF Fail
    <3>2. n.ev \in Ev
      BY DEF Msg
    <3>3. QED
      BY <3>1, <3>2 DEF TypeOK
  <2>9. m.ev = n.ev /\ m.att = n.att + 1 /\ n.att \in Nat
    BY <2>5, OutboxConstants DEF RetryCopy, Msg, Attempt
  <2>10. \A a \in Attempt : a < m.att => a < n.att \/ a = n.att
    BY <2>9, OutboxConstants DEF Attempt
  <2>11. Good(m)'
    BY <2>7, <2>8, <2>9, <2>10 DEF Good
  <2>12. QED
    BY <2>6, <2>9, <2>11 DEF CopyOf
<1>9. CASE UNCHANGED <<con, sending>>
  BY <1>1, <1>9
<1>10. m \in Msg
  BY DEF TypeOK
<1>11. QED
  BY <1>2, <1>3, <1>4, <1>5, <1>6, <1>7, <1>8, <1>9, <1>10, NextCases
  DEF Publish, TakeOffline, Connect, SelectRows, MarkPublished, SendRow, ConfirmRow, ReturnRow,
      RefuseRow, RetryExpires, consumers

\* Rows stay in the order enqueue wrote them, and making the video visible writes a
\* row that nobody has skipped.
LEMMA RowStep == IInv /\ Next => RowInv' /\ VisibleVideoNotSkipped'
<1> SUFFICES ASSUME IInv, Next PROVE RowInv' /\ VisibleVideoNotSkipped'
  OBVIOUS
<1> TypeOK /\ TypeOK' /\ MessageInv /\ RowInv /\ VisibleVideoNotSkipped
  BY TypeStep DEF IInv
<1>1. CASE UNCHANGED <<row, online, batch, skipped>>
  BY <1>1 DEF RowInv, VisibleVideoNotSkipped
<1>2. ASSUME NEW e \in Ev, Publish(e) PROVE RowInv' /\ VisibleVideoNotSkipped'
  <2>1. \A f \in Ev : row'[f] # "none" <=> (row[f] # "none" \/ f = e)
    BY <1>2 DEF Publish, Enqueue, TypeOK
  <2>2. \A f \in Ev : f > e => row[f] = "none"
    BY <1>2 DEF Publish, RowInv
  <2>3. e \notin skipped /\ UNCHANGED <<skipped, batch>>
    BY <1>2 DEF Publish, RowInv, history
  <2>4. \A f, g \in Ev : g < f /\ row'[f] # "none" => row'[g] # "none"
    BY <1>2, <2>1 DEF Publish, RowInv
  <2>5. RowInv'
    BY <2>1, <2>3, <2>4 DEF RowInv, TypeOK
  <2>6. VisibleVideoNotSkipped'
    <3>1. \A f \in Ev : f > e => row'[f] = "none"
      BY <2>1, <2>2, OutboxConstants
    <3>2. QED
      BY <2>1, <2>3, <3>1 DEF VisibleVideoNotSkipped
  <2>7. QED
    BY <2>5, <2>6
<1>3. CASE TakeOffline
  BY <1>3 DEF TakeOffline, producer, history, RowInv, VisibleVideoNotSkipped
<1>4. CASE EndSession
  BY <1>4 DEF EndSession, history, RowInv, VisibleVideoNotSkipped
<1>5. CASE SelectRows
  <2>1. \A e \in Ev : batch'[e] # "out" => row[e] # "none"
    BY <1>5 DEF SelectRows, Oldest, Pending
  <2>2. QED
    BY <1>5, <2>1 DEF SelectRows, history, RowInv, VisibleVideoNotSkipped
<1>6. CASE MarkPublished
  <2>1. \A e \in Ev : row'[e] # "none" <=> row[e] # "none"
    BY <1>6 DEF MarkPublished, InBatch, RowInv
  <2>2. \A e \in Ev : batch'[e] = "out"
    BY <1>6 DEF MarkPublished
  <2>3. UNCHANGED <<online, skipped>>
    BY <1>6 DEF MarkPublished, history
  <2>4. RowInv'
    BY <2>1, <2>2, <2>3 DEF RowInv, TypeOK
  <2>5. VisibleVideoNotSkipped'
    BY <2>1, <2>3 DEF VisibleVideoNotSkipped
  <2>6. QED
    BY <2>4, <2>5
<1>7. ASSUME NEW e \in Ev, SendRow(e) \/ ConfirmRow(e) \/ ReturnRow(e) \/ RefuseRow(e)
      PROVE  RowInv' /\ VisibleVideoNotSkipped'
  <2>1. \A f \in Ev : batch'[f] # "out" <=> batch[f] # "out"
    BY <1>7 DEF SendRow, ConfirmRow, ReturnRow, RefuseRow, TypeOK
  <2>2. UNCHANGED <<row, online, skipped>>
    BY <1>7 DEF SendRow, ConfirmRow, ReturnRow, RefuseRow, history
  <2>3. QED
    BY <2>1, <2>2 DEF RowInv, VisibleVideoNotSkipped
<1>8. ASSUME NEW c \in Consumer, Skip(c) PROVE RowInv' /\ VisibleVideoNotSkipped'
  <2>1. con[c] \in Delivery /\ row[con[c].msg.ev] # "none"
    BY <1>8, HoldingTypes DEF Skip, MessageInv, Good
  <2>2. QED
    BY <1>8, <2>1 DEF Skip, producer, RowInv, VisibleVideoNotSkipped
<1>9. QED
  BY <1>1, <1>2, <1>3, <1>4, <1>5, <1>6, <1>7, <1>8, NextCases
  DEF Connect, Deliver, Relay, Fail, ConfirmRetry, RefuseRetry, ReturnRetry, ReadConfirm,
      ConfirmTimeout, Settle, RetryExpires, producer, history

\* Only a delivery rejected at its last attempt adds to owlet.dead.
LEMMA DeadStep == IInv /\ Next => DeadOnlyAfterRetries'
<1> SUFFICES ASSUME IInv, Next, NEW e \in dead' PROVE failedAt'[e] = Attempt
  BY DEF DeadOnlyAfterRetries
<1> TypeOK /\ TypeOK' /\ MessageInv /\ DeadOnlyAfterRetries
  BY TypeStep DEF IInv
<1>1. CASE e \in dead
  <2>1. failedAt[e] = Attempt /\ e \in Ev
    BY <1>1 DEF DeadOnlyAfterRetries, TypeOK
  <2>2. QED
    BY <2>1, GoodStable DEF TypeOK
<1>2. ASSUME NEW c \in Consumer, Settle(c), con[c].pc = "reject", e = con[c].msg.ev
      PROVE  failedAt'[e] = Attempt
  <2>1. con[c] \in Delivery /\ con[c].msg \in Msg
    BY <1>2, HoldingTypes
  <2>2. Good(con[c].msg) /\ Failed(con[c].msg) /\ con[c].msg.att = MaxAttempt
    BY <1>2, <2>1, HoldingTypes DEF MessageInv
  <2>3. Attempt \subseteq failedAt[e]
    BY <1>2, <2>2, OutboxConstants DEF Good, Failed, Attempt
  <2>4. QED
    BY <1>2, <2>1, <2>3 DEF Settle, history, TypeOK, Msg
<1>3. CASE UNCHANGED dead
  BY <1>1, <1>3
<1>4. QED
  BY <1>1, <1>2, <1>3, NextCases
  DEF Publish, TakeOffline, Connect, EndSession, SelectRows, MarkPublished, SendRow, ConfirmRow,
      ReturnRow, RefuseRow, Deliver, Relay, Skip, Fail, ConfirmRetry, RefuseRetry, ReturnRetry,
      ReadConfirm, ConfirmTimeout, Settle, RetryExpires, broker

\* The invariant the properties below follow from holds in every reachable state.
THEOREM Inductive == Spec => []IInv
<1>1. IInv /\ [Next]_vars => IInv'
  <2> SUFFICES ASSUME IInv, [Next]_vars PROVE IInv'
    OBVIOUS
  <2>1. CASE Next
    BY <2>1, TypeStep, MessageStep, CopyStep, RowStep, DeadStep DEF IInv
  <2>2. CASE UNCHANGED vars
    <3>1. TypeOK'
      BY TypeStep DEF IInv
    <3>2. MessageInv' /\ CopyInv' /\ RowInv'
      BY <2>2 DEF vars, IInv, MessageInv, CopyInv, CopyOf, RowInv, Good, Failed, Holding
    <3>3. DeadOnlyAfterRetries' /\ VisibleVideoNotSkipped'
      BY <2>2 DEF vars, IInv, DeadOnlyAfterRetries, VisibleVideoNotSkipped
    <3>4. QED
      BY <3>1, <3>2, <3>3 DEF IInv
  <2>3. QED
    BY <2>1, <2>2
<1>2. QED
  BY <1>1, InitIInv, PTL DEF Spec

\* An event reaches owlet.dead only after failing at every attempt, whatever
\* sessions end and whatever confirmations are late.
THEOREM DeadAfterRetries == Spec => []DeadOnlyAfterRetries
<1>1. IInv => DeadOnlyAfterRetries
  BY DEF IInv
<1>2. QED
  BY <1>1, Inductive, PTL

\* While the video is visible, the latest event about it has not been dropped
\* as obsolete.
THEOREM VisibleNotSkipped == Spec => []VisibleVideoNotSkipped
<1>1. IInv => VisibleVideoNotSkipped
  BY DEF IInv
<1>2. QED
  BY <1>1, Inductive, PTL

-----------------------------------------------------------------------------
(* No event is lost, except the ones consumeEvents gives up.               *)

\* The last confirmation in the channel, which is that of the copy last sent once
\* it has reached the broker.
Own(c) == confirms[c][Len(confirms[c])]

\* The event depends on this delivery: it was not handled, and no retry copy of
\* it is known to be stored.
Carries(c, e) ==
    /\ Holding(c)
    /\ con[c].msg.ev = e
    /\ \/ con[c].pc \in {"held", "requeue", "reject"}
       \/ con[c].pc = "awaiting" /\ (sending[c] # {} \/ Own(c) # "ack")

Queued(e) == \E m \in Msg : m.ev = e /\ (queue[m] > 0 \/ retry[m] > 0)

Safe(e) ==
    \/ Queued(e)
    \/ \E c \in Consumer : Carries(c, e)
    \/ Completed(e) \/ GivenUp(e)

\* What the broker has confirmed, and not returned, is safe before it is marked.
SafeInv ==
    \A e \in Ev : row[e] = "published" \/ (batch[e] = "acked" /\ ~returned) => Safe(e)

\* What is relayed, skipped, dead or given up stays so.
LEMMA CompletedStable ==
    ASSUME Next, NEW e \in Ev, Completed(e) \/ GivenUp(e)
    PROVE  (Completed(e) \/ GivenUp(e))'
BY NextCases
DEF Completed, GivenUp, Publish, TakeOffline, Connect, EndSession, SelectRows, MarkPublished, SendRow,
    ConfirmRow, ReturnRow, RefuseRow, Deliver, Relay, Skip, Fail, ConfirmRetry, RefuseRetry,
    ReturnRetry, ReadConfirm, ConfirmTimeout, Settle, RetryExpires, broker, history

\* A message leaves the queues only for a consumer's hands or for the other queue.
LEMMA QueuedStable ==
    ASSUME TypeOK, Next, NEW e \in Ev, Queued(e)
    PROVE  Safe(e)'
<1> TypeOK'
  BY TypeStep
<1> queue \in [Msg -> Nat] /\ retry \in [Msg -> Nat]
  BY DEF TypeOK
<1>1. PICK m \in Msg : m.ev = e /\ (queue[m] > 0 \/ retry[m] > 0)
  BY DEF Queued
<1>2. CASE queue'[m] > 0 \/ retry'[m] > 0
  BY <1>1, <1>2 DEF Safe, Queued
<1>3. CASE UNCHANGED <<queue, retry>>
  BY <1>1, <1>2, <1>3
<1>4. CASE EndSession
  <2>1. queue'[m] = queue[m] + Cardinality(Unsettled(m)) /\ retry' = retry
    BY <1>4 DEF EndSession
  <2>2. Cardinality(Unsettled(m)) \in Nat /\ queue[m] \in Nat
    BY UnsettledCount
  <2>3. queue[m] > 0 => queue'[m] > 0
    BY <2>1, <2>2
  <2>4. QED
    BY <1>1, <1>2, <2>1, <2>3
<1>5. ASSUME NEW f \in Ev, ConfirmRow(f) PROVE Safe(e)'
  <2>1. queue[m] > 0 => queue'[m] > 0
    BY <1>5, QueueCounts DEF ConfirmRow
  <2>2. QED
    BY <1>1, <1>2, <1>5, <2>1 DEF ConfirmRow
<1>6. ASSUME NEW c \in Consumer, NEW n \in Msg, Deliver(c, n) PROVE Safe(e)'
  <2>1. CASE n = m
    <3>1. con'[c].pc = "held" /\ con'[c].msg = m
      BY <1>6, <2>1 DEF Deliver, TypeOK
    <3>2. Carries(c, e)'
      BY <1>1, <3>1 DEF Carries, Holding, NoDelivery
    <3>3. QED
      BY <3>2 DEF Safe
  <2>2. CASE n # m
    <3>1. queue'[m] = queue[m] /\ retry' = retry
      BY <1>6, <2>2, QueueCounts DEF Deliver
    <3>2. QED
      BY <1>1, <1>2, <3>1
  <2>3. QED
    BY <2>1, <2>2
<1>7. ASSUME NEW c \in Consumer, ConfirmRetry(c) PROVE Safe(e)'
  <2>1. PICK k : retry' = Put(retry, k)
    BY <1>7 DEF ConfirmRetry
  <2>2. retry[m] > 0 => retry'[m] > 0
    BY <2>1, QueueCounts
  <2>3. QED
    BY <1>1, <1>2, <1>7, <2>2 DEF ConfirmRetry
<1>8. ASSUME NEW c \in Consumer, Settle(c) PROVE Safe(e)'
  <2>1. queue' \in {queue, Put(queue, con[c].msg)} /\ retry' = retry
    BY <1>8 DEF Settle
  <2>2. queue[m] > 0 => queue'[m] > 0
    BY <2>1, QueueCounts
  <2>3. QED
    BY <1>1, <1>2, <2>1, <2>2
<1>9. ASSUME NEW n \in Msg, RetryExpires(n) PROVE Safe(e)'
  <2>1. queue' = Put(queue, n) /\ retry' = Take(retry, n)
    BY <1>9 DEF RetryExpires
  <2>2. queue[m] > 0 \/ n = m => queue'[m] > 0
    BY <2>1, QueueCounts
  <2>3. n # m => retry'[m] = retry[m]
    BY <2>1, QueueCounts
  <2>4. QED
    BY <1>1, <1>2, <2>2, <2>3
<1>10. QED
  BY <1>3, <1>4, <1>5, <1>6, <1>7, <1>8, <1>9, NextCases
  DEF Publish, TakeOffline, Connect, SelectRows, MarkPublished, SendRow, ReturnRow, RefuseRow,
      Relay, Skip, Fail, RefuseRetry, ReturnRetry, ReadConfirm, ConfirmTimeout, broker

\* A consumer lets go of a delivery only when the event is complete, a copy of it
\* is in a queue, or it is given up.
LEMMA CarriesStable ==
    ASSUME TypeOK, CopyInv, Next, NEW e \in Ev, NEW c \in Consumer, Carries(c, e)
    PROVE  Safe(e)'
<1> TypeOK'
  BY TypeStep
<1> queue \in [Msg -> Nat] /\ retry \in [Msg -> Nat]
  BY DEF TypeOK
<1>1. con[c] \in Delivery /\ con[c].msg \in Msg /\ con[c].msg.ev = e
  BY HoldingTypes DEF Carries
<1>2. CASE con'[c] = con[c] /\ confirms'[c] = confirms[c] /\ sending'[c] = sending[c]
  BY <1>2 DEF Carries, Safe, Holding, Own
<1>3. CASE EndSession
  <2>1. c \in Unsettled(con[c].msg)
    BY <1>1 DEF Unsettled, Carries, Holding
  <2>2. queue'[con[c].msg] > 0
    BY <1>1, <1>3, <2>1, UnsettledCount DEF EndSession
  <2>3. QED
    BY <1>1, <2>2 DEF Safe, Queued
<1>4. ASSUME NEW d \in Consumer \ {c}, NEW m \in Msg,
             \/ Deliver(d, m) \/ Relay(d) \/ Skip(d) \/ Fail(d) \/ ConfirmRetry(d)
             \/ RefuseRetry(d) \/ ReturnRetry(d) \/ ReadConfirm(d) \/ ConfirmTimeout(d) \/ Settle(d)
      PROVE  Safe(e)'
  BY <1>2, <1>4 DEF Deliver, Relay, Skip, Fail, ConfirmRetry, RefuseRetry, ReturnRetry, ReadConfirm,
     ConfirmTimeout, Settle, SetCon, TypeOK
<1>5. ASSUME NEW m \in Msg, Deliver(c, m) PROVE Safe(e)'
  BY <1>5 DEF Deliver, Carries, Holding
<1>6. CASE Relay(c) \/ Skip(c)
  BY <1>1, <1>6 DEF Relay, Skip, Safe, Completed
<1>7. CASE Fail(c)
  <2>1. PICK pc \in {"reject", "awaiting", "requeue"} :
          SetCon(c, pc) /\ (pc = "awaiting" => sending' = [sending EXCEPT ![c] = {RetryCopy(con[c].msg)}])
    BY <1>7 DEF Fail
  <2>2. con'[c].pc = pc /\ con'[c].msg = con[c].msg /\ con'[c] \in Delivery
    BY <1>1, <2>1, SetConTypes
  <2>3. pc = "awaiting" => sending'[c] # {}
    BY <2>1 DEF TypeOK
  <2>4. Carries(c, e)'
    BY <1>1, <2>1, <2>2, <2>3 DEF Carries, Holding, NoDelivery
  <2>5. QED
    BY <2>4 DEF Safe
<1>8. CASE ConfirmRetry(c)
  <2>1. PICK k \in sending[c] : retry' = Put(retry, k)
    BY <1>8 DEF ConfirmRetry
  <2>2. k \in Msg /\ k.ev = e
    BY <1>1, <2>1 DEF TypeOK, CopyInv, CopyOf
  <2>3. retry'[k] > 0
    BY <2>1, <2>2, QueueCounts
  <2>4. QED
    BY <2>2, <2>3 DEF Safe, Queued
<1>9. CASE RefuseRetry(c)
  <2>1. PICK s \in Seq(Answer) : s = confirms[c]
    BY DEF TypeOK
  <2>2. confirms'[c] = Append(s, "nack") /\ con' = con
    BY <1>9, <2>1 DEF RefuseRetry, TypeOK
  <2>3. Len(Append(s, "nack")) = Len(s) + 1 /\ Append(s, "nack")[Len(s) + 1] = "nack"
    OBVIOUS
  <2>4. Own(c)' = "nack"
    BY <2>2, <2>3 DEF Own
  <2>5. Carries(c, e)'
    BY <2>2, <2>4 DEF Carries, Holding
  <2>6. QED
    BY <2>5 DEF Safe
<1>10. CASE ReturnRetry(c)
  <2>1. PICK k : k \in sending[c]
    BY <1>10 DEF ReturnRetry
  <2>2. k.ev = e
    BY <1>1, <2>1 DEF CopyInv, CopyOf
  <2>3. e \in {m.ev : m \in sending[c]}
    BY <2>1, <2>2
  <2>4. e \in unrouted'
    BY <1>10, <2>3, Zenon DEF ReturnRetry
  <2>5. QED
    BY <2>4 DEF Safe, GivenUp
<1>11. CASE ReadConfirm(c)
  <2>1. PICK s \in Seq(Answer) : s = confirms[c] /\ s # <<>>
    BY <1>11 DEF TypeOK, ReadConfirm
  <2>2. con[c].pc = "awaiting" /\ (sending[c] # {} \/ s[Len(s)] # "ack")
    BY <1>11, <2>1 DEF ReadConfirm, Carries, Own
  <2>3. CASE Head(s) = "ack"
    <3>1. Overtaken(c)
      <4>1. CASE sending[c] # {}
        BY <4>1 DEF Overtaken
      <4>2. CASE s[Len(s)] # "ack"
        <5>1. Len(s) \in Nat /\ Len(s) > 0 /\ Head(s) = s[1]
          BY <2>1
        <5>2. Len(s) # 1
          BY <2>3, <4>2, <5>1
        <5>3. PICK n \in Nat : n = Len(s)
          BY <5>1
        <5>4. n > 0 /\ n # 1
          BY <5>1, <5>2, <5>3
        <5>5. n > 1
          BY <5>4
        <5>6. QED
          BY <2>1, <5>3, <5>5 DEF Overtaken
      <4>3. QED
        BY <2>2, <4>1, <4>2
    <3>2. e \in misread'
      BY <1>1, <1>11, <2>1, <2>3, <3>1 DEF ReadConfirm
    <3>3. QED
      BY <3>2 DEF Safe, GivenUp
  <2>4. CASE Head(s) # "ack"
    <3>1. SetCon(c, "requeue")
      BY <1>11, <2>1, <2>4 DEF ReadConfirm, AfterConfirm
    <3>2. con'[c].pc = "requeue" /\ con'[c].msg = con[c].msg /\ con'[c] \in Delivery
      BY <1>1, <3>1, SetConTypes
    <3>3. Carries(c, e)'
      BY <1>1, <3>2 DEF Carries, Holding, NoDelivery
    <3>4. QED
      BY <3>3 DEF Safe
  <2>5. QED
    BY <2>3, <2>4
<1>12. CASE ConfirmTimeout(c)
  <2>1. con'[c].pc = "requeue" /\ con'[c].msg = con[c].msg /\ con'[c] \in Delivery
    BY <1>1, <1>12, SetConTypes DEF ConfirmTimeout
  <2>2. Carries(c, e)'
    BY <1>1, <2>1 DEF Carries, Holding, NoDelivery
  <2>3. QED
    BY <2>2 DEF Safe
<1>13. CASE Settle(c)
  <2>1. con[c].pc \in {"requeue", "reject"}
    BY <1>13 DEF Settle, Carries
  <2>2. CASE con[c].pc = "requeue"
    <3>1. queue'[con[c].msg] > 0
      BY <1>1, <1>13, <2>2, QueueCounts DEF Settle
    <3>2. QED
      BY <1>1, <3>1 DEF Safe, Queued
  <2>3. CASE con[c].pc = "reject"
    BY <1>1, <1>13, <2>3 DEF Settle, Safe, Completed
  <2>4. QED
    BY <2>1, <2>2, <2>3
<1>14. Msg # {}
  BY <1>1
<1>15. QED
  BY <1>2, <1>3, <1>4, <1>5, <1>6, <1>7, <1>8, <1>9, <1>10, <1>11, <1>12, <1>13, <1>14, NextCases
  DEF Publish, TakeOffline, Connect, SelectRows, MarkPublished, SendRow, ConfirmRow, ReturnRow,
      RefuseRow, RetryExpires, consumers

\* A published row stays safe over every step.
LEMMA SafeStep ==
    ASSUME TypeOK, CopyInv, SafeInv, Next
    PROVE  SafeInv'
<1> TypeOK'
  BY TypeStep
<1>1. \A e \in Ev : Safe(e) => Safe(e)'
  BY CompletedStable, QueuedStable, CarriesStable DEF Safe
<1>2. CASE UNCHANGED producer
  BY <1>1, <1>2 DEF SafeInv, producer
<1>3. ASSUME NEW e \in Ev, Publish(e) PROVE SafeInv'
  <2>1. \A f \in Ev : row'[f] = "published" => row[f] = "published"
    BY <1>3 DEF Publish, Enqueue, TypeOK
  <2>2. QED
    BY <1>1, <1>3, <2>1 DEF SafeInv, Publish
<1>4. CASE EndSession
  BY <1>1, <1>4 DEF EndSession, SafeInv
<1>5. CASE SelectRows
  BY <1>1, <1>5 DEF SelectRows, SafeInv
<1>6. CASE MarkPublished
  BY <1>1, <1>6 DEF MarkPublished, BatchConfirmed, SafeInv
<1>7. ASSUME NEW e \in Ev, SendRow(e) \/ RefuseRow(e) \/ ReturnRow(e) PROVE SafeInv'
  <2>1. \A f \in Ev : batch'[f] = "acked" /\ ~returned' => batch[f] = "acked" /\ ~returned
    BY <1>7 DEF SendRow, RefuseRow, ReturnRow, TypeOK
  <2>2. UNCHANGED row
    BY <1>7 DEF SendRow, RefuseRow, ReturnRow
  <2>3. QED
    BY <1>1, <2>1, <2>2 DEF SafeInv
<1>8. ASSUME NEW e \in Ev, ConfirmRow(e) PROVE SafeInv'
  <2>1. [ev |-> e, att |-> 0] \in Msg
    BY OutboxConstants DEF Msg, Attempt
  <2>2. queue'[[ev |-> e, att |-> 0]] > 0
    <3>1. queue' = Put(queue, [ev |-> e, att |-> 0]) /\ queue \in [Msg -> Nat]
      BY <1>8 DEF ConfirmRow, TypeOK
    <3>2. QED
      BY <2>1, <3>1, QueueCounts
  <2>3. Safe(e)'
    BY <2>1, <2>2 DEF Safe, Queued
  <2>4. \A f \in Ev \ {e} : batch'[f] = batch[f]
    BY <1>8 DEF ConfirmRow, TypeOK
  <2>5. UNCHANGED <<row, returned>>
    BY <1>8 DEF ConfirmRow
  <2>6. QED
    BY <1>1, <2>3, <2>4, <2>5 DEF SafeInv
<1>9. QED
  BY <1>2, <1>3, <1>4, <1>5, <1>6, <1>7, <1>8, NextCases
  DEF TakeOffline, Connect, Deliver, Relay, Skip, Fail, ConfirmRetry, RefuseRetry, ReturnRetry,
      ReadConfirm, ConfirmTimeout, Settle, RetryExpires

\* A row marked published is relayed, found obsolete, dead-lettered, still on its
\* way, or was given up by consumeEvents in one of the two ways GivenUp names,
\* whatever sessions end, publications are refused or returned, confirmations
\* are late and handlers fail.
THEOREM EventNotLost == Spec => []NoEventLost
<1>1. Init => SafeInv
  BY DEF Init, SafeInv
<1>2. IInv /\ SafeInv /\ [Next]_vars => SafeInv'
  <2> SUFFICES ASSUME IInv, SafeInv, [Next]_vars PROVE SafeInv'
    OBVIOUS
  <2>1. CASE Next
    BY <2>1, SafeStep DEF IInv
  <2>2. CASE UNCHANGED vars
    <3>1. \A e \in Ev : Safe(e) => Safe(e)'
      BY <2>2 DEF vars, Safe, Queued, Carries, Holding, Own, Completed, GivenUp
    <3>2. QED
      BY <2>2, <3>1 DEF vars, SafeInv
  <2>3. QED
    BY <2>1, <2>2
<1>3. IInv /\ SafeInv => NoEventLost
  <2> SUFFICES ASSUME IInv, SafeInv, NEW e \in Ev, row[e] = "published"
               PROVE  Travelling(e) \/ Completed(e) \/ GivenUp(e)
    BY DEF NoEventLost
  <2>1. Safe(e)
    BY DEF SafeInv
  <2>2. ASSUME Queued(e) PROVE Travelling(e)
    <3>1. PICK m \in Msg : m.ev = e /\ (queue[m] > 0 \/ retry[m] > 0)
      BY <2>2 DEF Queued
    <3>2. queue[m] \in Nat /\ retry[m] \in Nat
      BY DEF IInv, TypeOK
    <3>3. queue[m] + retry[m] > 0
      BY <3>1, <3>2
    <3>4. QED
      BY <3>1, <3>3 DEF Travelling
  <2>3. ASSUME NEW c \in Consumer, Carries(c, e) PROVE Travelling(e)
    BY <2>3 DEF Carries, Travelling, Holding
  <2>4. QED
    BY <2>1, <2>2, <2>3 DEF Safe
<1>4. QED
  BY <1>1, <1>2, <1>3, Inductive, PTL DEF Spec
=============================================================================

------------------------- MODULE InteractionsProofs --------------------------
(***************************************************************************)
(* Proofs about NotificationStream, MessageCentre, Comments and            *)
(* ActionPipeline, for any number of users, requests, messages and         *)
(* comments, any page size, any period and any timeout below it.           *)
(***************************************************************************)
EXTENDS MCInteractions, OrderLemmas, SequenceTheorems, FiniteSetTheorems, TLAPS

(***************************************************************************)
(* NotificationStream.                                                     *)
(***************************************************************************)

\* How old a message the client was not told of can be, by where the handler
\* is: what a subscription waits for is counted in waited, and what the select
\* waits for in phase, unless a tick is already at hand.
StreamInv ==
    /\ StreamTypeOK
    /\ phase < Period
    /\ loop = "closed" => unseen = -1
    /\ loop \in {"opening", "resubscribing"} => unseen <= waited
    /\ loop \in {"select", "resubscribing"} /\ ~pending => unseen <= phase
    /\ unseen <= Period

\* The ticker's phase starts again when it reaches the period.
LEMMA PhaseWraps ==
    ASSUME NEW n \in Nat, NEW m \in Nat, n < m
    PROVE  (n + 1) % m = IF n + 1 = m THEN 0 ELSE n + 1
OBVIOUS

\* The numbers of the invariant, apart from where the handler is.
StreamNumbers(ph, wt, un) ==
    /\ ph \in 0..Period /\ ph < Period
    /\ wt \in 0..RedisTimeout
    /\ un \in {-1} \cup 0..(3 * Period) /\ un <= Period

\* The invariant, from its parts.
LEMMA StreamInvParts ==
    ASSUME StreamNumbers(phase, waited, unseen),
           loop \in {"closed", "opening", "select", "resubscribing"},
           sub \in BOOLEAN, pending \in BOOLEAN,
           sub => loop = "select",
           loop = "closed" => unseen = -1,
           loop \in {"opening", "resubscribing"} => unseen <= waited,
           loop \in {"select", "resubscribing"} /\ ~pending => unseen <= phase
    PROVE  StreamInv
BY Zenon DEF StreamNumbers, StreamInv, StreamTypeOK

\* A client that is not connected has nothing to miss.
LEMMA StreamInvInit == StreamInit => StreamInv
<1> SUFFICES ASSUME StreamInit PROVE StreamInv
  OBVIOUS
<1>1. StreamNumbers(0, 0, -1)
  BY StreamConstants DEF StreamNumbers
<1>2. loop = "closed" /\ sub = FALSE /\ pending = FALSE /\ phase = 0 /\ waited = 0 /\ unseen = -1
  BY DEF StreamInit
<1>3. QED
  BY <1>1, <1>2, StreamInvParts

\* Every step of the loop, and time, keep the client within a period.
LEMMA StreamInvNext == ASSUME StreamInv, [StreamNext]_streamVars PROVE StreamInv'
<1>c. Period \in Nat /\ Period # 0 /\ RedisTimeout \in Nat /\ RedisTimeout <= Period
  BY StreamConstants
<1>t. /\ loop \in {"closed", "opening", "select", "resubscribing"}
      /\ sub \in BOOLEAN /\ pending \in BOOLEAN
      /\ sub => loop = "select"
      /\ StreamNumbers(phase, waited, unseen)
      /\ loop = "closed" => unseen = -1
      /\ loop \in {"opening", "resubscribing"} => unseen <= waited
      /\ loop \in {"select", "resubscribing"} /\ ~pending => unseen <= phase
  BY Zenon DEF StreamInv, StreamTypeOK, StreamNumbers
<1>n. /\ phase \in Nat /\ phase < Period /\ waited \in Nat /\ waited <= RedisTimeout
      /\ unseen \in Int /\ -1 <= unseen /\ unseen <= Period
      /\ -1 <= phase /\ -1 <= waited /\ -1 <= 0
  BY <1>c, <1>t DEF StreamNumbers
<1>z. /\ StreamNumbers(phase, 0, unseen) /\ StreamNumbers(0, waited, -1)
      /\ StreamNumbers(phase, 0, -1) /\ StreamNumbers(phase, waited, -1) /\ StreamNumbers(0, 0, -1)
      /\ StreamNumbers(phase, waited, 0)
  BY <1>c, <1>n, <1>t DEF StreamNumbers
<1>p. ASSUME StreamNumbers(phase', waited', unseen'),
             loop' \in {"closed", "opening", "select", "resubscribing"},
             sub' \in BOOLEAN, pending' \in BOOLEAN,
             sub' => loop' = "select",
             loop' = "closed" => unseen' = -1,
             loop' \in {"opening", "resubscribing"} => unseen' <= waited',
             loop' \in {"select", "resubscribing"} /\ ~pending' => unseen' <= phase'
      PROVE  StreamInv'
  BY <1>p, Zenon DEF StreamNumbers, StreamInv, StreamTypeOK
<1>1. CASE StreamOpen
  <2>1. unseen' = -1 /\ waited' = 0 /\ phase' = phase /\ loop' = "opening"
        /\ sub' = sub /\ pending' = pending
    BY <1>1, <1>t, Zenon DEF StreamOpen
  <2>2. ~sub
    BY <1>1, <1>t, Zenon DEF StreamOpen
  <2>3. QED
    BY <1>n, <1>t, <1>z, <1>p, <2>1, <2>2, Zenon
<1>2. ASSUME NEW ok \in BOOLEAN, StreamOpened(ok) PROVE StreamInv'
  <2>1. unseen' = -1 /\ waited' = waited /\ phase' = 0 /\ loop' = "select"
        /\ sub' = ok /\ pending' = FALSE
    BY <1>2, Zenon DEF StreamOpened, Refresh
  <2>2. QED
    BY <1>n, <1>z, <1>p, <2>1, Zenon
<1>3. CASE StreamTick
  <2>1. unseen' = -1 /\ waited' = 0 /\ phase' = phase /\ sub' = sub /\ pending' = FALSE
        /\ loop' = IF sub THEN "select" ELSE "resubscribing"
    BY <1>3, Zenon DEF StreamTick, Refresh
  <2>2. QED
    BY <1>n, <1>z, <1>t, <1>p, <2>1, Zenon
<1>4. ASSUME NEW ok \in BOOLEAN, Resubscribed(ok) PROVE StreamInv'
  <2>1. loop = "resubscribing" /\ loop' = "select" /\ sub' = ok
        /\ unseen' = unseen /\ waited' = waited /\ phase' = phase /\ pending' = pending
    BY <1>4, Zenon DEF Resubscribed
  <2>2. QED
    BY <1>t, <1>p, <2>1, Zenon
<1>5. CASE StreamSignal
  <2>1. unseen' = -1 /\ loop' = loop /\ waited' = waited /\ phase' = phase /\ pending' = pending
        /\ sub' = sub
    BY <1>5, Zenon DEF StreamSignal, Refresh
  <2>2. QED
    BY <1>n, <1>t, <1>z, <1>p, <2>1, Zenon
<1>6. CASE ChannelClosed
  <2>1. loop' = loop /\ waited' = waited /\ phase' = phase /\ pending' = pending
        /\ unseen' = unseen /\ sub' = FALSE
    BY <1>6, Zenon DEF ChannelClosed
  <2>2. QED
    BY <1>t, <1>p, <2>1, Zenon
<1>7. CASE StreamClose
  <2>1. unseen' = -1 /\ waited' = 0 /\ phase' = 0 /\ loop' = "closed"
        /\ sub' = FALSE /\ pending' = FALSE
    BY <1>7, Zenon DEF StreamClose
  <2>2. QED
    BY <1>n, <1>z, <1>p, <2>1, Zenon
<1>8. CASE MessageCommitted
  <2>1. unseen' = 0 /\ loop' = loop /\ waited' = waited /\ phase' = phase /\ pending' = pending
        /\ sub' = sub /\ loop # "closed"
    BY <1>8, Zenon DEF MessageCommitted
  <2>2. 0 <= phase /\ 0 <= waited
    BY <1>n
  <2>3. QED
    BY <1>t, <1>z, <1>p, <2>1, <2>2, Zenon
<1>9. CASE TimePasses
  <2> DEFINE older == IF unseen = -1 THEN -1 ELSE unseen + 1
  <2>1. unseen' = older /\ loop' = loop /\ sub' = sub /\ loop # "closed"
        /\ ~(loop = "select" /\ pending)
    BY <1>9, Zenon DEF TimePasses
  <2>2. older \in Int /\ -1 <= older /\ older <= unseen + 1
    BY <1>n
  <2>3. CASE loop = "opening"
    <3>1. waited' = waited + 1 /\ waited < RedisTimeout /\ phase' = phase /\ pending' = pending
      BY <1>9, <2>3, Zenon DEF TimePasses
    <3>2. unseen <= waited
      BY <1>t, <2>3
    <3>3. older <= waited + 1 /\ StreamNumbers(phase, waited + 1, older)
      BY <1>c, <1>n, <2>2, <3>1, <3>2 DEF StreamNumbers
    <3> HIDE DEF older
    <3>4. QED
      BY <1>t, <1>p, <2>1, <2>3, <3>1, <3>3, Zenon
  <2>4. CASE loop \in {"select", "resubscribing"}
    <3> DEFINE next == IF phase + 1 = Period THEN 0 ELSE phase + 1
    <3>0. phase' = next /\ pending' = (pending \/ phase + 1 = Period)
      <4>1. phase' = (phase + 1) % Period /\ pending' = (pending \/ phase + 1 = Period)
        BY <1>9, <2>4, Zenon DEF TimePasses
      <4>2. (phase + 1) % Period = next
        BY <1>c, <1>n, PhaseWraps
      <4>3. QED
        BY <4>1, <4>2
    <3>1. pending' \in BOOLEAN
      BY <1>t, <3>0, Zenon
    <3>2. ~pending' => ~pending /\ phase + 1 # Period
      BY <1>t, <3>0, Zenon
    <3>3. ~pending' => older <= next
      <4>1. ~pending' => unseen <= phase
        BY <1>t, <2>4, <3>2, Zenon
      <4>2. ASSUME unseen <= phase, phase + 1 # Period PROVE older <= next
        BY <1>n, <2>2, <4>2
      <4> HIDE DEF older, next
      <4>3. QED
        BY <3>2, <4>1, <4>2, Zenon
    <3>4. next \in Nat /\ next < Period
      BY <1>c, <1>n
    <3>5. CASE loop = "resubscribing"
      <4>1. waited' = waited + 1 /\ waited < RedisTimeout
        BY <1>9, <3>5, Zenon DEF TimePasses
      <4>2. unseen <= waited
        BY <1>t, <3>5
      <4> HIDE DEF next
      <4>3. older <= waited + 1 /\ StreamNumbers(next, waited + 1, older)
        BY <1>c, <1>n, <2>2, <3>4, <4>1, <4>2 DEF StreamNumbers
      <4> HIDE DEF older
      <4>4. QED
        BY <1>t, <1>p, <2>1, <3>0, <3>1, <3>3, <3>5, <4>1, <4>3, Zenon
    <3>6. CASE loop = "select"
      <4>1. waited' = waited
        BY <1>9, <3>6, Zenon DEF TimePasses
      <4>2. unseen <= phase
        BY <1>t, <2>1, <3>6, Zenon
      <4> HIDE DEF next
      <4>3. StreamNumbers(next, waited, older)
        BY <1>c, <1>n, <2>2, <3>4, <4>2 DEF StreamNumbers
      <4> HIDE DEF older
      <4>4. QED
        BY <1>t, <1>p, <2>1, <3>0, <3>1, <3>3, <3>6, <4>1, <4>3, Zenon
    <3>7. QED
      BY <2>4, <3>5, <3>6
  <2>5. QED
    BY <1>t, <2>1, <2>3, <2>4
<1>10. CASE UNCHANGED streamVars
  BY <1>10 DEF streamVars, StreamInv, StreamTypeOK
<1>11. QED
  BY <1>1, <1>2, <1>3, <1>4, <1>5, <1>6, <1>7, <1>8, <1>9, <1>10 DEF StreamNext

\* The loop's variables are well typed in every reachable state.
THEOREM StreamTyped == StreamSpec => []StreamTypeOK
<1>1. StreamInv => StreamTypeOK
  BY DEF StreamInv
<1>2. QED
  BY <1>1, StreamInvInit, StreamInvNext, PTL DEF StreamSpec

\* No connected client is more than one period behind, with Redis up, down or
\* coming and going, as long as a subscription waits no longer than a period.
THEOREM NeverBehind == StreamSpec => []NeverFarBehind
<1>1. StreamInv => NeverFarBehind
  BY DEF StreamInv, NeverFarBehind
<1>2. QED
  BY <1>1, StreamInvInit, StreamInvNext, PTL DEF StreamSpec

-----------------------------------------------------------------------------
(***************************************************************************)
(* MessageCentre.                                                          *)
(***************************************************************************)

\* What the rows and the mentions under way are, whatever a list has shown.
ToldInv ==
    /\ message \in Seq(MessageRow)
    /\ mention \in [Mentioner -> Happening \cup {NoMention}]
    /\ \A p \in Mentioner : mention[p] # NoMention => mention[p].receiver # mention[p].actor
    /\ ToldOnce

\* The rows of the table are rows, numbered from 1.
LEMMA MessageTypes ==
    ASSUME message \in Seq(MessageRow)
    PROVE  /\ Len(message) \in Nat /\ DOMAIN message = 1..Len(message)
           /\ \A i \in DOMAIN message : message[i] \in MessageRow
BY LenProperties, ElementOfSeq

\* The insert of a message nobody has been told of.
LEMMA InsertKeeps ==
    ASSUME ToldInv, NEW e \in Happening, e.receiver # e.actor, NEW at \in 1..MaxStamp,
           EventFree(e.receiver, e), InsertMessage(e.receiver, e, at)
    PROVE  message' \in Seq(MessageRow) /\ ToldOnce'
<1> DEFINE r == [user |-> e.receiver, event |-> e, at |-> at, read |-> FALSE]
           n == Len(message)
<1>1. e.receiver \in Reader
  BY MessageConstants
<1>2. r \in MessageRow /\ r.user = e.receiver /\ r.event = e
  BY <1>1 DEF MessageRow
<1>3. message \in Seq(MessageRow) /\ message' = Append(message, r)
  BY DEF ToldInv, InsertMessage
<1> HIDE DEF r
<1>4. /\ message' \in Seq(MessageRow) /\ n \in Nat
      /\ DOMAIN message = 1..n /\ DOMAIN message' = 1..(n + 1)
      /\ message'[n + 1] = r /\ \A i \in 1..n : message'[i] = message[i]
  BY <1>2, <1>3, LenProperties, AppendProperties
<1>5. \A i \in 1..n : ~(message[i].user = e.receiver /\ message[i].event = e)
  BY <1>4 DEF EventFree, Known
<1> HIDE DEF n
<1>6. ASSUME NEW i \in DOMAIN message', NEW j \in DOMAIN message',
             message'[i].user = message'[j].user, message'[i].event = message'[j].event
      PROVE  i = j
  <2>1. (i \in 1..n \/ i = n + 1) /\ (j \in 1..n \/ j = n + 1)
    BY <1>4
  <2>2. QED
    BY <1>2, <1>4, <1>5, <1>6, <2>1 DEF ToldInv, ToldOnce
<1>7. ASSUME NEW i \in DOMAIN message' PROVE message'[i].event.actor # message'[i].user
  <2>1. i \in 1..n \/ i = n + 1
    BY <1>4
  <2>2. QED
    BY <1>2, <1>4, <2>1 DEF ToldInv, ToldOnce
<1>8. QED
  BY <1>4, <1>6, <1>7 DEF ToldOnce

\* Marking messages as read tells nobody anything.
LEMMA MarkKeeps ==
    ASSUME ToldInv, NEW u, NEW ids, MarkRead(u, ids)
    PROVE  ToldInv'
<1>1. /\ UNCHANGED mention
      /\ message' = [i \in DOMAIN message |-> IF i \in Marked(u, ids)
                                              THEN [message[i] EXCEPT !.read = TRUE] ELSE message[i]]
  BY DEF MarkRead
<1>2. /\ Len(message) \in Nat /\ DOMAIN message = 1..Len(message)
      /\ \A i \in DOMAIN message : message[i] \in MessageRow
  BY MessageTypes DEF ToldInv
<1>3. \A i \in DOMAIN message : /\ message'[i] \in MessageRow
                                /\ message'[i].user = message[i].user
                                /\ message'[i].event = message[i].event
  BY <1>1, <1>2 DEF MessageRow
<1>4. DOMAIN message' = DOMAIN message
  BY <1>1
<1>5. message' \in Seq(MessageRow)
  BY <1>1, <1>2, <1>3
<1>6. ToldOnce'
  BY <1>3, <1>4 DEF ToldInv, ToldOnce
<1>7. QED
  BY <1>1, <1>5, <1>6 DEF ToldInv

\* Nobody has been told of anything.
LEMMA ToldInit == MessageInit => ToldInv
BY EmptySeq DEF MessageInit, ToldInv, ToldOnce

\* A step tells of one event at most, and of none that is there.
LEMMA ToldNext == ASSUME ToldInv, [MessageNext]_messageVars PROVE ToldInv'
<1>t. /\ message \in Seq(MessageRow)
      /\ mention \in [Mentioner -> Happening \cup {NoMention}]
  BY DEF ToldInv
<1>1. ASSUME NEW e \in Happening, NEW at \in 1..MaxStamp,
             NotifyLike(e, at) \/ NotifyComment(e, at) \/ NotifyFollow(e, at)
      PROVE  ToldInv'
  <2>1. e.receiver # e.actor
    BY <1>1, MessageConstants DEF NotifyLike, NotifyComment, NotifyFollow
  <2>2. EventFree(e.receiver, e) /\ InsertMessage(e.receiver, e, at) /\ UNCHANGED mention
    BY <1>1 DEF NotifyLike, NotifyComment, NotifyFollow, CreateInteractionMessage,
                CreateFromActorEvent
  <2>3. QED
    BY <2>1, <2>2, InsertKeeps DEF ToldInv
<1>2. ASSUME NEW p \in Mentioner, NEW e \in Happening, MentionLookup(p, e) PROVE ToldInv'
  BY <1>2, <1>t DEF MentionLookup, ToldInv, ToldOnce
<1>3. ASSUME NEW p \in Mentioner, NEW at \in 1..MaxStamp, MentionInsert(p, at) PROVE ToldInv'
  <2> DEFINE e == mention[p]
  <2>1. e \in Happening /\ e.receiver # e.actor
    BY <1>3, <1>t DEF MentionInsert, ToldInv
  <2>2. /\ IF EventFree(e.receiver, e) THEN InsertMessage(e.receiver, e, at) ELSE UNCHANGED message
        /\ mention' = [mention EXCEPT ![p] = NoMention]
    BY <1>3 DEF MentionInsert
  <2>3. /\ mention' \in [Mentioner -> Happening \cup {NoMention}]
        /\ \A q \in Mentioner : mention'[q] # NoMention => mention'[q].receiver # mention'[q].actor
    BY <1>t, <2>2 DEF ToldInv
  <2> HIDE DEF e
  <2>4. message' \in Seq(MessageRow) /\ ToldOnce'
    <3>1. CASE EventFree(e.receiver, e)
      BY <2>1, <2>2, <3>1, InsertKeeps
    <3>2. CASE ~EventFree(e.receiver, e)
      BY <1>t, <2>2, <3>2 DEF ToldInv, ToldOnce
    <3>3. QED
      BY <3>1, <3>2
  <2>5. QED
    BY <2>3, <2>4 DEF ToldInv
<1>4. ASSUME NEW u \in Reader,
             MarkNotificationsRead(u) \/ \E ids \in SUBSET DOMAIN message : MarkRead(u, ids)
      PROVE  ToldInv'
  BY <1>4, MarkKeeps DEF MarkNotificationsRead
<1>5. CASE ListMessages
  BY <1>5 DEF ListMessages, ToldInv, ToldOnce
<1>6. ASSUME NEW u \in Reader, ListAgain(u) PROVE ToldInv'
  BY <1>6 DEF ListAgain, ToldInv, ToldOnce
<1>7. CASE UNCHANGED messageVars
  BY <1>7 DEF messageVars, ToldInv, ToldOnce
<1>8. QED
  BY <1>1, <1>2, <1>3, <1>4, <1>5, <1>6, <1>7 DEF MessageNext

\* A user is told of an event once, whatever is repeated and however the
\* look-ups of mentions race: the unique index on user and event is enough.
\* And nobody is told of his own doing.
THEOREM EventsToldOnce == MessageSpec => []ToldOnce
<1>1. ToldInv => ToldOnce
  BY DEF ToldInv
<1>2. QED
  BY <1>1, ToldInit, ToldNext, PTL DEF MessageSpec

-----------------------------------------------------------------------------
\* The list: what it has sent ends at the cursor, and what was there when it
\* began has been sent or lies behind the cursor.
ListInv ==
    /\ list \in ListState
    /\ list.twice = {}
    /\ \A i \in list.sent \cup list.first : i \in DOMAIN message /\ message[i].user = list.user
    /\ list.cursor = 0 => list.sent = {} /\ list.first = {}
    /\ list.cursor # 0 =>
          /\ list.cursor \in list.sent
          /\ \A i \in list.sent : ~Newer(list.cursor, i)
          /\ \A i \in list.first : i \in list.sent \/ Newer(list.cursor, i)
    /\ ~list.more => list.first \subseteq list.sent

\* ORDER BY created_at DESC, id DESC orders the rows.
LEMMA NewerOrder ==
    ASSUME message \in Seq(MessageRow)
    PROVE  /\ \A i \in DOMAIN message : ~Newer(i, i)
           /\ \A i, j, k \in DOMAIN message : Newer(i, j) /\ Newer(j, k) => Newer(i, k)
           /\ \A i, j \in DOMAIN message : i = j \/ Newer(i, j) \/ Newer(j, i)
           /\ IsFiniteSet(DOMAIN message)
<1>1. /\ Len(message) \in Nat /\ DOMAIN message = 1..Len(message)
      /\ \A i \in DOMAIN message : message[i] \in MessageRow
  BY MessageTypes
<1>2. \A i \in DOMAIN message : i \in Nat /\ message[i].at \in Nat
  <2>1. \A i \in DOMAIN message : message[i].at \in 1..MaxStamp
    BY <1>1 DEF MessageRow
  <2>2. QED
    BY <1>1, <2>1, MessageConstants
<1>3. IsFiniteSet(DOMAIN message)
  BY <1>1, FS_Interval
<1>4. QED
  BY <1>2, <1>3 DEF Newer

\* LIMIT over rows in that order.
LEMMA FirstRowsOf ==
    ASSUME message \in Seq(MessageRow), NEW S \in SUBSET DOMAIN message, NEW n \in Nat,
           NEW first, first = FirstRows(S, n)
    PROVE  /\ first \subseteq S
           /\ Cardinality(first) \in Nat
           /\ \A v \in S \ first : (\A u \in first : Newer(u, v)) /\ Cardinality(first) >= n
<1>1. PICK R : R = {p \in S \X S : Newer(p[1], p[2])}
  OBVIOUS
<1>2. \A i, j \in S : <<i, j>> \in R <=> Newer(i, j)
  BY <1>1
<1>3. /\ \A i \in S : <<i, i>> \notin R
      /\ \A i, j, k \in S : <<i, j>> \in R /\ <<j, k>> \in R => <<i, k>> \in R
      /\ \A i, j \in S : i = j \/ <<i, j>> \in R \/ <<j, i>> \in R
  BY <1>2, NewerOrder
<1>4. IsFiniteSet(S)
  BY NewerOrder, FS_Subset
<1>5. \A i \in S : {j \in S : <<j, i>> \in R} = {j \in S : Newer(j, i)}
  BY <1>2
<1>6. first = {i \in S : Cardinality({j \in S : <<j, i>> \in R}) < n}
  BY <1>5 DEF FirstRows
<1>7. first \subseteq S
  BY <1>6
<1>8. Cardinality(first) \in Nat
  BY <1>4, <1>7, FS_Subset, FS_CardinalityType
<1>9. ASSUME NEW v \in S, v \notin first
      PROVE  (\A u \in first : Newer(u, v)) /\ Cardinality(first) >= n
  <2>1. (\A u \in first : <<u, v>> \in R) /\ Cardinality(first) >= n
    BY <1>3, <1>4, <1>6, <1>9, FirstRowsFull
  <2>2. QED
    BY <1>2, <1>7, <2>1
<1>10. QED
  BY <1>7, <1>8, <1>9

\* The last row of a page.
LEMMA LastRowOf ==
    ASSUME message \in Seq(MessageRow), NEW S \in SUBSET DOMAIN message, S # {}
    PROVE  LastRow(S) \in S /\ \A j \in S : j = LastRow(S) \/ Newer(j, LastRow(S))
<1>1. PICK R : R = {p \in S \X S : Newer(p[2], p[1])}
  OBVIOUS
<1>2. \A i, j \in S : <<i, j>> \in R <=> Newer(j, i)
  BY <1>1
<1>3. /\ \A i \in S : <<i, i>> \notin R
      /\ \A i, j, k \in S : <<i, j>> \in R /\ <<j, k>> \in R => <<i, k>> \in R
  BY <1>2, NewerOrder
<1>4. IsFiniteSet(S)
  BY NewerOrder, FS_Subset
<1>5. PICK i \in S : \A j \in S : <<j, i>> \notin R
  BY <1>3, <1>4, FirstExists
<1>6. \A j \in S : j = i \/ Newer(j, i)
  BY <1>2, <1>5, NewerOrder
<1>7. QED
  BY <1>6 DEF LastRow

\* A page of the list: everything behind the cursor comes into it or behind it.
LEMMA PageCut ==
    ASSUME message \in Seq(MessageRow), NEW after \in SUBSET DOMAIN message,
           NEW rows, rows = FirstRows(after, ListLimit + 1),
           NEW cut, cut = IF Cardinality(rows) > ListLimit THEN FirstRows(rows, ListLimit) ELSE rows
    PROVE  /\ cut \subseteq after /\ Cardinality(rows) \in Nat
           /\ ~(Cardinality(rows) > ListLimit) => cut = after
           /\ cut = {} => after = {}
           /\ \A v \in after \ cut : \A u \in cut : Newer(u, v)
<1>1. ListLimit \in Nat /\ ListLimit # 0 /\ ListLimit + 1 \in Nat
  BY MessageConstants
<1>2. /\ rows \subseteq after /\ Cardinality(rows) \in Nat
      /\ \A v \in after \ rows : (\A u \in rows : Newer(u, v)) /\ Cardinality(rows) >= ListLimit + 1
  BY <1>1, FirstRowsOf
<1>3. CASE Cardinality(rows) > ListLimit
  <2>1. cut = FirstRows(rows, ListLimit) /\ rows \in SUBSET DOMAIN message
    BY <1>2, <1>3
  <2>2. /\ cut \subseteq rows /\ Cardinality(cut) \in Nat
        /\ \A v \in rows \ cut : (\A u \in cut : Newer(u, v)) /\ Cardinality(cut) >= ListLimit
    BY <1>1, <2>1, FirstRowsOf
  <2>3. cut # {}
    <3>1. SUFFICES ASSUME cut = {} PROVE FALSE
      OBVIOUS
    <3>2. Cardinality(cut) = 0
      BY <3>1, FS_EmptySet
    <3>3. rows = {}
      BY <1>1, <2>2, <3>1, <3>2
    <3>4. Cardinality(rows) = 0
      BY <3>3, FS_EmptySet
    <3>5. QED
      BY <1>1, <1>3, <3>4
  <2>4. \A v \in after \ cut : \A u \in cut : Newer(u, v)
    BY <1>2, <2>2
  <2>5. QED
    BY <1>2, <1>3, <2>2, <2>3, <2>4
<1>4. CASE ~(Cardinality(rows) > ListLimit)
  <2>1. cut = rows
    BY <1>4
  <2>2. ~(Cardinality(rows) >= ListLimit + 1)
    BY <1>1, <1>2, <1>4
  <2>3. rows = after
    BY <1>2, <2>2
  <2>4. QED
    BY <1>2, <1>4, <2>1, <2>3
<1>5. QED
  BY <1>3, <1>4

\* Rows are added and marked; whose they are and when they were made stays.
LEMMA RowsStay ==
    ASSUME ToldInv, [MessageNext]_messageVars
    PROVE  \A i \in DOMAIN message : /\ i \in DOMAIN message'
                                     /\ message'[i].user = message[i].user
                                     /\ message'[i].at = message[i].at
<1>t. /\ message \in Seq(MessageRow) /\ Len(message) \in Nat /\ DOMAIN message = 1..Len(message)
      /\ \A i \in DOMAIN message : message[i] \in MessageRow
  BY MessageTypes DEF ToldInv
<1>1. ASSUME NEW r, message' = Append(message, r)
      PROVE  \A i \in DOMAIN message : i \in DOMAIN message' /\ message'[i] = message[i]
  BY <1>1, <1>t, AppendProperties
<1>2. ASSUME NEW u, NEW ids, MarkRead(u, ids)
      PROVE  \A i \in DOMAIN message : /\ i \in DOMAIN message'
                                       /\ message'[i].user = message[i].user
                                       /\ message'[i].at = message[i].at
  <2>1. message' = [i \in DOMAIN message |-> IF i \in Marked(u, ids)
                                              THEN [message[i] EXCEPT !.read = TRUE] ELSE message[i]]
    BY <1>2 DEF MarkRead
  <2>2. QED
    BY <1>t, <2>1 DEF MessageRow
<1>3. \/ \E r : message' = Append(message, r)
      \/ \E u, ids : MarkRead(u, ids)
      \/ message' = message
  BY DEF MessageNext, NotifyLike, NotifyComment, NotifyFollow, CreateInteractionMessage,
         CreateFromActorEvent, InsertMessage, MentionLookup, MentionInsert, MarkNotificationsRead,
         ListMessages, ListAgain, messageVars
<1>4. QED
  BY <1>1, <1>2, <1>3

\* A new list has shown nothing.
LEMMA NewListHolds ==
    ASSUME NEW u \in Reader, NEW l, l = NewList(u)
    PROVE  /\ l \in ListState /\ l.twice = {} /\ l.sent = {} /\ l.first = {} /\ l.cursor = 0
           /\ l.more = TRUE
BY DEF NewList, ListState

\* A page leaves the list in order.
LEMMA ListStep ==
    ASSUME ToldInv, ListInv, ListMessages
    PROVE  ListInv'
<1> DEFINE after == {i \in DOMAIN message : message[i].user = list.user /\ PastCursor(list.cursor, i)}
           mine == {i \in DOMAIN message : message[i].user = list.user}
<1>t. /\ message \in Seq(MessageRow) /\ list \in ListState
      /\ list.user \in Reader /\ list.cursor \in Nat /\ list.sent \subseteq Nat
      /\ list.first \subseteq Nat
  BY DEF ToldInv, ListInv, ListState
<1>d. Len(message) \in Nat /\ DOMAIN message = 1..Len(message) /\ DOMAIN message \subseteq Nat
      /\ \A i \in DOMAIN message : i # 0
  BY <1>t, MessageTypes
<1>1. PICK rows : rows = FirstRows(after, ListLimit + 1)
  OBVIOUS
<1>2. PICK cut : cut = IF Cardinality(rows) > ListLimit THEN FirstRows(rows, ListLimit) ELSE rows
  OBVIOUS
<1>3. PICK cursor : cursor = IF cut = {} THEN list.cursor ELSE LastRow(cut)
  OBVIOUS
<1>4. PICK first : first = IF list.cursor = 0 THEN mine ELSE list.first
  OBVIOUS
<1>5. PICK more : more = (Cardinality(rows) > ListLimit)
  OBVIOUS
<1>b. more \in BOOLEAN /\ (more <=> Cardinality(rows) > ListLimit)
  <2>1. after \in SUBSET DOMAIN message /\ ListLimit \in Nat
    BY MessageConstants
  <2> HIDE DEF after
  <2>2. PICK n \in Nat : n = Cardinality(rows)
    BY <1>t, <1>1, <1>2, <2>1, PageCut
  <2>3. (n > ListLimit) \in BOOLEAN
    BY <2>1, SMT
  <2>4. more = (n > ListLimit)
    BY <1>5, <2>2
  <2>5. QED
    BY <2>2, <2>3, <2>4
<1>6. /\ list' = [list EXCEPT !.cursor = cursor, !.sent = list.sent \cup cut,
                              !.twice = list.twice \cup (list.sent \cap cut),
                              !.first = first, !.more = more]
      /\ UNCHANGED message
  BY <1>1, <1>2, <1>3, <1>4, <1>5 DEF ListMessages, ListByUser
<1>7. /\ cut \subseteq after
      /\ ~more => cut = after
      /\ cut = {} => after = {}
      /\ \A v \in after \ cut : \A u \in cut : Newer(u, v)
  <2>1. after \in SUBSET DOMAIN message
    OBVIOUS
  <2> HIDE DEF after
  <2>2. /\ cut \subseteq after
        /\ ~(Cardinality(rows) > ListLimit) => cut = after
        /\ cut = {} => after = {}
        /\ \A v \in after \ cut : \A u \in cut : Newer(u, v)
    BY <1>t, <1>1, <1>2, <2>1, PageCut
  <2>3. QED
    BY <1>b, <2>2
<1>8. cut \subseteq DOMAIN message
  BY <1>7
<1>9. cut # {} => cursor \in cut /\ \A j \in cut : j = cursor \/ Newer(j, cursor)
  BY <1>t, <1>3, <1>8, LastRowOf
<1>10. cursor \in Nat
  BY <1>t, <1>d, <1>3, <1>8, <1>9
<1>11. first \subseteq Nat
  BY <1>t, <1>d, <1>4
<1>12. /\ list' \in ListState /\ list'.user = list.user /\ list'.cursor = cursor
       /\ list'.sent = list.sent \cup cut /\ list'.twice = list.sent \cap cut
       /\ list'.first = first /\ list'.more = more
  <2>1. list'.twice = list.twice \cup (list.sent \cap cut) /\ list.twice = {}
    BY <1>t, <1>6 DEF ListInv, ListState
  <2>2. /\ list'.user = list.user /\ list'.cursor = cursor
        /\ list'.sent = list.sent \cup cut
        /\ list'.first = first /\ list'.more = more
    BY <1>t, <1>6 DEF ListState
  <2>3. list' \in ListState
    BY <1>t, <1>d, <1>6, <1>8, <1>10, <1>11, <1>b DEF ListState
  <2>4. QED
    BY <2>1, <2>2, <2>3
<1>13. list.sent \cap cut = {}
  BY <1>7 DEF ListInv, PastCursor
<1>14. \A i \in first : i \in list.sent \/ i \in after
  BY <1>4 DEF ListInv, PastCursor
<1>15. \A i \in list.sent \cup cut \cup first : i \in DOMAIN message /\ message[i].user = list.user
  BY <1>4, <1>7 DEF ListInv
<1>16. ~more => first \subseteq list.sent \cup cut
  BY <1>7, <1>14
<1>17. cursor = 0 => list.sent \cup cut = {} /\ first = {}
  <2>1. SUFFICES ASSUME cursor = 0 PROVE list.sent \cup cut = {} /\ first = {}
    OBVIOUS
  <2>2. cut = {}
    BY <1>d, <1>8, <1>9, <2>1
  <2>3. list.cursor = 0 /\ after = {}
    BY <1>3, <1>7, <2>1, <2>2
  <2>4. list.sent = {}
    BY <2>3 DEF ListInv
  <2>5. QED
    BY <1>14, <2>2, <2>3, <2>4
<1>18. ASSUME cursor # 0
       PROVE  /\ cursor \in list.sent \cup cut
              /\ \A i \in list.sent \cup cut : ~Newer(cursor, i)
              /\ \A i \in first : i \in list.sent \cup cut \/ Newer(cursor, i)
  <2>1. CASE cut = {}
    <3>1. cursor = list.cursor /\ list.cursor # 0 /\ first = list.first
      BY <1>3, <1>4, <1>18, <2>1
    <3>2. QED
      BY <2>1, <3>1 DEF ListInv
  <2>2. CASE cut # {}
    <3>1. cursor \in cut /\ \A j \in cut : j = cursor \/ Newer(j, cursor)
      BY <1>9, <2>2
    <3>2. cursor \in DOMAIN message /\ PastCursor(list.cursor, cursor)
      BY <1>7, <3>1
    <3>3. ASSUME NEW i \in cut, Newer(cursor, i) PROVE FALSE
      BY <1>t, <1>8, <3>1, <3>2, <3>3, NewerOrder
    <3>4. ASSUME NEW i \in list.sent, Newer(cursor, i) PROVE FALSE
      <4>1. /\ list.cursor # 0 /\ list.cursor \in DOMAIN message /\ i \in DOMAIN message
            /\ ~Newer(list.cursor, i)
        BY <3>4 DEF ListInv
      <4>2. Newer(list.cursor, cursor)
        BY <3>2, <4>1 DEF PastCursor
      <4>3. QED
        BY <1>t, <3>2, <3>4, <4>1, <4>2, NewerOrder
    <3>5. \A i \in first : i \in list.sent \cup cut \/ Newer(cursor, i)
      BY <1>7, <1>14, <3>1
    <3>6. QED
      BY <3>1, <3>3, <3>4, <3>5
  <2>3. QED
    BY <2>1, <2>2
<1> HIDE DEF after, mine
<1>19. \A i, j : Newer(i, j)' <=> Newer(i, j)
  BY <1>6 DEF Newer
<1>20. /\ list'.cursor = 0 => list'.sent = {} /\ list'.first = {}
       /\ ~list'.more => list'.first \subseteq list'.sent
       /\ list'.twice = {}
       /\ \A i \in list'.sent \cup list'.first : i \in DOMAIN message' /\ message'[i].user = list'.user
  BY <1>6, <1>12, <1>13, <1>15, <1>16, <1>17
<1>21. list'.cursor # 0 =>
          /\ list'.cursor \in list'.sent
          /\ \A i \in list'.sent : ~Newer(list.cursor, i)'
          /\ \A i \in list'.first : i \in list'.sent \/ Newer(list.cursor, i)'
  <2>1. SUFFICES ASSUME list'.cursor # 0
                 PROVE  /\ list'.cursor \in list'.sent
                        /\ \A i \in list'.sent : ~Newer(list.cursor, i)'
                        /\ \A i \in list'.first : i \in list'.sent \/ Newer(list.cursor, i)'
    OBVIOUS
  <2>2. cursor # 0
    BY <1>12, <2>1
  <2>3. \A i : Newer(list.cursor, i)' <=> Newer(cursor, i)
    BY <1>6, <1>12 DEF Newer
  <2>4. QED
    BY <1>12, <1>18, <2>2, <2>3
<1>22. QED
  BY <1>12, <1>20, <1>21 DEF ListInv

\* Every step keeps the list in order.
LEMMA ListInvNext == ASSUME ToldInv, ListInv, [MessageNext]_messageVars PROVE ListInv'
<1>1. CASE ListMessages
  BY <1>1, ListStep
<1>2. ASSUME NEW u \in Reader, ListAgain(u) PROVE ListInv'
  <2>1. list' = NewList(u)
    BY <1>2 DEF ListAgain
  <2>2. /\ list' \in ListState /\ list'.twice = {} /\ list'.sent = {} /\ list'.first = {}
        /\ list'.cursor = 0 /\ list'.more = TRUE
    BY <2>1, NewListHolds
  <2>3. QED
    BY <2>2 DEF ListInv
<1>3. CASE UNCHANGED list
  <2>1. \A i \in DOMAIN message : /\ i \in DOMAIN message'
                                  /\ message'[i].user = message[i].user
                                  /\ message'[i].at = message[i].at
    BY RowsStay
  <2>2. \A i, j \in DOMAIN message : Newer(i, j)' <=> Newer(i, j)
    BY <2>1 DEF Newer
  <2>3. \A i \in list.sent \cup list.first : i \in DOMAIN message
    BY DEF ListInv
  <2>4. list.cursor # 0 => list.cursor \in DOMAIN message
    BY <2>3 DEF ListInv
  <2>5. list.cursor # 0 =>
          \A i \in list.sent \cup list.first : Newer(list.cursor, i)' <=> Newer(list.cursor, i)
    BY <1>3, <2>2, <2>3, <2>4
  <2>6. \A i \in list'.sent \cup list'.first : i \in DOMAIN message' /\ message'[i].user = list'.user
    BY <1>3, <2>1 DEF ListInv
  <2>7. list'.cursor # 0 =>
          /\ list'.cursor \in list'.sent
          /\ \A i \in list'.sent : ~Newer(list.cursor, i)'
          /\ \A i \in list'.first : i \in list'.sent \/ Newer(list.cursor, i)'
    BY <1>3, <2>5 DEF ListInv
  <2>8. QED
    BY <1>3, <2>6, <2>7 DEF ListInv
<1>4. QED
  BY <1>1, <1>2, <1>3 DEF MessageNext, NotifyLike, NotifyComment, NotifyFollow,
     CreateInteractionMessage, CreateFromActorEvent, MentionLookup, MentionInsert,
     MarkNotificationsRead, MarkRead, messageVars

\* The message centre begins in its invariant.
LEMMA ListInvInit == MessageInit => ListInv
<1> SUFFICES ASSUME MessageInit PROVE ListInv
  OBVIOUS
<1>1. PICK u \in Reader : list = NewList(u)
  BY DEF MessageInit
<1>2. QED
  BY <1>1, NewListHolds DEF ListInv

\* Rows, mentions and list together.
LEMMA MessagesInvariant == MessageSpec => [](ToldInv /\ ListInv)
BY ToldInit, ToldNext, ListInvInit, ListInvNext, PTL DEF MessageSpec

\* The types of the message centre: a list shows its user's own messages.
THEOREM MessagesTyped == MessageSpec => []MessageTypeOK
<1>1. ToldInv /\ ListInv => MessageTypeOK
  <2> SUFFICES ASSUME ToldInv, ListInv PROVE MessageTypeOK
    OBVIOUS
  <2>1. message \in Seq(MessageRow) /\ Len(message) \in Nat /\ DOMAIN message = 1..Len(message)
    BY MessageTypes DEF ToldInv
  <2>2. list.cursor \in 0..Len(message)
    BY <2>1 DEF ListInv
  <2>3. QED
    BY <2>2 DEF ToldInv, ListInv, MessageTypeOK
<1>2. QED
  BY <1>1, MessagesInvariant, PTL

\* A list repeats no message and ends with everything that was there when it
\* began, whatever clock stamped the rows that come in between (Service.List,
\* ListByUser).
THEOREM ListsComplete == MessageSpec => []ListComplete
<1>1. ListInv => ListComplete
  BY DEF ListInv, ListComplete
<1>2. QED
  BY <1>1, MessagesInvariant, PTL

-----------------------------------------------------------------------------
(***************************************************************************)
(* Comments.                                                               *)
(***************************************************************************)

CommentRowsInv ==
    /\ comment \in Seq(CommentRow)
    /\ Len(comment) <= MaxComments
    /\ total \in [Film -> Nat]
    /\ airing \in SUBSET Film
    /\ clerk \in [Clerk -> ClerkState \cup {IdleClerk}]

\* A request that writes has a row of its own, not committed, of its video.
HoldersInv ==
    /\ \A c \in Clerk : clerk[c].pc = "writing" =>
          /\ clerk[c].id \in DOMAIN comment
          /\ comment[clerk[c].id].status = "writing"
          /\ comment[clerk[c].id].film = clerk[c].film
    /\ \A c, d \in Clerk :
          clerk[c].pc = "writing" /\ clerk[d].pc = "writing" /\ clerk[c].id = clerk[d].id => c = d

\* A row that is not committed is the last of its video: whoever comes after it
\* waits for the lock of the video before it is given an id.
LastInv ==
    \A i, j \in DOMAIN comment :
        comment[i].status = "writing" /\ comment[i].film = comment[j].film => j <= i

\* The cursor is 0 or a comment of the video that was visible.
CursorInv ==
    /\ page \in [film: Film, cursor: Nat, seen: SUBSET DOMAIN comment]
    /\ page.cursor = 0 \/ /\ page.cursor \in DOMAIN comment
                          /\ comment[page.cursor].film = page.film
                          /\ comment[page.cursor].status \in {"normal", "deleted"}

CommentInv == CommentRowsInv /\ HoldersInv /\ LastInv /\ CursorInv

-----------------------------------------------------------------------------
\* The rows of the table are rows, numbered from 1.
LEMMA CommentTypes ==
    ASSUME comment \in Seq(CommentRow)
    PROVE  /\ Len(comment) \in Nat /\ DOMAIN comment = 1..Len(comment)
           /\ \A i \in DOMAIN comment : comment[i] \in CommentRow
BY LenProperties, ElementOfSeq

\* A row changes its status; everything else stays.
LEMMA ChangedComment ==
    ASSUME comment \in Seq(CommentRow), NEW i \in DOMAIN comment,
           NEW st \in {"writing", "aborted", "normal", "deleted"},
           comment' = [comment EXCEPT ![i].status = st]
    PROVE  /\ comment' \in Seq(CommentRow) /\ Len(comment') = Len(comment)
           /\ DOMAIN comment' = DOMAIN comment
           /\ \A j \in DOMAIN comment :
                /\ comment'[j].user = comment[j].user
                /\ comment'[j].film = comment[j].film
                /\ comment'[j].key = comment[j].key
                /\ comment'[j].status = IF j = i THEN st ELSE comment[j].status
<1>1. /\ Len(comment) \in Nat /\ DOMAIN comment = 1..Len(comment)
      /\ \A j \in DOMAIN comment : comment[j] \in CommentRow
  BY CommentTypes
<1> DEFINE r == [comment[i] EXCEPT !.status = st]
<1>2. r \in CommentRow /\ r.user = comment[i].user /\ r.film = comment[i].film
      /\ r.key = comment[i].key /\ r.status = st
  BY <1>1 DEF CommentRow
<1>3. comment' = [comment EXCEPT ![i] = r]
  OBVIOUS
<1> HIDE DEF r
<1>4. /\ comment' \in Seq(CommentRow) /\ Len(comment') = Len(comment)
      /\ DOMAIN comment' = DOMAIN comment
  BY <1>1, <1>2, <1>3, ExceptSeq, LenProperties
<1>5. comment'[i] = r /\ \A j \in DOMAIN comment \ {i} : comment'[j] = comment[j]
  BY <1>1, <1>3
<1>6. QED
  BY <1>2, <1>4, <1>5

\* A row is added; it has the next id.
LEMMA AddedComment ==
    ASSUME comment \in Seq(CommentRow), NEW r \in CommentRow, comment' = Append(comment, r)
    PROVE  /\ comment' \in Seq(CommentRow) /\ Len(comment) \in Nat
           /\ Len(comment') = Len(comment) + 1
           /\ DOMAIN comment = 1..Len(comment) /\ DOMAIN comment' = 1..(Len(comment) + 1)
           /\ comment'[Len(comment) + 1] = r
           /\ \A j \in DOMAIN comment : comment'[j] = comment[j]
BY LenProperties, AppendProperties

\* What a request that is not idle knows.
LEMMA ClerkTypes ==
    ASSUME CommentRowsInv, NEW c \in Clerk, clerk[c].pc # "idle"
    PROVE  /\ clerk[c] \in ClerkState
           /\ clerk[c].user \in Writer /\ clerk[c].film \in Film
           /\ clerk[c].key \in Slip \cup {NoSlip}
<1>1. clerk[c] \in ClerkState \cup {IdleClerk}
  BY DEF CommentRowsInv
<1>2. clerk[c] # IdleClerk
  BY DEF IdleClerk
<1>3. QED
  BY <1>1, <1>2 DEF ClerkState

\* The actions, one by one.
LEMMA CommentCases ==
    ASSUME CommentNext
    PROVE  \/ \E c \in Clerk, u \in Writer, f \in Film, key \in Slip \cup {NoSlip} :
                 CommentLookup(c, u, f, key)
           \/ \E c \in Clerk : CommentInsert(c) \/ CommentDuplicate(c)
           \/ \E c \in Clerk : CommentCommit(c) \/ CommentRollback(c) \/ CommentGivesUp(c)
           \/ \E u \in Writer, i \in DOMAIN comment : DeleteComment(u, i)
           \/ \E f \in Film : ModerateFilm(f)
           \/ ReadPage
BY DEF CommentNext

-----------------------------------------------------------------------------
\* The table starts empty.
LEMMA CommentInvInit == CommentInit => CommentInv
<1> SUFFICES ASSUME CommentInit PROVE CommentInv
  OBVIOUS
<1>1. comment \in Seq(CommentRow) /\ Len(comment) = 0 /\ DOMAIN comment = {}
  BY EmptySeq DEF CommentInit
<1>2. \A c \in Clerk : clerk[c].pc = "idle"
  BY DEF CommentInit, IdleClerk
<1>3. CommentRowsInv
  BY <1>1, CommentConstants DEF CommentInit, CommentRowsInv
<1>4. HoldersInv /\ LastInv
  BY <1>1, <1>2 DEF HoldersInv, LastInv
<1>5. CursorInv
  BY DEF CommentInit, CursorInv
<1>6. QED
  BY <1>3, <1>4, <1>5 DEF CommentInv

\* A row that is added behind the lock of its video.
LEMMA AddedKeeps ==
    ASSUME CommentInv, NEW r \in CommentRow, Unlocked(r.film), Len(comment) < MaxComments,
           comment' = Append(comment, r), UNCHANGED page
    PROVE  /\ comment' \in Seq(CommentRow) /\ Len(comment') <= MaxComments
           /\ LastInv' /\ CursorInv'
<1> DEFINE n == Len(comment)
<1>1. comment \in Seq(CommentRow) /\ MaxComments \in Nat
  BY CommentConstants DEF CommentInv, CommentRowsInv
<1>2. /\ comment' \in Seq(CommentRow) /\ n \in Nat /\ Len(comment') = n + 1
      /\ DOMAIN comment = 1..n /\ DOMAIN comment' = 1..(n + 1)
      /\ comment'[n + 1] = r
      /\ \A j \in DOMAIN comment : comment'[j] = comment[j]
  BY <1>1, AddedComment
<1>3. Len(comment') <= MaxComments
  BY <1>1, <1>2
<1> HIDE DEF n
<1>4. LastInv'
  <2> SUFFICES ASSUME NEW i \in 1..(n + 1), NEW j \in 1..(n + 1),
                      comment'[i].status = "writing", comment'[i].film = comment'[j].film
               PROVE  j <= i
    BY <1>2 DEF LastInv
  <2>1. CASE i = n + 1
    BY <1>2, <2>1
  <2>2. CASE i # n + 1 /\ j # n + 1
    <3>1. i \in DOMAIN comment /\ j \in DOMAIN comment
      BY <1>2, <2>2
    <3>2. QED
      BY <1>2, <3>1 DEF CommentInv, LastInv
  <2>3. CASE i # n + 1 /\ j = n + 1
    <3>1. i \in DOMAIN comment
      BY <1>2, <2>3
    <3>2. QED
      BY <1>2, <2>3, <3>1 DEF Unlocked
  <2>4. QED
    BY <2>1, <2>2, <2>3
<1>5. CursorInv'
  <2>1. DOMAIN comment \subseteq DOMAIN comment'
    BY <1>2
  <2>2. page' \in [film: Film, cursor: Nat, seen: SUBSET DOMAIN comment']
    BY <2>1 DEF CommentInv, CursorInv
  <2>3. QED
    BY <1>2, <2>1, <2>2 DEF CommentInv, CursorInv
<1>6. QED
  BY <1>2, <1>3, <1>4, <1>5

\* A row whose status changes, but not to "writing", and not back from visible.
LEMMA ChangedKeeps ==
    ASSUME CommentInv, NEW i \in DOMAIN comment, NEW st \in {"aborted", "normal", "deleted"},
           comment' = [comment EXCEPT ![i].status = st], UNCHANGED page,
           st = "aborted" => comment[i].status = "writing"
    PROVE  /\ comment' \in Seq(CommentRow) /\ Len(comment') <= MaxComments
           /\ LastInv' /\ CursorInv'
<1>1. comment \in Seq(CommentRow) /\ Len(comment) <= MaxComments
  BY DEF CommentInv, CommentRowsInv
<1>2. /\ comment' \in Seq(CommentRow) /\ Len(comment') = Len(comment)
      /\ DOMAIN comment' = DOMAIN comment
      /\ \A j \in DOMAIN comment :
           /\ comment'[j].film = comment[j].film
           /\ comment'[j].status = IF j = i THEN st ELSE comment[j].status
  <2>1. st \in {"writing", "aborted", "normal", "deleted"}
    OBVIOUS
  <2>2. QED
    BY <1>1, <2>1, ChangedComment
<1>3. LastInv'
  BY <1>2 DEF CommentInv, LastInv
<1>4. CursorInv'
  <2>1. page' \in [film: Film, cursor: Nat, seen: SUBSET DOMAIN comment']
    BY <1>2 DEF CommentInv, CursorInv
  <2>2. QED
    BY <1>2, <2>1 DEF CommentInv, CursorInv
<1>5. QED
  BY <1>1, <1>2, <1>3, <1>4

\* A page: what is sent, and where the cursor goes.
LEMMA PageRead ==
    ASSUME CommentInv, ReadPage
    PROVE  \E sent \in SUBSET Visible(page.film) : \E m \in sent :
              /\ page' = [page EXCEPT !.cursor = m, !.seen = @ \cup sent]
              /\ m > page.cursor
              /\ \A i \in Visible(page.film) : i > page.cursor /\ i <= m => i \in sent
              /\ UNCHANGED <<comment, total, airing, clerk>>
<1> DEFINE next == {i \in Visible(page.film) : i > page.cursor}
           upto(i) == {j \in next : j <= i}
           sent == {i \in next : Cardinality(upto(i)) <= PageSize}
           m == CHOOSE i \in sent : \A j \in sent : j <= i
<1>1. /\ sent # {} /\ page' = [page EXCEPT !.cursor = m, !.seen = @ \cup sent]
      /\ UNCHANGED <<comment, total, airing, clerk>>
  BY DEF ReadPage
<1>2. /\ Len(comment) \in Nat /\ DOMAIN comment = 1..Len(comment) /\ page.cursor \in Nat
      /\ PageSize \in Nat
  BY CommentTypes, CommentConstants DEF CommentInv, CommentRowsInv, CursorInv
<1>3. next \subseteq 0..Len(comment)
  BY <1>2 DEF Visible
<1>4. IsFiniteSet(next)
  <2>1. IsFiniteSet(0..Len(comment))
    BY <1>2, FS_Interval
  <2> HIDE DEF next
  <2>2. QED
    BY <1>3, <2>1, FS_Subset
<1>5. sent \subseteq next
  OBVIOUS
<1>6. m \in sent /\ \A j \in sent : j <= m
  <2>1. sent \subseteq 0..Len(comment)
    BY <1>3, <1>5
  <2> HIDE DEF sent, next
  <2>2. \E k \in sent : \A j \in sent : j <= k
    BY <1>1, <1>2, <2>1, LargestBelow
  <2>3. QED
    BY <2>2
<1>7. ASSUME NEW i \in next, i <= m PROVE i \in sent
  <2>1. m \in next /\ Cardinality(upto(m)) <= PageSize
    BY <1>6
  <2> HIDE DEF m
  <2>2. \A j \in next : j \in Nat
    <3> HIDE DEF next
    <3>1. QED
      BY <1>2, <1>3
  <2>3. upto(i) \subseteq upto(m)
    <3> HIDE DEF next
    <3>1. \A j \in next : j <= i => j <= m
      BY <1>7, <2>1, <2>2
    <3>2. QED
      BY <3>1
  <2>4. IsFiniteSet(upto(m))
    <3>1. upto(m) \subseteq next
      OBVIOUS
    <3>2. QED
      BY <1>4, <3>1, FS_Subset
  <2> HIDE DEF next
  <2>5. Cardinality(upto(i)) <= Cardinality(upto(m)) /\ IsFiniteSet(upto(i))
    BY <2>3, <2>4, FS_Subset
  <2>6. Cardinality(upto(i)) \in Nat /\ Cardinality(upto(m)) \in Nat
    BY <2>4, <2>5, FS_CardinalityType
  <2>7. Cardinality(upto(i)) <= PageSize
    BY <1>2, <2>1, <2>5, <2>6
  <2>8. QED
    BY <2>7
<1>8. m > page.cursor
  BY <1>5, <1>6
<1>9. sent \subseteq Visible(page.film)
  OBVIOUS
<1>10. \A i \in Visible(page.film) : i > page.cursor /\ i <= m => i \in sent
  <2> HIDE DEF m, sent
  <2>1. QED
    BY <1>7
<1> HIDE DEF m, sent
<1>11. QED
  BY <1>1, <1>6, <1>8, <1>9, <1>10

\* A request that ends its transaction, or never began one, holds no row.
LEMMA ToIdleHolders ==
    ASSUME CommentInv, NEW c \in Clerk, ToIdle(c),
           DOMAIN comment \subseteq DOMAIN comment',
           \A i \in DOMAIN comment :
               /\ comment'[i].film = comment[i].film
               /\ comment'[i].status = comment[i].status
                  \/ (clerk[c].pc = "writing" /\ i = clerk[c].id)
                  \/ comment[i].status # "writing"
    PROVE  clerk' \in [Clerk -> ClerkState \cup {IdleClerk}] /\ HoldersInv'
<1>1. clerk \in [Clerk -> ClerkState \cup {IdleClerk}] /\ HoldersInv
  BY DEF CommentInv, CommentRowsInv
<1>2. clerk' = [clerk EXCEPT ![c] = IdleClerk] /\ IdleClerk.pc = "idle"
  BY DEF ToIdle, IdleClerk
<1>3. clerk' \in [Clerk -> ClerkState \cup {IdleClerk}]
  BY <1>1, <1>2
<1>4. ASSUME NEW d \in Clerk, clerk'[d].pc = "writing"
      PROVE  /\ d # c /\ clerk'[d] = clerk[d]
             /\ clerk[d].id \in DOMAIN comment'
             /\ comment'[clerk[d].id].status = "writing"
             /\ comment'[clerk[d].id].film = clerk[d].film
  <2>1. d # c /\ clerk'[d] = clerk[d]
    BY <1>1, <1>2, <1>4
  <2>2. /\ clerk[d].id \in DOMAIN comment
        /\ comment[clerk[d].id].status = "writing"
        /\ comment[clerk[d].id].film = clerk[d].film
        /\ clerk[c].pc = "writing" => clerk[c].id # clerk[d].id
    BY <1>1, <1>4, <2>1 DEF HoldersInv
  <2>3. QED
    BY <2>1, <2>2
<1>5. HoldersInv'
  BY <1>1, <1>4 DEF HoldersInv
<1>6. QED
  BY <1>3, <1>5

\* Every step keeps the invariant.
LEMMA CommentInvNext == ASSUME CommentInv, [CommentNext]_commentVars PROVE CommentInv'
<1>t. /\ comment \in Seq(CommentRow) /\ Len(comment) <= MaxComments
      /\ total \in [Film -> Nat] /\ airing \in SUBSET Film
      /\ clerk \in [Clerk -> ClerkState \cup {IdleClerk}]
      /\ HoldersInv /\ LastInv /\ CursorInv /\ CommentRowsInv
  BY DEF CommentInv, CommentRowsInv
<1>n. /\ Len(comment) \in Nat /\ DOMAIN comment = 1..Len(comment)
      /\ \A i \in DOMAIN comment : comment[i] \in CommentRow
  BY <1>t, CommentTypes
<1>1. ASSUME NEW c \in Clerk, NEW u \in Writer, NEW f \in Film, NEW key \in Slip \cup {NoSlip},
             CommentLookup(c, u, f, key)
      PROVE  CommentInv'
  <2> DEFINE r == [pc |-> "absent", user |-> u, film |-> f, key |-> key, id |-> 0]
  <2>1. r \in ClerkState /\ r.pc = "absent"
    BY DEF ClerkState
  <2>2. clerk' = [clerk EXCEPT ![c] = r] /\ UNCHANGED <<comment, total, airing, page>>
    BY <1>1 DEF CommentLookup
  <2> HIDE DEF r
  <2>3. clerk' \in [Clerk -> ClerkState \cup {IdleClerk}]
    BY <1>t, <2>1, <2>2
  <2>4. \A d \in Clerk : clerk'[d].pc = "writing" => clerk'[d] = clerk[d]
    BY <1>t, <2>1, <2>2
  <2>5. HoldersInv'
    BY <1>t, <2>2, <2>4 DEF HoldersInv
  <2>6. QED
    BY <1>t, <2>2, <2>3, <2>5 DEF CommentInv, CommentRowsInv, LastInv, CursorInv
<1>2. ASSUME NEW c \in Clerk, CommentInsert(c) PROVE CommentInv'
  <2> DEFINE q == clerk[c]
             r == [user |-> q.user, film |-> q.film, key |-> q.key, status |-> "writing"]
             n == Len(comment)
             h == [q EXCEPT !.pc = "writing", !.id = n + 1]
  <2>1. q \in ClerkState /\ q.user \in Writer /\ q.film \in Film /\ q.key \in Slip \cup {NoSlip}
    BY <1>2, <1>t, ClerkTypes DEF CommentInsert
  <2>2. r \in CommentRow /\ r.film = q.film /\ r.status = "writing"
    BY <2>1 DEF CommentRow
  <2>3. h \in ClerkState /\ h.id = n + 1 /\ h.film = q.film
    <3>1. n + 1 \in Nat
      BY <1>n
    <3> DEFINE k == n + 1
    <3> HIDE DEF n, q
    <3>2. k \in Nat
      BY <3>1
    <3> HIDE DEF k
    <3>3. /\ [q EXCEPT !.pc = "writing", !.id = k] \in ClerkState
          /\ [q EXCEPT !.pc = "writing", !.id = k].id = k
          /\ [q EXCEPT !.pc = "writing", !.id = k].film = q.film
      BY <2>1, <3>2 DEF ClerkState
    <3>4. QED
      BY <3>3 DEF k
  <2>4. /\ Unlocked(q.film) /\ n < MaxComments /\ comment' = Append(comment, r)
        /\ UNCHANGED <<total, airing, page>>
    BY <1>2 DEF CommentInsert
  <2>5. clerk' = [clerk EXCEPT ![c] = h]
    <3>1. clerk' = [clerk EXCEPT ![c].pc = "writing", ![c].id = n + 1]
      BY <1>2 DEF CommentInsert
    <3>2. clerk'[c] = h
      BY <1>t, <2>1, <3>1 DEF ClerkState
    <3>3. /\ \A d \in Clerk \ {c} : clerk'[d] = clerk[d]
          /\ clerk' = [d \in Clerk |-> clerk'[d]]
      BY <1>t, <3>1
    <3> HIDE DEF h
    <3>4. QED
      BY <1>t, <3>2, <3>3
  <2> HIDE DEF r, h, q
  <2>6. /\ comment' \in Seq(CommentRow) /\ Len(comment') <= MaxComments /\ LastInv' /\ CursorInv'
    BY <2>2, <2>4, AddedKeeps
  <2>7. /\ DOMAIN comment' = 1..(n + 1) /\ comment'[n + 1] = r
        /\ \A j \in DOMAIN comment : comment'[j] = comment[j]
    BY <1>t, <2>2, <2>4, AddedComment
  <2>8. clerk' \in [Clerk -> ClerkState \cup {IdleClerk}] /\ clerk'[c] = h
        /\ \A d \in Clerk \ {c} : clerk'[d] = clerk[d]
    BY <1>t, <2>3, <2>5
  <2>9. HoldersInv'
    <3>1. ASSUME NEW d \in Clerk, d # c, clerk'[d].pc = "writing"
          PROVE  /\ clerk'[d].id \in DOMAIN comment /\ clerk'[d].id \in DOMAIN comment'
                 /\ clerk'[d].id # n + 1
                 /\ comment'[clerk'[d].id].status = "writing"
                 /\ comment'[clerk'[d].id].film = clerk'[d].film
      BY <1>t, <1>n, <2>7, <2>8, <3>1 DEF HoldersInv
    <3>2. /\ clerk'[c].id = n + 1 /\ n + 1 \in DOMAIN comment'
          /\ comment'[n + 1].status = "writing" /\ comment'[n + 1].film = clerk'[c].film
      BY <1>n, <2>2, <2>3, <2>7, <2>8
    <3>3. ASSUME NEW d \in Clerk, NEW e \in Clerk, clerk'[d].pc = "writing",
                 clerk'[e].pc = "writing", clerk'[d].id = clerk'[e].id
          PROVE  d = e
      <4>1. CASE d # c /\ e # c
        BY <1>t, <2>8, <3>3, <4>1 DEF HoldersInv
      <4>2. CASE d = c \/ e = c
        BY <3>1, <3>2, <3>3, <4>2
      <4>3. QED
        BY <4>1, <4>2
    <3>4. QED
      BY <3>1, <3>2, <3>3 DEF HoldersInv
  <2>10. QED
    BY <1>t, <2>4, <2>6, <2>8, <2>9 DEF CommentInv, CommentRowsInv
<1>3. ASSUME NEW c \in Clerk, CommentDuplicate(c) PROVE CommentInv'
  <2> DEFINE q == clerk[c]
             r == [user |-> q.user, film |-> q.film, key |-> q.key, status |-> "aborted"]
  <2>1. q.user \in Writer /\ q.film \in Film /\ q.key \in Slip \cup {NoSlip}
    BY <1>3, <1>t, ClerkTypes DEF CommentDuplicate
  <2>2. r \in CommentRow /\ r.film = q.film
    BY <2>1 DEF CommentRow
  <2>3. /\ Unlocked(q.film) /\ Len(comment) < MaxComments /\ comment' = Append(comment, r)
        /\ ToIdle(c) /\ UNCHANGED <<total, airing, page>>
    BY <1>3 DEF CommentDuplicate
  <2> HIDE DEF r, q
  <2>4. /\ comment' \in Seq(CommentRow) /\ Len(comment') <= MaxComments /\ LastInv' /\ CursorInv'
    BY <2>2, <2>3, AddedKeeps
  <2>5. DOMAIN comment \subseteq DOMAIN comment' /\ \A j \in DOMAIN comment : comment'[j] = comment[j]
    BY <1>t, <2>2, <2>3, AddedComment
  <2>6. clerk' \in [Clerk -> ClerkState \cup {IdleClerk}] /\ HoldersInv'
    BY <2>3, <2>5, ToIdleHolders
  <2>7. QED
    BY <1>t, <2>3, <2>4, <2>6 DEF CommentInv, CommentRowsInv
<1>4. ASSUME NEW c \in Clerk, CommentCommit(c) \/ CommentRollback(c) PROVE CommentInv'
  <2> DEFINE i == clerk[c].id
  <2>1. clerk[c].pc = "writing" /\ ToIdle(c) /\ UNCHANGED <<airing, page>>
    BY <1>4 DEF CommentCommit, CommentRollback
  <2>2. i \in DOMAIN comment /\ comment[i].status = "writing" /\ clerk[c].film \in Film
    BY <1>t, <2>1, ClerkTypes DEF HoldersInv
  <2>3. PICK st \in {"normal", "aborted"} : comment' = [comment EXCEPT ![i].status = st]
    BY <1>4 DEF CommentCommit, CommentRollback
  <2>4. total' \in [Film -> Nat]
    BY <1>4, <1>t, <2>2 DEF CommentCommit, CommentRollback
  <2> HIDE DEF i
  <2>5. /\ comment' \in Seq(CommentRow) /\ Len(comment') <= MaxComments /\ LastInv' /\ CursorInv'
    BY <2>1, <2>2, <2>3, ChangedKeeps
  <2>6. /\ DOMAIN comment' = DOMAIN comment
        /\ \A j \in DOMAIN comment :
             /\ comment'[j].film = comment[j].film
             /\ comment'[j].status = IF j = i THEN st ELSE comment[j].status
    BY <1>t, <2>2, <2>3, ChangedComment
  <2>7. clerk' \in [Clerk -> ClerkState \cup {IdleClerk}] /\ HoldersInv'
    BY <2>1, <2>6, ToIdleHolders DEF i
  <2>8. QED
    BY <1>t, <2>1, <2>4, <2>5, <2>7 DEF CommentInv, CommentRowsInv
<1>5. ASSUME NEW c \in Clerk, CommentGivesUp(c) PROVE CommentInv'
  <2>1. ToIdle(c) /\ UNCHANGED <<comment, total, airing, page>>
    BY <1>5 DEF CommentGivesUp
  <2>2. clerk' \in [Clerk -> ClerkState \cup {IdleClerk}] /\ HoldersInv'
    BY <2>1, ToIdleHolders
  <2>3. QED
    BY <1>t, <2>1, <2>2 DEF CommentInv, CommentRowsInv, LastInv, CursorInv
<1>6. ASSUME NEW u \in Writer, NEW i \in DOMAIN comment, DeleteComment(u, i) PROVE CommentInv'
  <2> DEFINE f == comment[i].film
  <2>1. /\ comment[i].status = "normal" /\ comment' = [comment EXCEPT ![i].status = "deleted"]
        /\ total' = [total EXCEPT ![f] = IF @ = 0 THEN 0 ELSE @ - 1]
        /\ UNCHANGED <<airing, clerk, page>>
    BY <1>6 DEF DeleteComment, Deletable
  <2>2. f \in Film
    BY <1>n DEF CommentRow
  <2>3. total' \in [Film -> Nat]
    BY <1>t, <2>1, <2>2
  <2>4. /\ comment' \in Seq(CommentRow) /\ Len(comment') <= MaxComments /\ LastInv' /\ CursorInv'
    BY <2>1, ChangedKeeps
  <2>5. /\ DOMAIN comment' = DOMAIN comment
        /\ \A j \in DOMAIN comment :
             /\ comment'[j].film = comment[j].film
             /\ comment'[j].status = IF j = i THEN "deleted" ELSE comment[j].status
    BY <1>t, <2>1, ChangedComment
  <2>6. HoldersInv'
    BY <1>t, <2>1, <2>5 DEF HoldersInv
  <2>7. QED
    BY <1>t, <2>1, <2>3, <2>4, <2>6 DEF CommentInv, CommentRowsInv
<1>7. ASSUME NEW f \in Film, ModerateFilm(f) PROVE CommentInv'
  <2>1. airing' \in SUBSET Film /\ UNCHANGED <<comment, total, clerk, page>>
    BY <1>7, <1>t DEF ModerateFilm
  <2>2. QED
    BY <1>t, <2>1 DEF CommentInv, CommentRowsInv, HoldersInv, LastInv, CursorInv
<1>8. CASE ReadPage
  <2>1. PICK sent \in SUBSET Visible(page.film) : \E m \in sent :
          /\ page' = [page EXCEPT !.cursor = m, !.seen = @ \cup sent]
          /\ UNCHANGED <<comment, total, airing, clerk>>
    BY <1>8, PageRead
  <2>2. PICK m \in sent :
          /\ page' = [page EXCEPT !.cursor = m, !.seen = @ \cup sent]
          /\ UNCHANGED <<comment, total, airing, clerk>>
    BY <2>1
  <2>3. /\ sent \subseteq DOMAIN comment /\ m \in DOMAIN comment /\ m \in Nat
        /\ comment[m].film = page.film /\ comment[m].status = "normal"
    BY <1>n, <2>1, <2>2 DEF Visible
  <2>4. page' \in [film: Film, cursor: Nat, seen: SUBSET DOMAIN comment]
        /\ page'.film = page.film /\ page'.cursor = m
    BY <1>t, <2>2, <2>3 DEF CursorInv
  <2>5. CursorInv'
    BY <2>2, <2>3, <2>4 DEF CursorInv
  <2>6. QED
    BY <1>t, <2>2, <2>5 DEF CommentInv, CommentRowsInv, HoldersInv, LastInv
<1>9. CASE UNCHANGED commentVars
  BY <1>9, <1>t DEF commentVars, CommentInv, CommentRowsInv, HoldersInv, LastInv, CursorInv
<1>10. QED
  BY CommentCases, <1>1, <1>2, <1>3, <1>4, <1>5, <1>6, <1>7, <1>8, <1>9

\* The tables, the requests and the reader are well typed in every reachable
\* state, and a request that writes has its row.
THEOREM CommentsTyped == CommentSpec => []CommentTypeOK
<1>1. CommentSpec => []CommentInv
  BY CommentInvInit, CommentInvNext, PTL DEF CommentSpec
<1>2. CommentInv => CommentTypeOK
  BY DEF CommentInv, CommentRowsInv, HoldersInv, CursorInv, CommentTypeOK
<1>3. QED
  BY <1>1, <1>2, PTL

-----------------------------------------------------------------------------
\* What a step does to the table and to the counter: a row is added, or a row
\* that is being written ends, or a visible one is deleted.
LEMMA TableMoves ==
    ASSUME CommentInv, [CommentNext]_commentVars
    PROVE  \/ UNCHANGED <<comment, total, page>>
           \/ ReadPage
           \/ /\ \E r \in CommentRow :
                    /\ comment' = Append(comment, r)
                    /\ r.status = "aborted" \/ (r.status = "writing" /\ IndexFree(r.user, r.key))
              /\ UNCHANGED <<total, page>>
           \/ /\ \E i \in DOMAIN comment :
                    /\ comment[i].status = "writing"
                    /\ \/ /\ comment' = [comment EXCEPT ![i].status = "normal"]
                          /\ total' = [total EXCEPT ![comment[i].film] = @ + 1]
                       \/ /\ comment' = [comment EXCEPT ![i].status = "aborted"]
                          /\ UNCHANGED total
              /\ UNCHANGED page
           \/ /\ \E i \in DOMAIN comment :
                    /\ comment[i].status = "normal"
                    /\ comment' = [comment EXCEPT ![i].status = "deleted"]
                    /\ total' = [total EXCEPT ![comment[i].film] = IF @ = 0 THEN 0 ELSE @ - 1]
              /\ UNCHANGED page
<1>t. CommentRowsInv /\ HoldersInv
  BY DEF CommentInv
<1>1. ASSUME NEW c \in Clerk, NEW u \in Writer, NEW f \in Film, NEW key \in Slip \cup {NoSlip},
             CommentLookup(c, u, f, key)
      PROVE  UNCHANGED <<comment, total, page>>
  BY <1>1 DEF CommentLookup
<1>2. ASSUME NEW c \in Clerk, CommentInsert(c) \/ CommentDuplicate(c)
      PROVE  /\ \E r \in CommentRow :
                    /\ comment' = Append(comment, r)
                    /\ r.status = "aborted" \/ (r.status = "writing" /\ IndexFree(r.user, r.key))
             /\ UNCHANGED <<total, page>>
  <2> DEFINE q == clerk[c]
             entry(st) == [user |-> q.user, film |-> q.film, key |-> q.key, status |-> st]
  <2>1. q.user \in Writer /\ q.film \in Film /\ q.key \in Slip \cup {NoSlip}
    BY <1>2, <1>t, ClerkTypes DEF CommentInsert, CommentDuplicate
  <2>2. \A st \in {"writing", "aborted"} :
           entry(st) \in CommentRow /\ entry(st).status = st /\ entry(st).user = q.user /\ entry(st).key = q.key
    BY <2>1 DEF CommentRow
  <2>3. CASE CommentInsert(c)
    <3>1. IndexFree(q.user, q.key) /\ comment' = Append(comment, entry("writing"))
          /\ UNCHANGED <<total, page>>
      BY <2>3 DEF CommentInsert
    <3> HIDE DEF entry, q
    <3>2. QED
      BY <2>2, <3>1
  <2>4. CASE CommentDuplicate(c)
    <3>1. comment' = Append(comment, entry("aborted")) /\ UNCHANGED <<total, page>>
      BY <2>4 DEF CommentDuplicate
    <3> HIDE DEF entry, q
    <3>2. QED
      BY <2>2, <3>1
  <2>5. QED
    BY <1>2, <2>3, <2>4
<1>3. ASSUME NEW c \in Clerk, CommentCommit(c) \/ CommentRollback(c)
      PROVE  /\ \E i \in DOMAIN comment :
                    /\ comment[i].status = "writing"
                    /\ \/ /\ comment' = [comment EXCEPT ![i].status = "normal"]
                          /\ total' = [total EXCEPT ![comment[i].film] = @ + 1]
                       \/ /\ comment' = [comment EXCEPT ![i].status = "aborted"]
                          /\ UNCHANGED total
              /\ UNCHANGED page
  <2>1. clerk[c].pc = "writing" /\ UNCHANGED page
    BY <1>3 DEF CommentCommit, CommentRollback
  <2>2. /\ clerk[c].id \in DOMAIN comment /\ comment[clerk[c].id].status = "writing"
        /\ comment[clerk[c].id].film = clerk[c].film
    BY <1>t, <2>1 DEF HoldersInv
  <2>3. \/ /\ comment' = [comment EXCEPT ![clerk[c].id].status = "normal"]
           /\ total' = [total EXCEPT ![clerk[c].film] = @ + 1]
        \/ /\ comment' = [comment EXCEPT ![clerk[c].id].status = "aborted"]
           /\ UNCHANGED total
    BY <1>3 DEF CommentCommit, CommentRollback
  <2>4. QED
    BY <2>1, <2>2, <2>3
<1>4. ASSUME NEW c \in Clerk, CommentGivesUp(c) PROVE UNCHANGED <<comment, total, page>>
  BY <1>4 DEF CommentGivesUp
<1>5. ASSUME NEW u \in Writer, NEW i \in DOMAIN comment, DeleteComment(u, i)
      PROVE  /\ comment[i].status = "normal"
             /\ comment' = [comment EXCEPT ![i].status = "deleted"]
             /\ total' = [total EXCEPT ![comment[i].film] = IF @ = 0 THEN 0 ELSE @ - 1]
             /\ UNCHANGED page
  BY <1>5 DEF DeleteComment, Deletable
<1>6. ASSUME NEW f \in Film, ModerateFilm(f) PROVE UNCHANGED <<comment, total, page>>
  BY <1>6 DEF ModerateFilm
<1>7. CASE UNCHANGED commentVars
  BY <1>7 DEF commentVars
<1>8. QED
  BY CommentCases, <1>1, <1>2, <1>3, <1>4, <1>5, <1>6, <1>7

\* A page changes no row and no counter.
LEMMA PageQuiet == ReadPage => UNCHANGED <<comment, total>>
BY DEF ReadPage

-----------------------------------------------------------------------------
\* One comment for a key: the index refuses a second row, and no row that was
\* rolled back comes to life.
LEMMA OnceStep ==
    ASSUME CommentInv, CommentOnce, [CommentNext]_commentVars PROVE CommentOnce'
<1>t. comment \in Seq(CommentRow)
  BY DEF CommentInv, CommentRowsInv
<1>1. CASE UNCHANGED comment
  BY <1>1 DEF CommentOnce
<1>2. ASSUME NEW r \in CommentRow, comment' = Append(comment, r),
             r.status = "aborted" \/ (r.status = "writing" /\ IndexFree(r.user, r.key))
      PROVE  CommentOnce'
  <2> DEFINE n == Len(comment)
  <2>1. /\ n \in Nat /\ DOMAIN comment = 1..n /\ DOMAIN comment' = 1..(n + 1)
        /\ comment'[n + 1] = r /\ \A j \in DOMAIN comment : comment'[j] = comment[j]
    BY <1>t, <1>2, AddedComment
  <2> HIDE DEF n
  <2>2. ASSUME NEW i \in DOMAIN comment, comment[i].user = r.user, comment[i].key = r.key,
               r.key # NoSlip, r.status # "aborted"
        PROVE  comment[i].status = "aborted"
    <3>1. comment[i].status \in {"writing", "aborted", "normal", "deleted"}
      BY <1>t, CommentTypes DEF CommentRow
    <3>2. ~KeyHeld(r.user, r.key) /\ ~Found(r.user, r.key)
      BY <1>2, <2>2 DEF IndexFree
    <3>3. QED
      BY <2>2, <3>1, <3>2 DEF KeyHeld, Found
  <2>3. SUFFICES ASSUME NEW i \in 1..(n + 1), NEW j \in 1..(n + 1), i # j,
                        comment'[i].user = comment'[j].user, comment'[i].key = comment'[j].key,
                        comment'[i].key # NoSlip,
                        comment'[i].status # "aborted", comment'[j].status # "aborted"
                 PROVE  FALSE
    BY <2>1 DEF CommentOnce
  <2>4. CASE i \in DOMAIN comment /\ j \in DOMAIN comment
    BY <2>1, <2>3, <2>4 DEF CommentOnce
  <2>5. CASE i = n + 1 /\ j \in DOMAIN comment
    BY <2>1, <2>2, <2>3, <2>5
  <2>6. CASE j = n + 1 /\ i \in DOMAIN comment
    BY <2>1, <2>2, <2>3, <2>6
  <2>7. QED
    BY <2>1, <2>3, <2>4, <2>5, <2>6
<1>3. ASSUME NEW i \in DOMAIN comment, NEW st \in {"aborted", "normal", "deleted"},
             comment[i].status # "aborted", comment' = [comment EXCEPT ![i].status = st]
      PROVE  CommentOnce'
  <2>1. /\ DOMAIN comment' = DOMAIN comment
        /\ \A j \in DOMAIN comment :
                /\ comment'[j].user = comment[j].user
                /\ comment'[j].key = comment[j].key
                /\ comment'[j].status = IF j = i THEN st ELSE comment[j].status
    BY <1>t, <1>3, ChangedComment
  <2>2. \A j \in DOMAIN comment : comment'[j].status # "aborted" => comment[j].status # "aborted"
    BY <1>3, <2>1
  <2>3. QED
    BY <2>1, <2>2 DEF CommentOnce
<1>4. QED
  BY TableMoves, PageQuiet, <1>1, <1>2, <1>3

\* A key makes one comment for its user, however the retries of a request
\* overlap: the look-up may miss, the unique index does not.
THEOREM CommentsOnce == CommentSpec => []CommentOnce
<1>1. CommentInit => CommentOnce
  <2>1. CommentInit => DOMAIN comment = {}
    BY DEF CommentInit
  <2>2. QED
    BY <2>1 DEF CommentOnce
<1>2. CommentSpec => [](CommentInv /\ CommentOnce)
  BY <1>1, CommentInvInit, CommentInvNext, OnceStep, PTL DEF CommentSpec
<1>3. QED
  BY <1>2, PTL

-----------------------------------------------------------------------------
\* A reader's pages stay complete: what is committed later has an id behind the
\* cursor, for a comment that is not committed is the last of its video.
LEMMA PagesStep ==
    ASSUME CommentInv, PagesComplete, [CommentNext]_commentVars PROVE PagesComplete'
<1>t. /\ comment \in Seq(CommentRow) /\ LastInv /\ CursorInv
      /\ page \in [film: Film, cursor: Nat, seen: SUBSET DOMAIN comment]
  BY DEF CommentInv, CommentRowsInv, CursorInv
<1>n. Len(comment) \in Nat /\ DOMAIN comment = 1..Len(comment)
  BY <1>t, CommentTypes
<1>1. CASE UNCHANGED <<comment, page>>
  BY <1>1 DEF PagesComplete, Visible
<1>2. CASE ReadPage
  <2>1. PICK sent \in SUBSET Visible(page.film) : \E m \in sent :
              /\ page' = [page EXCEPT !.cursor = m, !.seen = @ \cup sent]
              /\ m > page.cursor
              /\ \A i \in Visible(page.film) : i > page.cursor /\ i <= m => i \in sent
              /\ UNCHANGED <<comment, total, airing, clerk>>
    BY <1>2, PageRead
  <2>2. PICK m \in sent :
              /\ page' = [page EXCEPT !.cursor = m, !.seen = @ \cup sent]
              /\ m > page.cursor
              /\ \A i \in Visible(page.film) : i > page.cursor /\ i <= m => i \in sent
              /\ UNCHANGED comment
    BY <2>1
  <2>3. page'.film = page.film /\ page'.cursor = m /\ page'.seen = page.seen \cup sent
    BY <1>t, <2>2
  <2>4. Visible(page.film)' = Visible(page.film)
    BY <2>2, <2>3 DEF Visible
  <2>5. ASSUME NEW i \in Visible(page.film), i <= m PROVE i \in page'.seen
    <3>1. i \in Nat
      BY <1>n DEF Visible
    <3>2. CASE i > page.cursor
      BY <2>2, <2>3, <2>5, <3>2
    <3>3. CASE i <= page.cursor
      BY <2>3, <3>3 DEF PagesComplete
    <3>4. QED
      BY <1>t, <3>1, <3>2, <3>3
  <2>6. QED
    BY <2>3, <2>4, <2>5 DEF PagesComplete
<1>3. ASSUME NEW r \in CommentRow, comment' = Append(comment, r),
             r.status \in {"aborted", "writing"}, UNCHANGED page
      PROVE  PagesComplete'
  <2>1. /\ DOMAIN comment' = 1..(Len(comment) + 1)
        /\ comment'[Len(comment) + 1] = r /\ \A j \in DOMAIN comment : comment'[j] = comment[j]
    BY <1>t, <1>3, AddedComment
  <2>2. Visible(page.film)' \subseteq Visible(page.film)
    BY <1>n, <1>3, <2>1 DEF Visible
  <2>3. QED
    BY <1>3, <2>2 DEF PagesComplete
<1>4. ASSUME NEW i \in DOMAIN comment, comment[i].status = "writing",
             NEW st \in {"aborted", "normal", "deleted"},
             comment' = [comment EXCEPT ![i].status = st], UNCHANGED page
      PROVE  PagesComplete'
  <2>1. /\ DOMAIN comment' = DOMAIN comment
        /\ \A j \in DOMAIN comment :
                /\ comment'[j].film = comment[j].film
                /\ comment'[j].status = IF j = i THEN st ELSE comment[j].status
    BY <1>t, <1>4, ChangedComment
  <2>2. Visible(page.film)' \subseteq Visible(page.film) \cup
             {j \in {i} : comment[j].film = page.film}
    BY <1>4, <2>1 DEF Visible
  <2>3. comment[i].film = page.film => i > page.cursor
    <3>1. CASE page.cursor = 0
      BY <1>n, <3>1
    <3>2. CASE /\ page.cursor \in DOMAIN comment
               /\ comment[page.cursor].film = page.film
               /\ comment[page.cursor].status \in {"normal", "deleted"}
      <4>1. comment[i].film = page.film => page.cursor <= i
        BY <1>t, <1>4, <3>2 DEF LastInv
      <4>2. page.cursor # i
        BY <1>4, <3>2
      <4>3. QED
        BY <1>n, <3>2, <4>1, <4>2
    <3>3. QED
      BY <1>t, <3>1, <3>2 DEF CursorInv
  <2>4. ASSUME NEW j \in Visible(page.film)', j <= page.cursor PROVE j \in page.seen
    <3>1. j # i \/ comment[i].film # page.film
      BY <1>n, <1>t, <2>3, <2>4
    <3>2. j \in Visible(page.film)
      BY <2>2, <3>1
    <3>3. QED
      BY <2>4, <3>2 DEF PagesComplete
  <2>5. QED
    BY <1>4, <2>4 DEF PagesComplete
<1>5. ASSUME NEW i \in DOMAIN comment, comment[i].status = "normal",
             comment' = [comment EXCEPT ![i].status = "deleted"], UNCHANGED page
      PROVE  PagesComplete'
  <2>1. /\ DOMAIN comment' = DOMAIN comment
        /\ \A j \in DOMAIN comment :
                /\ comment'[j].film = comment[j].film
                /\ comment'[j].status = IF j = i THEN "deleted" ELSE comment[j].status
    BY <1>t, <1>5, ChangedComment
  <2>2. Visible(page.film)' \subseteq Visible(page.film)
    BY <1>5, <2>1 DEF Visible
  <2>3. QED
    BY <1>5, <2>2 DEF PagesComplete
<1>6. QED
  BY TableMoves, <1>1, <1>2, <1>3, <1>4, <1>5

\* A reader who pages by id misses no comment: the lock of the video keeps the
\* order of the ids the order of the commits.
THEOREM PagesAreComplete == CommentSpec => []PagesComplete
<1>1. CommentInit => PagesComplete
  <2>1. CommentInit => DOMAIN comment = {}
    BY DEF CommentInit
  <2>2. QED
    BY <2>1 DEF PagesComplete, Visible
<1>2. CommentSpec => [](CommentInv /\ PagesComplete)
  BY <1>1, CommentInvInit, CommentInvNext, PagesStep, PTL DEF CommentSpec
<1>3. QED
  BY <1>2, PTL

-----------------------------------------------------------------------------
\* The counter of a video counts its visible comments.
CountInv == \A f \in Film : total[f] = Cardinality(Visible(f))

\* What a step does to the visible comments and to the counter.
LEMMA CountStep ==
    ASSUME CommentInv, CountInv, [CommentNext]_commentVars
    PROVE  /\ CountInv'
           /\ CommentCounter!TallyNext \/ UNCHANGED <<[f \in Film |-> Visible(f)], total>>
<1> DEFINE shown == [f \in Film |-> Visible(f)]
<1>t. /\ comment \in Seq(CommentRow) /\ total \in [Film -> Nat]
      /\ Len(comment) <= MaxComments /\ MaxComments \in Nat
  BY CommentConstants DEF CommentInv, CommentRowsInv
<1>n. /\ Len(comment) \in Nat /\ DOMAIN comment = 1..Len(comment)
      /\ \A i \in DOMAIN comment : comment[i] \in CommentRow
  BY <1>t, CommentTypes
<1>m. DOMAIN comment \subseteq 1..MaxComments
  BY <1>t, <1>n
<1>f. \A f \in Film : IsFiniteSet(Visible(f))
  <2>1. IsFiniteSet(DOMAIN comment)
    BY <1>n, FS_Interval
  <2>2. QED
    BY <2>1, FS_Subset DEF Visible
<1>1. ASSUME \A f \in Film : Visible(f)' = Visible(f), UNCHANGED total
      PROVE  CountInv' /\ UNCHANGED <<shown, total>>
  BY <1>1 DEF CountInv
<1>2. ASSUME NEW g \in Film, NEW i \in DOMAIN comment, i \notin Visible(g),
             \A f \in Film : Visible(f)' = IF f = g THEN Visible(f) \cup {i} ELSE Visible(f),
             total' = [total EXCEPT ![g] = @ + 1]
      PROVE  CountInv' /\ CommentCounter!TallyNext
  <2>1. Cardinality(Visible(g) \cup {i}) = Cardinality(Visible(g)) + 1
    BY <1>f, <1>2, OneMore
  <2>2. ASSUME NEW f \in Film PROVE total'[f] = Cardinality(Visible(f)')
    BY <1>t, <1>2, <2>1 DEF CountInv
  <2>3. CountInv'
    BY <2>2 DEF CountInv
  <2>4. i \in 1..MaxComments /\ i \notin shown[g] /\ shown' = [shown EXCEPT ![g] = @ \cup {i}]
    BY <1>m, <1>2
  <2>5. total' # total
    BY <1>t, <1>2
  <2>6. CommentCounter!Join(g, i)
    BY <1>2, <2>4 DEF CommentCounter!Join
  <2>7. QED
    BY <1>2, <2>3, <2>4, <2>5, <2>6 DEF CommentCounter!TallyNext
<1>3. ASSUME NEW g \in Film, NEW i \in Visible(g),
             \A f \in Film : Visible(f)' = IF f = g THEN Visible(f) \ {i} ELSE Visible(f),
             total' = [total EXCEPT ![g] = IF @ = 0 THEN 0 ELSE @ - 1]
      PROVE  CountInv' /\ CommentCounter!TallyNext
  <2>1. Cardinality(Visible(g) \ {i}) = Cardinality(Visible(g)) - 1
        /\ Cardinality(Visible(g)) \in Nat \ {0}
    BY <1>f, <1>3, OneLess
  <2>2. total[g] # 0 /\ total[g] \in Nat /\ total' = [total EXCEPT ![g] = @ - 1]
    BY <1>t, <1>3, <2>1 DEF CountInv
  <2>3. ASSUME NEW f \in Film PROVE total'[f] = Cardinality(Visible(f)')
    BY <1>t, <1>3, <2>1, <2>2 DEF CountInv
  <2>4. CountInv'
    BY <2>3 DEF CountInv
  <2>5. i \in DOMAIN comment
    BY DEF Visible
  <2>6. i \in 1..MaxComments /\ i \in shown[g] /\ shown' = [shown EXCEPT ![g] = @ \ {i}]
    BY <1>m, <1>3, <2>5
  <2>7. total' # total
    BY <1>t, <2>2
  <2>8. CommentCounter!Leave(g, i)
    BY <2>2, <2>6 DEF CommentCounter!Leave
  <2>9. QED
    BY <1>3, <2>4, <2>6, <2>7, <2>8 DEF CommentCounter!TallyNext
<1>4. CASE UNCHANGED <<comment, total>>
  <2>1. \A f \in Film : Visible(f)' = Visible(f)
    BY <1>4 DEF Visible
  <2>2. QED
    BY <1>1, <1>4, <2>1
<1>5. ASSUME NEW r \in CommentRow, comment' = Append(comment, r),
             r.status \in {"aborted", "writing"}, UNCHANGED total
      PROVE  CountInv' /\ UNCHANGED <<shown, total>>
  <2>1. /\ DOMAIN comment' = 1..(Len(comment) + 1)
        /\ comment'[Len(comment) + 1] = r /\ \A j \in DOMAIN comment : comment'[j] = comment[j]
    BY <1>t, <1>5, AddedComment
  <2>2. \A f \in Film : Visible(f)' = Visible(f)
    BY <1>n, <1>5, <2>1 DEF Visible
  <2>3. QED
    BY <1>1, <1>5, <2>2
<1>6. ASSUME NEW i \in DOMAIN comment, NEW st \in {"aborted", "normal", "deleted"},
             comment' = [comment EXCEPT ![i].status = st]
      PROVE  \A f \in Film : Visible(f)' = {j \in DOMAIN comment : comment[j].film = f
                    /\ (IF j = i THEN st ELSE comment[j].status) = "normal"}
  <2>1. /\ DOMAIN comment' = DOMAIN comment
        /\ \A j \in DOMAIN comment :
                /\ comment'[j].film = comment[j].film
                /\ comment'[j].status = IF j = i THEN st ELSE comment[j].status
    BY <1>t, <1>6, ChangedComment
  <2>2. QED
    BY <2>1 DEF Visible
<1>7. ASSUME NEW i \in DOMAIN comment, comment[i].status = "writing",
             comment' = [comment EXCEPT ![i].status = "aborted"], UNCHANGED total
      PROVE  CountInv' /\ UNCHANGED <<shown, total>>
  <2>1. \A f \in Film : Visible(f)' = Visible(f)
    BY <1>6, <1>7 DEF Visible
  <2>2. QED
    BY <1>1, <1>7, <2>1
<1>8. ASSUME NEW i \in DOMAIN comment, comment[i].status = "writing",
             comment' = [comment EXCEPT ![i].status = "normal"],
             total' = [total EXCEPT ![comment[i].film] = @ + 1]
      PROVE  CountInv' /\ CommentCounter!TallyNext
  <2>1. comment[i].film \in Film
    BY <1>n DEF CommentRow
  <2>2. i \notin Visible(comment[i].film)
    BY <1>8 DEF Visible
  <2>3. \A f \in Film : Visible(f)' = IF f = comment[i].film THEN Visible(f) \cup {i} ELSE Visible(f)
    BY <1>6, <1>8 DEF Visible
  <2>4. QED
    BY <1>2, <1>8, <2>1, <2>2, <2>3
<1>9. ASSUME NEW i \in DOMAIN comment, comment[i].status = "normal",
             comment' = [comment EXCEPT ![i].status = "deleted"],
             total' = [total EXCEPT ![comment[i].film] = IF @ = 0 THEN 0 ELSE @ - 1]
      PROVE  CountInv' /\ CommentCounter!TallyNext
  <2>1. comment[i].film \in Film
    BY <1>n DEF CommentRow
  <2>2. i \in Visible(comment[i].film)
    BY <1>9 DEF Visible
  <2>3. \A f \in Film : Visible(f)' = IF f = comment[i].film THEN Visible(f) \ {i} ELSE Visible(f)
    BY <1>6, <1>9 DEF Visible
  <2>4. QED
    BY <1>3, <1>9, <2>1, <2>2, <2>3
<1> DEFINE quiet == UNCHANGED <<shown, total>>
           tallied == CommentCounter!TallyNext
<1>a. UNCHANGED <<comment, total>> => CountInv' /\ (tallied \/ quiet)
  BY <1>4
<1>b. ASSUME NEW r \in CommentRow, comment' = Append(comment, r),
             r.status = "aborted" \/ (r.status = "writing" /\ IndexFree(r.user, r.key)),
             UNCHANGED total
      PROVE  CountInv' /\ quiet
  BY <1>5, <1>b
<1>c. ASSUME NEW i \in DOMAIN comment, comment[i].status = "writing",
             \/ /\ comment' = [comment EXCEPT ![i].status = "normal"]
                /\ total' = [total EXCEPT ![comment[i].film] = @ + 1]
             \/ /\ comment' = [comment EXCEPT ![i].status = "aborted"]
                /\ UNCHANGED total
      PROVE  CountInv' /\ (tallied \/ quiet)
  <2>1. CASE UNCHANGED total /\ comment' = [comment EXCEPT ![i].status = "aborted"]
    BY <1>c, <1>7, <2>1
  <2>2. CASE /\ comment' = [comment EXCEPT ![i].status = "normal"]
             /\ total' = [total EXCEPT ![comment[i].film] = @ + 1]
    BY <1>c, <1>8, <2>2
  <2>3. QED
    BY <1>c, <2>1, <2>2
<1>d. ASSUME NEW i \in DOMAIN comment, comment[i].status = "normal",
             comment' = [comment EXCEPT ![i].status = "deleted"],
             total' = [total EXCEPT ![comment[i].film] = IF @ = 0 THEN 0 ELSE @ - 1]
      PROVE  CountInv' /\ tallied
  BY <1>d, <1>9
<1> HIDE DEF quiet, tallied
<1>12. CountInv' /\ (tallied \/ quiet)
  BY TableMoves, PageQuiet, <1>a, <1>b, <1>c, <1>d
<1>13. QED
  BY <1>12 DEF quiet, tallied

\* The visible comments of a video and its comment_count implement a tally,
\* also when creations and deletions race: the step that makes a comment appear
\* or disappear is the one that moves the number.
THEOREM CommentsTallied == CommentSpec => CommentTally
<1>1. CommentInit => CommentCounter!TallyInit /\ CountInv
  <2> SUFFICES ASSUME CommentInit PROVE CommentCounter!TallyInit /\ CountInv
    OBVIOUS
  <2>1. DOMAIN comment = {} /\ total = [f \in Film |-> 0]
    BY DEF CommentInit
  <2>2. \A f \in Film : Visible(f) = {}
    BY <2>1 DEF Visible
  <2>3. CountInv
    BY <2>1, <2>2, FS_EmptySet DEF CountInv
  <2>4. QED
    BY <2>1, <2>2, <2>3 DEF CommentCounter!TallyInit
<1>2. CommentInv /\ CountInv /\ [CommentNext]_commentVars
        => CountInv' /\ [CommentCounter!TallyNext]_<<[f \in Film |-> Visible(f)], total>>
  BY CountStep
<1>3. QED
  BY <1>1, <1>2, CommentInvInit, CommentInvNext, PTL
     DEF CommentSpec, CommentTally, CommentCounter!TallySpec

-----------------------------------------------------------------------------
(***************************************************************************)
(* Likes and favourites.  An idempotency key has a direction, so a request *)
(* that finds its own key stored finds its own direction stored.           *)
(***************************************************************************)

\* An event or a press, its key of its own direction.
GoodEvent == {e \in Event : Keyed(e.key) => e.key.active = e.active}

\* A stored choice, its key of its own direction.
GoodChoice == {c \in ChoiceState :
                  c.status # "none" /\ Keyed(c.key) => c.status = StatusOf(c.key.active)}

GoodDesk == [pc: {"loaded", "stored", "sync"}, press: GoodEvent, initial: Counts]

ActionInv ==
    /\ row \in [Fan -> [Kind -> GoodChoice]]
    /\ hot \in [Fan -> [Kind -> GoodChoice]]
    /\ count \in Counts
    /\ onAir \in BOOLEAN
    /\ base \in Counts \cup {NoBase}
    /\ shard \in [Fan -> [Kind -> Int]]
    /\ queue \in Seq(GoodEvent)
    /\ buffer \in Seq(GoodEvent)
    /\ applied \in BOOLEAN
    /\ applied => buffer # <<>>
    /\ desk \in [Desk -> GoodDesk \cup {IdleDesk}]
    /\ presses \in 0..MaxPress
    /\ upsets \in 0..MaxUpset

\* What MySQL counts are the users whose row is active.
FansInv == \A k \in Kind : count[k] = Cardinality(ActiveFans[k])

-----------------------------------------------------------------------------
\* The deliveries that the worker holds and the events behind them.
Path == buffer \o queue

\* An event about a user's choice, and the last such event of a sequence.
About(e, u, k) == e.user = u /\ e.kind = k

LastAbout(s, i, u, k) ==
    /\ i \in 1..Len(s)
    /\ About(s[i], u, k)
    /\ \A j \in 1..Len(s) : About(s[j], u, k) => j <= i

\* A request between Redis and the broker.
Owed(d, u, k) == desk[d].pc = "stored" /\ About(desk[d].press, u, k)

Direction(u, k) == hot[u][k].status = "active"

\* Where nothing went wrong: there is at most one request at a time for a choice,
OneDesk ==
    \A c, d \in Desk, u \in Fan, k \in Kind :
        BusyWith(c, u, k) /\ BusyWith(d, u, k) => c = d

\* a request that owes an event has stored its direction,
OwedInv ==
    \A d \in Desk, u \in Fan, k \in Kind :
        Owed(d, u, k) => (desk[d].press.active <=> Direction(u, k))

\* the last word on its way to MySQL is what Redis has, and MySQL has it when no
\* word is on its way,
WordInv ==
    \A u \in Fan, k \in Kind :
        (\A d \in Desk : ~Owed(d, u, k)) =>
           /\ \A i \in 1..Len(Path) :
                 LastAbout(Path, i, u, k) => (Path[i].active <=> Direction(u, k))
           /\ (\A i \in 1..Len(Path) : ~About(Path[i], u, k)) =>
                 (row[u][k].status = "active" <=> Direction(u, k))

\* and a committed delivery is what its row says.
HeadInv == applied => row[Path[1].user][Path[1].kind].status = StatusOf(Path[1].active)

CalmInv ==
    /\ \A d \in Desk : desk[d].pc # "sync"
    /\ OneDesk /\ OwedInv /\ WordInv /\ HeadInv

\* And the numbers of Redis: the base is 0, a shard is what its user's choice is
\* worth, and before the first choice is stored nothing has reached MySQL.
NumbersInv ==
    /\ \A u \in Fan, k \in Kind : shard[u][k] = IF Direction(u, k) THEN 1 ELSE 0
    /\ base # NoBase => base = [k \in Kind |-> 0]
    /\ base = NoBase =>
          /\ count = [k \in Kind |-> 0] /\ Path = <<>>
          /\ \A d \in Desk : desk[d].pc # "idle" =>
                desk[d].pc = "loaded" /\ desk[d].initial = [k \in Kind |-> 0]

ConvergeInv == upsets = 0 => CalmInv /\ NumbersInv

-----------------------------------------------------------------------------
\* What an event is made of.
LEMMA EventTypes ==
    ASSUME NEW e \in GoodEvent
    PROVE  /\ e \in Event /\ e.user \in Fan /\ e.kind \in Kind /\ e.active \in BOOLEAN
           /\ e.key \in Key /\ (Keyed(e.key) => e.key.active = e.active)
           /\ StatusOf(e.active) \in {"active", "canceled"}
BY DEF GoodEvent, Event, StatusOf

\* Storing an event's choice: the status becomes the event's direction, also
\* where the key is found stored and nothing is written.
LEMMA StoredChoice ==
    ASSUME NEW e \in GoodEvent, NEW stored \in GoodChoice
    PROVE  LET r == IF SameKey(stored, e.key) THEN stored
                    ELSE [status |-> StatusOf(e.active), key |-> e.key]
               h == [status |-> IF SameKey(stored, e.key) THEN stored.status
                                ELSE StatusOf(e.active),
                     key |-> e.key]
           IN  /\ r \in GoodChoice /\ r.status = StatusOf(e.active)
               /\ h \in GoodChoice /\ h.status = StatusOf(e.active)
<1>1. /\ e.active \in BOOLEAN /\ e.key \in Key /\ (Keyed(e.key) => e.key.active = e.active)
      /\ StatusOf(e.active) \in {"active", "canceled"}
  BY EventTypes
<1>2. ASSUME SameKey(stored, e.key)
      PROVE  stored.status = StatusOf(e.active) /\ stored.key = e.key
  BY <1>1, <1>2 DEF SameKey, GoodChoice
<1> DEFINE w == [status |-> StatusOf(e.active), key |-> e.key]
<1>3. w \in GoodChoice /\ w.status = StatusOf(e.active)
  <2>1. w \in ChoiceState /\ w.status = StatusOf(e.active) /\ w.key = e.key
    BY <1>1 DEF ChoiceState
  <2>2. Keyed(w.key) => w.status = StatusOf(w.key.active)
    BY <1>1, <2>1
  <2>3. QED
    BY <2>1, <2>2 DEF GoodChoice
<1>4. CASE SameKey(stored, e.key)
  <2>1. [status |-> stored.status, key |-> e.key] = w
    BY <1>2, <1>4
  <2>2. QED
    BY <1>2, <1>3, <1>4, <2>1
<1>5. CASE ~SameKey(stored, e.key)
  BY <1>3, <1>5
<1>6. QED
  BY <1>4, <1>5

\* What the change is worth, to the counter of video_stat and to the shard.
LEMMA DeltaWorth ==
    ASSUME NEW e \in GoodEvent, NEW stored \in GoodChoice
    PROVE  /\ ActionDelta(stored, e.active, e.key) =
                 IF StatusOf(e.active) = "active"
                 THEN (IF stored.status = "active" THEN 0 ELSE 1)
                 ELSE (IF stored.status = "active" THEN -1 ELSE 0)
           /\ StateDelta(stored, e.active, e.key) = ActionDelta(stored, e.active, e.key)
<1>1. /\ e.active \in BOOLEAN /\ (Keyed(e.key) => e.key.active = e.active)
      /\ (StatusOf(e.active) = "active" <=> e.active)
      /\ (StatusOf(e.active) = "canceled" <=> ~e.active)
  BY EventTypes DEF StatusOf
<1>2. stored.status \in {"none", "active", "canceled"}
  BY DEF GoodChoice, ChoiceState
<1>3. CASE SameKey(stored, e.key)
  <2>1. stored.status = StatusOf(e.active)
    BY <1>1, <1>3 DEF SameKey, GoodChoice
  <2>2. stored.status = "active" <=> e.active
    BY <1>1, <2>1
  <2>3. QED
    BY <1>1, <1>3, <2>2 DEF ActionDelta, StateDelta
<1>4. CASE ~SameKey(stored, e.key) /\ e.active
  BY <1>1, <1>2, <1>4 DEF ActionDelta, StateDelta
<1>5. CASE ~SameKey(stored, e.key) /\ ~e.active
  BY <1>1, <1>2, <1>5 DEF ActionDelta, StateDelta
<1>6. QED
  BY <1>3, <1>4, <1>5

\* One choice of one user is replaced.
LEMMA ChoiceReplaced ==
    ASSUME NEW old \in [Fan -> [Kind -> GoodChoice]], NEW u \in Fan, NEW k \in Kind,
           NEW r \in GoodChoice, NEW new, new = [old EXCEPT ![u][k] = r]
    PROVE  /\ new \in [Fan -> [Kind -> GoodChoice]]
           /\ \A v \in Fan, l \in Kind : new[v][l] = IF v = u /\ l = k THEN r ELSE old[v][l]
OBVIOUS

\* SetAction: one row takes the event's direction, and its counter moves with it.
LEMMA RowMoves ==
    ASSUME ActionInv, NEW e \in GoodEvent, SetAction(e)
    PROVE  /\ row' \in [Fan -> [Kind -> GoodChoice]]
           /\ \A u \in Fan, k \in Kind : row'[u][k].status =
                 IF About(e, u, k) THEN StatusOf(e.active) ELSE row[u][k].status
           /\ count' = [count EXCEPT ![e.kind] = Clamp(@ +
                 IF StatusOf(e.active) = "active"
                 THEN (IF row[e.user][e.kind].status = "active" THEN 0 ELSE 1)
                 ELSE (IF row[e.user][e.kind].status = "active" THEN -1 ELSE 0))]
           /\ count' \in Counts
<1> DEFINE stored == row[e.user][e.kind]
           r == IF SameKey(stored, e.key) THEN stored
                ELSE [status |-> StatusOf(e.active), key |-> e.key]
<1>1. e.user \in Fan /\ e.kind \in Kind /\ row \in [Fan -> [Kind -> GoodChoice]] /\ count \in Counts
  BY EventTypes DEF ActionInv
<1>2. stored \in GoodChoice
  BY <1>1
<1>3. /\ row' = [row EXCEPT ![e.user][e.kind] = r]
      /\ count' = [count EXCEPT ![e.kind] = Clamp(@ + ActionDelta(stored, e.active, e.key))]
  BY DEF SetAction
<1> HIDE DEF stored
<1>4. r \in GoodChoice /\ r.status = StatusOf(e.active)
  BY <1>2, StoredChoice
<1> HIDE DEF r
<1>5. /\ row' \in [Fan -> [Kind -> GoodChoice]]
      /\ \A v \in Fan, l \in Kind :
            row'[v][l] = IF v = e.user /\ l = e.kind THEN r ELSE row[v][l]
  BY <1>1, <1>3, <1>4, ChoiceReplaced
<1>6. \A u \in Fan, k \in Kind : row'[u][k].status =
         IF About(e, u, k) THEN StatusOf(e.active) ELSE row[u][k].status
  BY <1>4, <1>5 DEF About
<1>7. ActionDelta(stored, e.active, e.key) =
         IF StatusOf(e.active) = "active" THEN (IF stored.status = "active" THEN 0 ELSE 1)
         ELSE (IF stored.status = "active" THEN -1 ELSE 0)
  BY <1>2, DeltaWorth
<1>8. count' \in Counts
  <2> DEFINE d == ActionDelta(stored, e.active, e.key)
  <2>1. d \in {0, 1, -1}
    BY <1>7
  <2> HIDE DEF d
  <2>2. Clamp(count[e.kind] + d) \in Nat
    BY <1>1, <2>1 DEF Counts, Clamp
  <2>3. QED
    BY <1>1, <1>3, <2>2 DEF Counts, d
<1>9. QED
  BY <1>3, <1>5, <1>6, <1>7, <1>8 DEF stored

\* SetActionState: Redis has the direction, and the user's shard moves with it.
LEMMA HotMoves ==
    ASSUME ActionInv, NEW e \in GoodEvent, NEW initial \in Counts, SetActionState(e, initial)
    PROVE  /\ hot' \in [Fan -> [Kind -> GoodChoice]]
           /\ \A u \in Fan, k \in Kind : hot'[u][k].status =
                 IF About(e, u, k) THEN StatusOf(e.active) ELSE hot[u][k].status
           /\ shard' = [shard EXCEPT ![e.user][e.kind] = @ +
                 StateDelta(hot[e.user][e.kind], e.active, e.key)]
           /\ StateDelta(hot[e.user][e.kind], e.active, e.key) =
                 IF StatusOf(e.active) = "active"
                 THEN (IF hot[e.user][e.kind].status = "active" THEN 0 ELSE 1)
                 ELSE (IF hot[e.user][e.kind].status = "active" THEN -1 ELSE 0)
           /\ shard' \in [Fan -> [Kind -> Int]]
           /\ base' = (IF base = NoBase THEN initial ELSE base) /\ base' \in Counts \cup {NoBase}
<1> DEFINE stored == hot[e.user][e.kind]
           h == [status |-> IF SameKey(stored, e.key) THEN stored.status ELSE StatusOf(e.active),
                 key |-> e.key]
           d == StateDelta(stored, e.active, e.key)
<1>1. /\ e.user \in Fan /\ e.kind \in Kind /\ hot \in [Fan -> [Kind -> GoodChoice]]
      /\ shard \in [Fan -> [Kind -> Int]] /\ base \in Counts \cup {NoBase}
  BY EventTypes DEF ActionInv
<1>2. stored \in GoodChoice
  BY <1>1
<1>3. /\ hot' = [hot EXCEPT ![e.user][e.kind] = h]
      /\ shard' = [shard EXCEPT ![e.user][e.kind] = @ + d]
      /\ base' = IF base = NoBase THEN initial ELSE base
  BY DEF SetActionState
<1> HIDE DEF stored
<1>4. h \in GoodChoice /\ h.status = StatusOf(e.active)
  BY <1>2, StoredChoice
<1>5. d = IF StatusOf(e.active) = "active" THEN (IF stored.status = "active" THEN 0 ELSE 1)
          ELSE (IF stored.status = "active" THEN -1 ELSE 0)
  BY <1>2, DeltaWorth
<1> HIDE DEF h, d
<1>6. /\ hot' \in [Fan -> [Kind -> GoodChoice]]
      /\ \A v \in Fan, l \in Kind :
            hot'[v][l] = IF v = e.user /\ l = e.kind THEN h ELSE hot[v][l]
  BY <1>1, <1>3, <1>4, ChoiceReplaced
<1>7. \A u \in Fan, k \in Kind : hot'[u][k].status =
         IF About(e, u, k) THEN StatusOf(e.active) ELSE hot[u][k].status
  BY <1>4, <1>6 DEF About
<1>8. shard' \in [Fan -> [Kind -> Int]]
  <2>1. d \in Int
    BY <1>5
  <2>2. QED
    BY <1>1, <1>3, <2>1
<1>9. QED
  BY <1>1, <1>3, <1>5, <1>6, <1>7, <1>8 DEF stored, d

-----------------------------------------------------------------------------
\* The actions, one by one.
LEMMA ActionCases ==
    ASSUME ActionNext
    PROVE  \/ \E d \in Desk, e \in Presses : PressBegin(d, e)
           \/ \E d \in Desk : PressStore(d) \/ PressPublish(d) \/ PressSync(d) \/ PressFails(d)
           \/ \E d \in Desk, enqueued \in BOOLEAN : PressUnconfirmed(d, enqueued)
           \/ Deliver \/ ApplyAction \/ AckAction \/ NackAction \/ WorkerDies
           \/ \E u \in Fan, k \in Kind : ForgetChoice(u, k)
           \/ \E u \in Fan : ForgetShard(u)
           \/ ForgetBase \/ Moderate
BY DEF ActionNext, DeskStep

\* A press has a key of its own direction, or none.
LEMMA PressesGood == Presses \subseteq GoodEvent
<1> SUFFICES ASSUME NEW a \in BOOLEAN, NEW e \in [user: Fan, kind: Kind, active: {a}, key: KeysFor(a)]
             PROVE  e \in GoodEvent
  BY DEF Presses
<1>1. /\ e = [user |-> e.user, kind |-> e.kind, active |-> e.active, key |-> e.key]
      /\ e.user \in Fan /\ e.kind \in Kind /\ e.active = a /\ e.key \in KeysFor(a)
  OBVIOUS
<1>2. CASE e.key = NoKey
  <2>1. e.key \in Key /\ ~Keyed(e.key)
    BY <1>2 DEF Key, NoKey, Keyed
  <2>2. e \in Event
    BY <1>1, <2>1 DEF Event
  <2>3. QED
    BY <2>1, <2>2 DEF GoodEvent
<1>3. CASE e.key \in {[active |-> a, token |-> t] : t \in Token}
  <2>1. e.key \in Key /\ e.key.active = a
    BY <1>3 DEF Key
  <2>2. e \in Event
    BY <1>1, <2>1 DEF Event
  <2>3. QED
    BY <1>1, <2>1, <2>2 DEF GoodEvent
<1>4. QED
  BY <1>1, <1>2, <1>3 DEF KeysFor

\* What a request that is not idle knows.
LEMMA DeskTypes ==
    ASSUME ActionInv, NEW d \in Desk, desk[d].pc # "idle"
    PROVE  /\ desk[d] \in GoodDesk /\ desk[d].press \in GoodEvent /\ desk[d].initial \in Counts
           /\ desk[d].pc \in {"loaded", "stored", "sync"}
           /\ desk[d].press.user \in Fan /\ desk[d].press.kind \in Kind
<1>1. desk[d] \in GoodDesk \cup {IdleDesk}
  BY DEF ActionInv
<1>2. desk[d] # IdleDesk
  BY DEF IdleDesk
<1>3. desk[d] \in GoodDesk /\ desk[d].press \in GoodEvent /\ desk[d].initial \in Counts
      /\ desk[d].pc \in {"loaded", "stored", "sync"}
  BY <1>1, <1>2 DEF GoodDesk
<1>4. QED
  BY <1>3, EventTypes

\* The queue and the buffer as the worker moves them.
LEMMA MovedEvents ==
    ASSUME NEW s \in Seq(GoodEvent)
    PROVE  /\ Len(s) \in Nat /\ DOMAIN s = 1..Len(s) /\ \A i \in 1..Len(s) : s[i] \in GoodEvent
           /\ s # <<>> <=> Len(s) > 0
           /\ s # <<>> => Head(s) \in GoodEvent /\ Head(s) = s[1] /\ Tail(s) \in Seq(GoodEvent)
           /\ \A e \in GoodEvent : Append(s, e) \in Seq(GoodEvent) /\ Append(s, e) # <<>>
           /\ \A e \in GoodEvent : <<e>> \o s \in Seq(GoodEvent)
           /\ \A t \in Seq(GoodEvent) : t \o s \in Seq(GoodEvent)
<1>1. /\ Len(s) \in Nat /\ DOMAIN s = 1..Len(s) /\ \A i \in 1..Len(s) : s[i] \in GoodEvent
  BY LenProperties, ElementOfSeq
<1>2. s # <<>> <=> Len(s) > 0
  BY <1>1, EmptySeq, LenProperties
<1>3. s # <<>> => Head(s) \in GoodEvent /\ Head(s) = s[1] /\ Tail(s) \in Seq(GoodEvent)
  BY <1>1, <1>2, HeadTailProperties
<1>4. \A e \in GoodEvent : Append(s, e) \in Seq(GoodEvent) /\ Append(s, e) # <<>>
  BY AppendProperties
<1>5. \A t \in Seq(GoodEvent) : t \o s \in Seq(GoodEvent)
  BY ConcatProperties
<1>6. \A e \in GoodEvent : <<e>> \o s \in Seq(GoodEvent)
  <2>1. \A e \in GoodEvent : <<e>> \in Seq(GoodEvent)
    OBVIOUS
  <2>2. QED
    BY <1>5, <2>1
<1>7. QED
  BY <1>1, <1>2, <1>3, <1>4, <1>5, <1>6

-----------------------------------------------------------------------------
\* Everything starts empty.
LEMMA ActionInvInit == ActionInit => ActionInv
<1> SUFFICES ASSUME ActionInit PROVE ActionInv
  OBVIOUS
<1>1. NoChoice \in GoodChoice
  BY DEF NoChoice, NoKey, GoodChoice, ChoiceState, Key
<1>2. queue \in Seq(GoodEvent) /\ buffer \in Seq(GoodEvent)
  BY EmptySeq DEF ActionInit
<1>3. count \in Counts
  BY DEF ActionInit, Counts
<1>4. /\ row \in [Fan -> [Kind -> GoodChoice]] /\ hot \in [Fan -> [Kind -> GoodChoice]]
      /\ shard \in [Fan -> [Kind -> Int]]
  BY <1>1 DEF ActionInit
<1>5. desk \in [Desk -> GoodDesk \cup {IdleDesk}] /\ base \in Counts \cup {NoBase}
  BY DEF ActionInit
<1>6. onAir \in BOOLEAN /\ applied \in BOOLEAN /\ (applied => buffer # <<>>)
  BY DEF ActionInit
<1>7. presses \in 0..MaxPress /\ upsets \in 0..MaxUpset
  BY ActionConstants DEF ActionInit
<1>8. QED
  BY <1>2, <1>3, <1>4, <1>5, <1>6, <1>7 DEF ActionInv

\* Every step keeps the types and the directions of the keys.
LEMMA ActionInvNext == ASSUME ActionInv, [ActionNext]_actionVars PROVE ActionInv'
<1>t. /\ row \in [Fan -> [Kind -> GoodChoice]] /\ hot \in [Fan -> [Kind -> GoodChoice]]
      /\ count \in Counts /\ onAir \in BOOLEAN /\ base \in Counts \cup {NoBase}
      /\ shard \in [Fan -> [Kind -> Int]]
      /\ queue \in Seq(GoodEvent) /\ buffer \in Seq(GoodEvent)
      /\ applied \in BOOLEAN /\ (applied => buffer # <<>>)
      /\ desk \in [Desk -> GoodDesk \cup {IdleDesk}]
      /\ presses \in 0..MaxPress /\ upsets \in 0..MaxUpset
      /\ MaxPress \in Nat /\ MaxUpset \in Nat
  BY ActionConstants DEF ActionInv
<1> DEFINE limits == presses' \in 0..MaxPress /\ upsets' \in 0..MaxUpset
<1>a. ASSUME NEW d \in Desk, DeskIdle(d) PROVE desk' \in [Desk -> GoodDesk \cup {IdleDesk}]
  BY <1>t, <1>a DEF DeskIdle
<1>1. ASSUME NEW d \in Desk, NEW e \in Presses, PressBegin(d, e) PROVE ActionInv'
  <2> DEFINE q == [pc |-> "loaded", press |-> e, initial |-> count]
  <2>1. e \in GoodEvent
    BY PressesGood
  <2>2. q \in GoodDesk
    BY <1>t, <2>1 DEF GoodDesk
  <2>3. desk' = [desk EXCEPT ![d] = q]
    BY <1>1 DEF PressBegin
  <2> HIDE DEF q
  <2>4. desk' \in [Desk -> GoodDesk \cup {IdleDesk}]
    BY <1>t, <2>2, <2>3
  <2>5. limits
    BY <1>1, <1>t DEF PressBegin, UpsetIf
  <2>6. QED
    BY <1>1, <1>t, <2>4, <2>5 DEF PressBegin, UNCHANGEDbyDesk, ActionInv
<1>2. ASSUME NEW d \in Desk, PressStore(d) PROVE ActionInv'
  <2> DEFINE q == [desk[d] EXCEPT !.pc = "stored"]
  <2>1. /\ desk[d].pc = "loaded" /\ SetActionState(desk[d].press, desk[d].initial)
        /\ desk' = [desk EXCEPT ![d] = IdleDesk] \/ desk' = [desk EXCEPT ![d] = q]
        /\ UNCHANGED <<row, count, queue, presses, upsets, onAir, buffer, applied>>
    BY <1>2 DEF PressStore, UNCHANGEDbyDesk
  <2>2. desk[d] \in GoodDesk /\ desk[d].press \in GoodEvent /\ desk[d].initial \in Counts
    BY <2>1, DeskTypes
  <2>3. q \in GoodDesk
    BY <2>2 DEF GoodDesk
  <2> HIDE DEF q
  <2>4. desk' \in [Desk -> GoodDesk \cup {IdleDesk}]
    BY <1>t, <2>1, <2>3
  <2>5. /\ hot' \in [Fan -> [Kind -> GoodChoice]] /\ shard' \in [Fan -> [Kind -> Int]]
        /\ base' \in Counts \cup {NoBase}
    BY <2>1, <2>2, HotMoves
  <2>6. QED
    BY <1>t, <2>1, <2>4, <2>5 DEF ActionInv
<1>3. ASSUME NEW d \in Desk, PressPublish(d) PROVE ActionInv'
  <2>1. /\ desk[d].pc = "stored" /\ queue' = Append(queue, desk[d].press) /\ DeskIdle(d)
        /\ UNCHANGED <<row, count, hot, base, shard, presses, upsets, onAir, buffer, applied>>
    BY <1>3 DEF PressPublish, UNCHANGEDbyDesk
  <2>2. queue' \in Seq(GoodEvent)
    BY <1>t, <2>1, DeskTypes, MovedEvents
  <2>3. desk' \in [Desk -> GoodDesk \cup {IdleDesk}]
    BY <1>a, <2>1
  <2>4. QED
    BY <1>t, <2>1, <2>2, <2>3 DEF ActionInv
<1>4. ASSUME NEW d \in Desk, NEW enqueued \in BOOLEAN, PressUnconfirmed(d, enqueued)
      PROVE  ActionInv'
  <2> DEFINE q == [desk[d] EXCEPT !.pc = "sync"]
  <2>1. /\ desk[d].pc = "stored"
        /\ queue' = Append(queue, desk[d].press) \/ queue' = queue
        /\ desk' = [desk EXCEPT ![d] = q]
        /\ UNCHANGED <<row, count, hot, base, shard, presses, onAir, buffer, applied>>
    BY <1>4 DEF PressUnconfirmed, UNCHANGEDbyDesk
  <2>2. desk[d] \in GoodDesk /\ desk[d].press \in GoodEvent
    BY <2>1, DeskTypes
  <2>3. q \in GoodDesk
    BY <2>2 DEF GoodDesk
  <2> HIDE DEF q
  <2>4. desk' \in [Desk -> GoodDesk \cup {IdleDesk}]
    BY <1>t, <2>1, <2>3
  <2>5. queue' \in Seq(GoodEvent)
    BY <1>t, <2>1, <2>2, MovedEvents
  <2>6. upsets' \in 0..MaxUpset
    BY <1>4, <1>t DEF PressUnconfirmed, UpsetIf
  <2>7. QED
    BY <1>t, <2>1, <2>4, <2>5, <2>6 DEF ActionInv
<1>5. ASSUME NEW d \in Desk, PressSync(d) PROVE ActionInv'
  <2>1. /\ desk[d].pc = "sync" /\ SetAction(desk[d].press) /\ DeskIdle(d)
        /\ UNCHANGED <<hot, base, shard, queue, presses, upsets, onAir, buffer, applied>>
    BY <1>5 DEF PressSync, UNCHANGEDbyDesk
  <2>2. desk[d].press \in GoodEvent
    BY <2>1, DeskTypes
  <2>3. row' \in [Fan -> [Kind -> GoodChoice]] /\ count' \in Counts
    BY <2>1, <2>2, RowMoves
  <2>4. desk' \in [Desk -> GoodDesk \cup {IdleDesk}]
    BY <1>a, <2>1
  <2>5. QED
    BY <1>t, <2>1, <2>3, <2>4 DEF ActionInv
<1>6. ASSUME NEW d \in Desk, PressFails(d) PROVE ActionInv'
  <2>1. /\ DeskIdle(d) /\ UpsetIf(desk[d].pc # "loaded")
        /\ UNCHANGED <<row, count, hot, base, shard, queue, presses, onAir, buffer, applied>>
    BY <1>6 DEF PressFails, UNCHANGEDbyDesk
  <2>2. upsets' \in 0..MaxUpset
    BY <1>t, <2>1 DEF UpsetIf
  <2>3. desk' \in [Desk -> GoodDesk \cup {IdleDesk}]
    BY <1>a, <2>1
  <2>4. QED
    BY <1>t, <2>1, <2>2, <2>3 DEF ActionInv
<1>7. CASE Deliver
  <2>1. /\ queue # <<>> /\ buffer' = Append(buffer, Head(queue)) /\ queue' = Tail(queue)
        /\ UNCHANGED <<row, count, applied, upsets, onAir, hot, base, shard, desk, presses>>
    BY <1>7 DEF Deliver, UNCHANGEDbyWorker
  <2>2. queue' \in Seq(GoodEvent) /\ buffer' \in Seq(GoodEvent) /\ buffer' # <<>>
    BY <1>t, <2>1, MovedEvents
  <2>3. QED
    BY <1>t, <2>1, <2>2 DEF ActionInv
<1>8. CASE ApplyAction
  <2>1. /\ buffer # <<>> /\ SetAction(Head(buffer)) /\ applied' = TRUE
        /\ UNCHANGED <<queue, buffer, upsets, onAir, hot, base, shard, desk, presses>>
    BY <1>8 DEF ApplyAction, UNCHANGEDbyWorker
  <2>2. Head(buffer) \in GoodEvent
    BY <1>t, <2>1, MovedEvents
  <2>3. row' \in [Fan -> [Kind -> GoodChoice]] /\ count' \in Counts
    BY <2>1, <2>2, RowMoves
  <2>4. QED
    BY <1>t, <2>1, <2>3 DEF ActionInv
<1>9. CASE AckAction \/ NackAction \/ WorkerDies
  <2>1. UNCHANGED <<row, count, onAir, hot, base, shard, desk, presses>>
    BY <1>9 DEF AckAction, NackAction, WorkerDies, UNCHANGEDbyWorker
  <2>2. upsets' \in 0..MaxUpset
    BY <1>9, <1>t DEF AckAction, NackAction, WorkerDies, UpsetIf
  <2>3. applied' = FALSE
    <3>1. CASE NackAction
      <4>1. ~applied /\ UNCHANGED applied /\ applied \in BOOLEAN
        BY <1>t, <3>1 DEF NackAction
      <4>2. QED
        BY <4>1
    <3>2. CASE AckAction \/ WorkerDies
      BY <3>2 DEF AckAction, WorkerDies
    <3>3. QED
      BY <1>9, <3>1, <3>2
  <2>4. queue' \in Seq(GoodEvent) /\ buffer' \in Seq(GoodEvent)
    <3>1. CASE AckAction
      BY <1>t, <3>1, MovedEvents DEF AckAction
    <3>2. CASE NackAction
      BY <1>t, <3>2, MovedEvents DEF NackAction
    <3>3. CASE WorkerDies
      BY <1>t, <3>3, MovedEvents, EmptySeq DEF WorkerDies
    <3>4. QED
      BY <1>9, <3>1, <3>2, <3>3
  <2>5. QED
    BY <1>t, <2>1, <2>2, <2>3, <2>4 DEF ActionInv
<1>10. ASSUME NEW u \in Fan, NEW k \in Kind, ForgetChoice(u, k) PROVE ActionInv'
  <2>1. NoChoice \in GoodChoice
    BY DEF NoChoice, NoKey, GoodChoice, ChoiceState, Key
  <2>2. hot' = [hot EXCEPT ![u][k] = NoChoice] /\ UpsetIf(TRUE)
        /\ UNCHANGED <<row, count, onAir, base, shard, queue, buffer, applied, desk, presses>>
    BY <1>10 DEF ForgetChoice
  <2>3. hot' \in [Fan -> [Kind -> GoodChoice]]
    BY <1>t, <2>1, <2>2, ChoiceReplaced
  <2>4. upsets' \in 0..MaxUpset
    BY <1>t, <2>2 DEF UpsetIf
  <2>5. QED
    BY <1>t, <2>2, <2>3, <2>4 DEF ActionInv
<1>11. ASSUME NEW u \in Fan, ForgetShard(u) PROVE ActionInv'
  <2>1. shard' = [shard EXCEPT ![u] = [k \in Kind |-> 0]] /\ UpsetIf(TRUE)
        /\ UNCHANGED <<row, count, onAir, hot, base, queue, buffer, applied, desk, presses>>
    BY <1>11 DEF ForgetShard
  <2>2. shard' \in [Fan -> [Kind -> Int]] /\ upsets' \in 0..MaxUpset
    BY <1>t, <2>1 DEF UpsetIf
  <2>3. QED
    BY <1>t, <2>1, <2>2 DEF ActionInv
<1>12. CASE ForgetBase
  <2>1. base' = NoBase /\ UpsetIf(TRUE)
        /\ UNCHANGED <<row, count, onAir, hot, shard, queue, buffer, applied, desk, presses>>
    BY <1>12 DEF ForgetBase
  <2>2. upsets' \in 0..MaxUpset
    BY <1>t, <2>1 DEF UpsetIf
  <2>3. QED
    BY <1>t, <2>1, <2>2 DEF ActionInv
<1>13. CASE Moderate
  <2>1. onAir' \in BOOLEAN
    BY <1>13 DEF Moderate
  <2>2. QED
    BY <1>13, <1>t, <2>1 DEF Moderate, ActionInv
<1>14. CASE UNCHANGED actionVars
  BY <1>14, <1>t DEF actionVars, ActionInv
<1>15. QED
  BY ActionCases, <1>1, <1>2, <1>3, <1>4, <1>5, <1>6, <1>7, <1>8, <1>9, <1>10, <1>11, <1>12,
     <1>13, <1>14

\* Rows, counters, the state in Redis, the deliveries and the requests are well
\* typed in every reachable state, and only a held delivery is ever committed.
THEOREM ActionsTyped == ActionSpec => []ActionTypeOK
<1>1. ActionSpec => []ActionInv
  BY ActionInvInit, ActionInvNext, PTL DEF ActionSpec
<1>2. ActionInv => ActionTypeOK
  <2>1. GoodEvent \subseteq Event /\ GoodChoice \subseteq ChoiceState
    BY DEF GoodEvent, GoodChoice
  <2>2. GoodDesk \subseteq DeskState
    BY <2>1 DEF GoodDesk, DeskState
  <2>3. \A s \in Seq(GoodEvent) : s \in Seq(Event)
    BY <2>1, SeqDef
  <2> SUFFICES ASSUME ActionInv PROVE ActionTypeOK
    OBVIOUS
  <2>4. row \in [Fan -> [Kind -> ChoiceState]] /\ hot \in [Fan -> [Kind -> ChoiceState]]
    BY <2>1 DEF ActionInv
  <2>5. desk \in [Desk -> DeskState \cup {IdleDesk}]
    BY <2>2 DEF ActionInv
  <2>6. queue \in Seq(Event) /\ buffer \in Seq(Event)
    BY <2>3 DEF ActionInv
  <2>7. QED
    BY <2>4, <2>5, <2>6 DEF ActionInv, ActionTypeOK
<1>3. QED
  BY <1>1, <1>2, PTL

-----------------------------------------------------------------------------
\* Only SetAction touches the rows and the counters.
LEMMA RowsQuiet ==
    ASSUME ActionInv, [ActionNext]_actionVars
    PROVE  (\E e \in GoodEvent : SetAction(e)) \/ UNCHANGED <<row, count>>
<1>1. ASSUME NEW d \in Desk, PressSync(d) PROVE \E e \in GoodEvent : SetAction(e)
  <2>1. desk[d].pc = "sync" /\ SetAction(desk[d].press)
    BY <1>1 DEF PressSync
  <2>2. desk[d].press \in GoodEvent
    BY <2>1, DeskTypes
  <2>3. QED
    BY <2>1, <2>2
<1>2. CASE ApplyAction
  <2>1. buffer # <<>> /\ SetAction(Head(buffer)) /\ buffer \in Seq(GoodEvent)
    BY <1>2 DEF ApplyAction, ActionInv
  <2>2. Head(buffer) \in GoodEvent
    BY <2>1, MovedEvents
  <2>3. QED
    BY <2>1, <2>2
<1>3. ASSUME NEW d \in Desk, PressStore(d) \/ PressPublish(d) \/ PressFails(d)
             \/ (\E e \in Presses : PressBegin(d, e))
             \/ (\E enqueued \in BOOLEAN : PressUnconfirmed(d, enqueued))
      PROVE  UNCHANGED <<row, count>>
  BY <1>3 DEF PressStore, PressPublish, PressFails, PressBegin, PressUnconfirmed
<1>4. CASE Deliver \/ AckAction \/ NackAction \/ WorkerDies \/ ForgetBase \/ Moderate
           \/ (\E u \in Fan : ForgetShard(u))
           \/ (\E u \in Fan, k \in Kind : ForgetChoice(u, k))
  BY <1>4 DEF Deliver, AckAction, NackAction, WorkerDies, ForgetBase, Moderate, ForgetShard,
              ForgetChoice
<1>5. CASE UNCHANGED actionVars
  BY <1>5 DEF actionVars
<1>6. QED
  BY ActionCases, <1>1, <1>2, <1>3, <1>4, <1>5

\* A row and its counter move together, or neither does.
LEMMA FansStep ==
    ASSUME ActionInv, FansInv, [ActionNext]_actionVars
    PROVE  FansInv' /\ (Counter!TallyNext \/ UNCHANGED <<ActiveFans, count>>)
<1> DEFINE fans(k) == {u \in Fan : row[u][k].status = "active"}
<1>f. \A k \in Kind : IsFiniteSet(fans(k)) /\ ActiveFans[k] = fans(k)
  <2>1. IsFiniteSet(Fan)
    BY ActionConstants
  <2>2. QED
    BY <2>1, FS_Subset DEF ActiveFans
<1>t. count \in Counts /\ row \in [Fan -> [Kind -> GoodChoice]]
  BY DEF ActionInv
<1>1. CASE UNCHANGED <<row, count>>
  BY <1>1 DEF FansInv, ActiveFans
<1>2. ASSUME NEW e \in GoodEvent, SetAction(e)
      PROVE  FansInv' /\ (Counter!TallyNext \/ UNCHANGED <<ActiveFans, count>>)
  <2> DEFINE u == e.user
             k == e.kind
             new == StatusOf(e.active)
             old == row[u][k].status
             delta == IF new = "active" THEN (IF old = "active" THEN 0 ELSE 1)
                      ELSE (IF old = "active" THEN -1 ELSE 0)
  <2>1. u \in Fan /\ k \in Kind
    BY EventTypes
  <2>2. /\ \A v \in Fan, l \in Kind : row'[v][l].status =
              IF About(e, v, l) THEN new ELSE row[v][l].status
        /\ count' = [count EXCEPT ![k] = Clamp(@ + delta)]
    BY <1>2, RowMoves
  <2> HIDE DEF new, old
  <2>3. /\ \A l \in Kind \ {k} : fans(l)' = fans(l)
        /\ fans(k)' = IF new = "active" THEN fans(k) \cup {u} ELSE fans(k) \ {u}
        /\ u \in fans(k) <=> old = "active"
    BY <2>1, <2>2 DEF About, old
  <2>4. \A l \in Kind : ActiveFans'[l] = fans(l)'
    BY DEF ActiveFans
  <2>5. ActiveFans = [l \in Kind |-> fans(l)] /\ ActiveFans' = [l \in Kind |-> fans(l)']
    BY DEF ActiveFans
  <2>6. count[k] = Cardinality(fans(k)) /\ count[k] \in Nat
    BY <1>f, <1>t, <2>1 DEF FansInv, Counts
  <2>7. CASE fans(k)' = fans(k) /\ delta = 0
    <3>1. count' = count
      BY <1>t, <2>1, <2>2, <2>6, <2>7 DEF Clamp, Counts
    <3> HIDE DEF delta, fans
    <3>2. ActiveFans' = ActiveFans
      BY <2>3, <2>5, <2>7
    <3>3. QED
      BY <3>1, <3>2 DEF FansInv
  <2>8. CASE new = "active" /\ old # "active"
    <3>1. u \notin fans(k) /\ fans(k)' = fans(k) \cup {u} /\ delta = 1
      BY <2>3, <2>8
    <3>2. count' = [count EXCEPT ![k] = @ + 1]
      <4> HIDE DEF delta, fans, u, k
      <4>1. Clamp(count[k] + delta) = count[k] + 1
        BY <2>6, <3>1 DEF Clamp
      <4>2. QED
        BY <2>2, <4>1
    <3> HIDE DEF delta, fans, u, k
    <3>3. Cardinality(fans(k)') = count[k] + 1
      BY <1>f, <2>1, <2>6, <3>1, OneMore
    <3>4. \A l \in Kind : count'[l] = Cardinality(ActiveFans'[l])
      BY <1>f, <1>t, <2>1, <2>3, <2>4, <3>2, <3>3 DEF FansInv, Counts
    <3>5. ActiveFans' = [ActiveFans EXCEPT ![k] = @ \cup {u}]
      BY <2>1, <2>3, <2>5, <3>1
    <3>6. count' # count
      BY <1>t, <2>1, <2>6, <3>2 DEF Counts
    <3>7. Counter!Join(k, u)
      BY <1>f, <2>1, <3>1, <3>2, <3>5 DEF Counter!Join
    <3>8. QED
      BY <2>1, <3>4, <3>6, <3>7 DEF FansInv, Counter!TallyNext
  <2>9. CASE new # "active" /\ old = "active"
    <3>1. u \in fans(k) /\ fans(k)' = fans(k) \ {u} /\ delta = -1
      BY <2>3, <2>9
    <3>2. Cardinality(fans(k)') = count[k] - 1 /\ count[k] \in Nat \ {0}
      <4> HIDE DEF delta, fans, u, k
      <4>1. QED
        BY <1>f, <2>1, <2>6, <3>1, OneLess
    <3>3. count' = [count EXCEPT ![k] = @ - 1]
      <4> HIDE DEF delta, fans, u, k
      <4>1. Clamp(count[k] + delta) = count[k] - 1
        BY <3>1, <3>2 DEF Clamp
      <4>2. QED
        BY <2>2, <4>1
    <3> HIDE DEF delta, fans, u, k
    <3>4. \A l \in Kind : count'[l] = Cardinality(ActiveFans'[l])
      BY <1>f, <1>t, <2>1, <2>3, <2>4, <3>2, <3>3 DEF FansInv, Counts
    <3>5. ActiveFans' = [ActiveFans EXCEPT ![k] = @ \ {u}]
      BY <2>1, <2>3, <2>5, <3>1
    <3>6. count' # count
      BY <1>t, <2>1, <2>6, <3>3 DEF Counts
    <3>7. Counter!Leave(k, u)
      BY <1>f, <2>1, <3>1, <3>3, <3>5 DEF Counter!Leave
    <3>8. QED
      BY <2>1, <3>4, <3>6, <3>7 DEF FansInv, Counter!TallyNext
  <2>10. QED
    <3>1. CASE new = "active" /\ old = "active"
      BY <2>3, <2>7, <3>1
    <3>2. CASE new # "active" /\ old # "active"
      BY <2>3, <2>7, <3>2
    <3>3. QED
      BY <2>8, <2>9, <3>1, <3>2
<1>3. QED
  BY RowsQuiet, <1>1, <1>2

\* No row, no count.
LEMMA FansInit == ActionInit => FansInv /\ Counter!TallyInit
<1> SUFFICES ASSUME ActionInit PROVE FansInv /\ Counter!TallyInit
  OBVIOUS
<1>1. \A k \in Kind : ActiveFans[k] = {}
  BY DEF ActionInit, ActiveFans, NoChoice
<1>2. ActiveFans = [k \in Kind |-> {}] /\ count = [k \in Kind |-> 0]
  BY <1>1 DEF ActiveFans, ActionInit
<1>3. QED
  BY <1>1, <1>2, FS_EmptySet DEF FansInv, Counter!TallyInit

\* Whatever is lost, repeated, overtaken or retried on the way to MySQL, the rows
\* and the counters of video_stat implement a tally.
THEOREM ActionsTallied == ActionSpec => ActionTally
<1>1. ActionInv /\ FansInv /\ [ActionNext]_actionVars
        => FansInv' /\ [Counter!TallyNext]_<<ActiveFans, count>>
  BY FansStep
<1>2. QED
  BY <1>1, FansInit, ActionInvInit, ActionInvNext, PTL
     DEF ActionSpec, ActionTally, Counter!TallySpec

-----------------------------------------------------------------------------
\* A sum of zeros and ones is a number of ones.
LEMMA SumOfOnes ==
    ASSUME NEW S, IsFiniteSet(S), NEW g \in [S -> {0, 1}]
    PROVE  FoldFunction(+, 0, g) = Cardinality({x \in S : g[x] = 1})
<1> DEFINE one(s) == CHOOSE x \in s : TRUE
           ones(s) == {x \in s : g[x] = 1}
           body(F) == [s \in SUBSET S |-> IF s = {} THEN 0 ELSE g[one(s)] + F[s \ {one(s)}]]
           W == [s \in SUBSET S |-> Cardinality(ones(s))]
<1>1. FoldFunction(+, 0, g) = (CHOOSE F : F = body(F))[S]
  BY DEF FoldFunction, FoldFunctionOnSet, MapThenFoldSet
<1>f. ASSUME NEW s \in SUBSET S PROVE IsFiniteSet(s) /\ IsFiniteSet(ones(s))
  BY FS_Subset
<1>2. ones({}) = {} /\ Cardinality({}) = 0
  BY FS_EmptySet
<1>3. ASSUME NEW s \in SUBSET S, s # {}
      PROVE  /\ one(s) \in s
             /\ Cardinality(ones(s)) = g[one(s)] + Cardinality(ones(s \ {one(s)}))
  <2>1. one(s) \in s
    BY <1>3
  <2> HIDE DEF one
  <2>2. IsFiniteSet(ones(s)) /\ Cardinality(ones(s)) \in Nat
    BY <1>f, FS_CardinalityType
  <2>3. CASE g[one(s)] = 1
    <3>1. one(s) \in ones(s) /\ ones(s \ {one(s)}) = ones(s) \ {one(s)}
      BY <2>1, <2>3
    <3> HIDE DEF ones
    <3>2. Cardinality(ones(s) \ {one(s)}) = Cardinality(ones(s)) - 1
      BY <2>2, <3>1, OneLess
    <3>3. Cardinality(ones(s \ {one(s)})) = Cardinality(ones(s)) - 1
      BY <3>1, <3>2
    <3>4. Cardinality(ones(s)) = 1 + Cardinality(ones(s \ {one(s)}))
      BY <2>2, <3>3
    <3>5. QED
      BY <2>1, <2>3, <3>4
  <2>4. CASE g[one(s)] = 0
    <3>1. ones(s \ {one(s)}) = ones(s)
      BY <2>4
    <3> HIDE DEF ones
    <3>2. QED
      BY <2>1, <2>2, <2>4, <3>1
  <2>5. QED
    BY <1>3, <2>1, <2>3, <2>4
<1> HIDE DEF ones
<1>4. W = body(W)
  <2>1. ASSUME NEW s \in SUBSET S
        PROVE  W[s] = IF s = {} THEN 0 ELSE g[one(s)] + W[s \ {one(s)}]
    <3>1. CASE s = {}
      BY <1>2, <3>1
    <3>2. CASE s # {}
      <4>1. s \ {one(s)} \in SUBSET S
        OBVIOUS
      <4> HIDE DEF one
      <4>2. QED
        BY <1>3, <3>2, <4>1
    <3>3. QED
      BY <3>1, <3>2
  <2> DEFINE V == W
  <2>2. V = [s \in SUBSET S |-> V[s]]
    OBVIOUS
  <2> HIDE DEF W, one
  <2>3. QED
    BY <2>1, <2>2 DEF V
<1> DEFINE G == CHOOSE F : F = body(F)
<1>5. G = body(G)
  <2> HIDE DEF W, body
  <2>1. QED
    BY <1>4
<1>6. \A s \in SUBSET S : G[s] = IF s = {} THEN 0 ELSE g[one(s)] + G[s \ {one(s)}]
  <2> HIDE DEF G, one
  <2>1. QED
    BY <1>5
<1> HIDE DEF G, W, body, one
<1>7. ASSUME NEW s0 \in SUBSET S, G[s0] # Cardinality(ones(s0)) PROVE FALSE
  <2> DEFINE Bad == {s \in SUBSET S : G[s] # Cardinality(ones(s))}
             T == {Cardinality(s) : s \in Bad}
  <2>1. T \subseteq Nat /\ T # {}
    <3>1. \A s \in Bad : Cardinality(s) \in Nat
      BY <1>f, FS_CardinalityType
    <3>2. s0 \in Bad
      BY <1>7
    <3> HIDE DEF Bad
    <3>3. QED
      BY <3>1, <3>2
  <2> HIDE DEF T
  <2>2. PICK n \in T : \A y \in T : n <= y
    BY <2>1, SmallestExists
  <2>3. PICK s \in Bad : n = Cardinality(s)
    BY <2>2 DEF T
  <2>4. s \in SUBSET S /\ G[s] # Cardinality(ones(s))
    BY <2>3
  <2>5. s # {}
    BY <1>2, <1>6, <2>4
  <2> DEFINE r == s \ {one(s)}
  <2>6. r \in SUBSET S /\ one(s) \in s /\ Cardinality(ones(s)) = g[one(s)] + Cardinality(ones(r))
        /\ G[s] = g[one(s)] + G[r]
    BY <1>3, <1>6, <2>4, <2>5
  <2>7. Cardinality(r) = Cardinality(s) - 1 /\ Cardinality(s) \in Nat \ {0}
    BY <1>f, <2>4, <2>6, OneLess
  <2> HIDE DEF r
  <2>8. r \in Bad
    BY <2>4, <2>6
  <2> HIDE DEF Bad
  <2>9. Cardinality(r) \in T
    BY <2>8 DEF T
  <2>10. QED
    BY <2>2, <2>3, <2>7, <2>9
<1>8. FoldFunction(+, 0, g) = G[S]
  BY <1>1 DEF G
<1>9. QED
  BY <1>7, <1>8 DEF ones

-----------------------------------------------------------------------------
\* A sequence is its first element and the rest.
LEMMA ConcatHeadTail ==
    ASSUME NEW s \in Seq(GoodEvent), s # <<>>
    PROVE  s = <<Head(s)>> \o Tail(s)
<1> DEFINE h == <<Head(s)>>
           t == Tail(s)
<1>1. /\ h \in Seq(GoodEvent) /\ Len(h) = 1 /\ h[1] = s[1]
      /\ t \in Seq(GoodEvent) /\ Len(t) = Len(s) - 1 /\ Len(s) \in Nat \ {0}
      /\ \A i \in 1..Len(t) : t[i] = s[i + 1]
  <2>1. Head(s) \in GoodEvent /\ Head(s) = s[1]
    BY MovedEvents
  <2>2. h \in Seq(GoodEvent) /\ Len(h) = 1 /\ h[1] = s[1]
    BY <2>1
  <2>3. /\ t \in Seq(GoodEvent) /\ Len(t) = Len(s) - 1
        /\ \A i \in 1..Len(t) : t[i] = s[i + 1]
    BY HeadTailProperties
  <2>4. Len(s) \in Nat \ {0}
    BY EmptySeq
  <2>5. QED
    BY <2>2, <2>3, <2>4
<1> HIDE DEF h, t
<1>2. /\ h \o t \in Seq(GoodEvent) /\ Len(h \o t) = Len(s)
      /\ \A i \in 1..Len(s) : (h \o t)[i] = IF i <= 1 THEN h[i] ELSE t[i - 1]
  <2>1. /\ h \o t \in Seq(GoodEvent) /\ Len(h \o t) = Len(h) + Len(t)
        /\ \A i \in 1..Len(h) + Len(t) : (h \o t)[i] = IF i <= Len(h) THEN h[i] ELSE t[i - Len(h)]
    BY <1>1, ConcatProperties
  <2>2. Len(h) + Len(t) = Len(s) /\ Len(h) = 1
    BY <1>1
  <2>3. QED
    BY <2>1, <2>2
<1>3. ASSUME NEW i \in 1..Len(s) PROVE s[i] = (h \o t)[i]
  <2>1. CASE i = 1
    BY <1>1, <1>2, <2>1
  <2>2. CASE i # 1
    <3>1. i - 1 \in 1..Len(t) /\ (i - 1) + 1 = i /\ ~(i <= 1)
      BY <1>1, <2>2
    <3>2. QED
      BY <1>1, <1>2, <3>1
  <2>3. QED
    BY <2>1, <2>2
<1>4. s = h \o t
  BY <1>1, <1>2, <1>3, SeqEqual
<1>5. QED
  BY <1>4 DEF h, t

\* The path that the worker's buffer and the queue make.
LEMMA PathTypes ==
    ASSUME ActionInv
    PROVE  /\ Path \in Seq(GoodEvent) /\ Len(Path) \in Nat
           /\ Len(Path) = Len(buffer) + Len(queue)
           /\ Len(buffer) \in Nat /\ Len(queue) \in Nat
           /\ \A i \in 1..Len(Path) : Path[i] \in GoodEvent
           /\ \A i \in 1..Len(buffer) : i \in 1..Len(Path) /\ Path[i] = buffer[i]
           /\ \A i \in 1..Len(queue) :
                 Len(buffer) + i \in 1..Len(Path) /\ Path[Len(buffer) + i] = queue[i]
           /\ applied => Len(buffer) > 0
<1>1. buffer \in Seq(GoodEvent) /\ queue \in Seq(GoodEvent) /\ (applied => buffer # <<>>)
  BY DEF ActionInv
<1>2. /\ Len(buffer) \in Nat /\ Len(queue) \in Nat
      /\ applied => Len(buffer) > 0
  BY <1>1, MovedEvents
<1>3. /\ Path \in Seq(GoodEvent) /\ Len(Path) = Len(buffer) + Len(queue)
      /\ \A i \in 1..Len(buffer) + Len(queue) :
            Path[i] = IF i <= Len(buffer) THEN buffer[i] ELSE queue[i - Len(buffer)]
  BY <1>1, ConcatProperties DEF Path
<1>4. \A i \in 1..Len(Path) : Path[i] \in GoodEvent
  BY <1>3, MovedEvents
<1>5. \A i \in 1..Len(buffer) : i \in 1..Len(Path) /\ Path[i] = buffer[i]
  BY <1>2, <1>3
<1>6. \A i \in 1..Len(queue) :
         Len(buffer) + i \in 1..Len(Path) /\ Path[Len(buffer) + i] = queue[i]
  <2> SUFFICES ASSUME NEW i \in 1..Len(queue)
               PROVE  Len(buffer) + i \in 1..Len(Path) /\ Path[Len(buffer) + i] = queue[i]
    OBVIOUS
  <2>1. /\ Len(buffer) + i \in 1..Len(buffer) + Len(queue) /\ ~(Len(buffer) + i <= Len(buffer))
        /\ (Len(buffer) + i) - Len(buffer) = i
    BY <1>2
  <2>2. QED
    BY <1>3, <2>1
<1>7. QED
  BY <1>2, <1>3, <1>4, <1>5, <1>6

\* A published event is the last of the path.
LEMMA PathGrows ==
    ASSUME ActionInv, NEW e \in GoodEvent, queue' = Append(queue, e), UNCHANGED buffer
    PROVE  /\ Len(Path') = Len(Path) + 1 /\ Path'[Len(Path) + 1] = e
           /\ \A i \in 1..Len(Path) : Path'[i] = Path[i]
<1>1. buffer \in Seq(GoodEvent) /\ queue \in Seq(GoodEvent) /\ <<e>> \in Seq(GoodEvent)
  BY DEF ActionInv
<1>2. queue' = queue \o <<e>>
  BY <1>1, AppendIsConcat
<1>3. Path' = Path \o <<e>>
  BY <1>1, <1>2, ConcatAssociative DEF Path
<1>4. Path \in Seq(GoodEvent) /\ Len(Path) \in Nat
  BY PathTypes
<1>5. Path \o <<e>> = Append(Path, e)
  BY <1>4, AppendIsConcat
<1>6. QED
  BY <1>3, <1>4, <1>5, AppendProperties

\* A delivery, and a worker's death, leave the path as it is.
LEMMA PathStays ==
    ASSUME ActionInv, Deliver \/ WorkerDies
    PROVE  Path' = Path
<1>1. buffer \in Seq(GoodEvent) /\ queue \in Seq(GoodEvent) /\ Path \in Seq(GoodEvent)
  BY PathTypes DEF ActionInv
<1>2. CASE WorkerDies
  <2>1. Path' = <<>> \o Path
    BY <1>2 DEF WorkerDies, Path
  <2>2. QED
    BY <1>1, <2>1, ConcatEmptySeq
<1>3. CASE Deliver
  <2> DEFINE h == Head(queue)
             t == Tail(queue)
  <2>1. queue # <<>> /\ buffer' = Append(buffer, h) /\ queue' = t
    BY <1>3 DEF Deliver
  <2>2. h \in GoodEvent /\ t \in Seq(GoodEvent) /\ queue = <<h>> \o t
    BY <1>1, <2>1, HeadTailProperties, ConcatHeadTail
  <2> HIDE DEF h, t
  <2>3. <<h>> \in Seq(GoodEvent) /\ buffer' = buffer \o <<h>>
    BY <1>1, <2>1, <2>2, AppendIsConcat
  <2>4. (buffer \o <<h>>) \o t = buffer \o (<<h>> \o t)
    BY <1>1, <2>2, <2>3, ConcatAssociative
  <2>5. QED
    BY <2>1, <2>2, <2>3, <2>4 DEF Path
<1>4. QED
  BY <1>2, <1>3

\* A settled delivery is the first of the path.
LEMMA PathShrinks ==
    ASSUME ActionInv, AckAction
    PROVE  /\ Len(Path) > 0 /\ Len(Path') = Len(Path) - 1
           /\ \A i \in 1..Len(Path') : Path'[i] = Path[i + 1]
<1>1. buffer \in Seq(GoodEvent) /\ queue \in Seq(GoodEvent) /\ buffer # <<>>
      /\ buffer' = Tail(buffer) /\ UNCHANGED queue
  BY DEF ActionInv, AckAction
<1> DEFINE h == Head(buffer)
           t == Tail(buffer)
<1>2. h \in GoodEvent /\ t \in Seq(GoodEvent) /\ buffer = <<h>> \o t
  BY <1>1, HeadTailProperties, ConcatHeadTail
<1> HIDE DEF h
<1>3. <<h>> \in Seq(GoodEvent) /\ Len(<<h>>) = 1
  BY <1>2
<1>4. Path' = t \o queue /\ t \o queue \in Seq(GoodEvent)
  BY <1>1, <1>2, ConcatProperties DEF Path
<1> HIDE DEF t
<1>5. Path = <<h>> \o Path'
  BY <1>1, <1>2, <1>3, <1>4, ConcatAssociative DEF Path
<1> DEFINE p == Path'
<1>6. p \in Seq(GoodEvent) /\ Len(p) \in Nat
  BY <1>4, LenProperties
<1> HIDE DEF p
<1>7. /\ Len(<<h>> \o p) = 1 + Len(p)
      /\ \A i \in 1..1 + Len(p) : (<<h>> \o p)[i] = IF i <= 1 THEN <<h>>[i] ELSE p[i - 1]
  BY <1>3, <1>6, ConcatProperties
<1>8. Len(Path) = 1 + Len(p)
  BY <1>5, <1>7 DEF p
<1>9. ASSUME NEW i \in 1..Len(p) PROVE p[i] = Path[i + 1]
  <2>1. i + 1 \in 1..1 + Len(p) /\ ~(i + 1 <= 1) /\ (i + 1) - 1 = i
    BY <1>6
  <2>2. (<<h>> \o p)[i + 1] = p[i]
    BY <1>7, <2>1
  <2>3. QED
    BY <1>5, <2>2 DEF p
<1>10. QED
  BY <1>6, <1>8, <1>9 DEF p

-----------------------------------------------------------------------------
\* One request moves; what the others are busy with and owe stays.
LEMMA DeskMoves ==
    ASSUME ActionInv, NEW d \in Desk, NEW q, desk' = [desk EXCEPT ![d] = q]
    PROVE  /\ desk'[d] = q
           /\ \A c \in Desk \ {d} : desk'[c] = desk[c]
           /\ \A c \in Desk \ {d}, u \in Fan, k \in Kind :
                 /\ BusyWith(c, u, k)' <=> BusyWith(c, u, k)
                 /\ Owed(c, u, k)' <=> Owed(c, u, k)
<1>1. desk \in [Desk -> GoodDesk \cup {IdleDesk}]
  BY DEF ActionInv
<1>2. desk'[d] = q /\ \A c \in Desk \ {d} : desk'[c] = desk[c]
  BY <1>1
<1>3. QED
  BY <1>2 DEF BusyWith, Owed, About

\* A request begins, alone with its choice.
LEMMA CalmBegin ==
    ASSUME ActionInv, CalmInv, NEW d \in Desk, NEW e \in Presses, PressBegin(d, e), upsets' = 0
    PROVE  CalmInv'
<1> DEFINE q == [pc |-> "loaded", press |-> e, initial |-> count]
<1>1. /\ desk[d].pc = "idle" /\ desk' = [desk EXCEPT ![d] = q]
      /\ UNCHANGED <<row, hot, queue, buffer, applied>>
  BY DEF PressBegin, UNCHANGEDbyDesk
<1>2. \A c \in Desk : ~BusyWith(c, e.user, e.kind)
  <2>1. upsets \in Nat
    BY ActionConstants DEF ActionInv
  <2>2. QED
    BY <2>1 DEF PressBegin, UpsetIf
<1>3. q.pc = "loaded" /\ q.press = e
  OBVIOUS
<1> HIDE DEF q
<1>4. /\ desk'[d] = q
      /\ \A c \in Desk \ {d} : desk'[c] = desk[c]
      /\ \A c \in Desk \ {d}, u \in Fan, k \in Kind :
            (BusyWith(c, u, k)' <=> BusyWith(c, u, k)) /\ (Owed(c, u, k)' <=> Owed(c, u, k))
  BY <1>1, DeskMoves
<1>5. \A u \in Fan, k \in Kind :
         ~Owed(d, u, k) /\ ~Owed(d, u, k)' /\ (BusyWith(d, u, k)' => u = e.user /\ k = e.kind)
  BY <1>1, <1>3, <1>4 DEF Owed, BusyWith
<1>6. \A d1 \in Desk : desk'[d1].pc # "sync"
  BY <1>3, <1>4 DEF CalmInv
<1>7. OneDesk'
  BY <1>2, <1>4, <1>5 DEF CalmInv, OneDesk
<1>8. Path' = Path
  BY <1>1 DEF Path
<1>9. OwedInv' /\ WordInv' /\ HeadInv'
  <2>1. OwedInv'
    BY <1>1, <1>4, <1>5 DEF CalmInv, OwedInv, Direction
  <2>2. \A u \in Fan, k \in Kind : (\A c \in Desk : ~Owed(c, u, k)') => \A c \in Desk : ~Owed(c, u, k)
    BY <1>4, <1>5
  <2>3. WordInv'
    BY <1>1, <1>8, <2>2 DEF CalmInv, WordInv, Direction
  <2>4. HeadInv'
    BY <1>1, <1>8 DEF CalmInv, HeadInv
  <2>5. QED
    BY <2>1, <2>3, <2>4
<1>10. QED
  BY <1>6, <1>7, <1>9 DEF CalmInv

\* A request that owes nothing ends, and Redis has what it had.
LEMMA CalmEnd ==
    ASSUME ActionInv, CalmInv, NEW d \in Desk, desk[d].pc = "loaded", DeskIdle(d),
           \A u \in Fan, k \in Kind : Direction(u, k)' <=> Direction(u, k),
           UNCHANGED <<row, queue, buffer, applied>>
    PROVE  CalmInv'
<1>1. desk' = [desk EXCEPT ![d] = IdleDesk] /\ IdleDesk.pc = "idle"
  BY DEF DeskIdle, IdleDesk
<1>2. /\ desk'[d] = IdleDesk
      /\ \A c \in Desk \ {d} : desk'[c] = desk[c]
      /\ \A c \in Desk \ {d}, u \in Fan, k \in Kind :
            (BusyWith(c, u, k)' <=> BusyWith(c, u, k)) /\ (Owed(c, u, k)' <=> Owed(c, u, k))
  BY <1>1, DeskMoves
<1>3. \A u \in Fan, k \in Kind : ~Owed(d, u, k) /\ ~Owed(d, u, k)' /\ ~BusyWith(d, u, k)'
  BY <1>1, <1>2 DEF Owed, BusyWith
<1>4. \A c \in Desk : desk'[c].pc # "sync"
  BY <1>1, <1>2 DEF CalmInv
<1>5. OneDesk'
  BY <1>2, <1>3 DEF CalmInv, OneDesk
<1>6. Path' = Path
  BY DEF Path
<1>7. OwedInv'
  BY <1>2, <1>3 DEF CalmInv, OwedInv
<1>8. \A u \in Fan, k \in Kind : (\A c \in Desk : ~Owed(c, u, k)') => \A c \in Desk : ~Owed(c, u, k)
  BY <1>2, <1>3
<1>9. WordInv'
  BY <1>6, <1>8 DEF CalmInv, WordInv
<1>10. HeadInv'
  BY <1>6 DEF CalmInv, HeadInv
<1>11. QED
  BY <1>4, <1>5, <1>7, <1>9, <1>10 DEF CalmInv

\* Redis takes a choice.  What changes it is owed to MySQL from this step on.
LEMMA CalmStore ==
    ASSUME ActionInv, CalmInv, NEW d \in Desk, PressStore(d)
    PROVE  CalmInv'
<1> DEFINE e == desk[d].press
           delta == StateDelta(hot[e.user][e.kind], e.active, e.key)
           q == [desk[d] EXCEPT !.pc = "stored"]
<1>1. /\ desk[d].pc = "loaded" /\ SetActionState(e, desk[d].initial)
      /\ delta = 0 => DeskIdle(d)
      /\ delta # 0 => desk' = [desk EXCEPT ![d] = q]
      /\ UNCHANGED <<row, queue, buffer, applied>>
  BY DEF PressStore, UNCHANGEDbyDesk, DeskIdle
<1>2. e \in GoodEvent /\ desk[d].initial \in Counts /\ desk[d] \in GoodDesk
  BY <1>1, DeskTypes
<1>3. q.pc = "stored" /\ q.press = e
  BY <1>2 DEF GoodDesk
<1>4. e.user \in Fan /\ e.kind \in Kind /\ e.active \in BOOLEAN
      /\ (StatusOf(e.active) = "active" <=> e.active)
  BY <1>2, EventTypes DEF StatusOf
<1> HIDE DEF e, q
<1>5. /\ \A u \in Fan, k \in Kind : hot'[u][k].status =
            IF About(e, u, k) THEN StatusOf(e.active) ELSE hot[u][k].status
      /\ delta = IF StatusOf(e.active) = "active"
                 THEN (IF hot[e.user][e.kind].status = "active" THEN 0 ELSE 1)
                 ELSE (IF hot[e.user][e.kind].status = "active" THEN -1 ELSE 0)
  BY <1>1, <1>2, HotMoves
<1> HIDE DEF delta
<1>6. \A u \in Fan, k \in Kind : ~About(e, u, k) => (Direction(u, k)' <=> Direction(u, k))
  BY <1>5 DEF Direction
<1>7. \A u \in Fan, k \in Kind : About(e, u, k) => (Direction(u, k)' <=> e.active)
  BY <1>4, <1>5 DEF Direction
<1>8. CASE delta = 0
  <2>1. hot[e.user][e.kind].status = "active" <=> e.active
    BY <1>4, <1>5, <1>8
  <2>2. \A u \in Fan, k \in Kind : About(e, u, k) => (Direction(u, k) <=> e.active)
    BY <2>1 DEF Direction, About
  <2>3. \A u \in Fan, k \in Kind : Direction(u, k)' <=> Direction(u, k)
    BY <1>6, <1>7, <2>2
  <2>4. QED
    BY <1>1, <1>8, <2>3, CalmEnd
<1>9. CASE delta # 0
  <2>1. /\ desk'[d] = q
        /\ \A c \in Desk \ {d} : desk'[c] = desk[c]
        /\ \A c \in Desk \ {d}, u \in Fan, k \in Kind :
              (BusyWith(c, u, k)' <=> BusyWith(c, u, k)) /\ (Owed(c, u, k)' <=> Owed(c, u, k))
    BY <1>1, <1>9, DeskMoves
  <2>2. \A u \in Fan, k \in Kind :
           /\ BusyWith(d, u, k)' <=> About(e, u, k)
           /\ BusyWith(d, u, k) <=> About(e, u, k)
           /\ Owed(d, u, k)' <=> About(e, u, k)
           /\ ~Owed(d, u, k)
    BY <1>1, <1>3, <2>1 DEF BusyWith, Owed, About, e
  <2>3. \A c \in Desk : desk'[c].pc # "sync"
    BY <1>3, <2>1 DEF CalmInv
  <2>4. OneDesk'
    BY <2>1, <2>2 DEF CalmInv, OneDesk
  <2>5. \A c \in Desk \ {d}, u \in Fan, k \in Kind : Owed(c, u, k) => ~About(e, u, k)
    <3>1. \A c \in Desk, u \in Fan, k \in Kind : Owed(c, u, k) => BusyWith(c, u, k)
      BY DEF Owed, BusyWith, About
    <3>2. QED
      BY <2>2, <3>1 DEF CalmInv, OneDesk
  <2>6. OwedInv'
    <3>1. ASSUME NEW c \in Desk, NEW u \in Fan, NEW k \in Kind, Owed(c, u, k)'
          PROVE  desk'[c].press.active <=> Direction(u, k)'
      <4>1. CASE c = d
        <5>1. About(e, u, k) /\ desk'[c].press = e
          BY <1>3, <2>1, <2>2, <3>1, <4>1
        <5>2. QED
          BY <1>7, <5>1
      <4>2. CASE c # d
        <5>1. Owed(c, u, k) /\ ~About(e, u, k) /\ desk'[c] = desk[c]
          BY <2>1, <2>5, <3>1, <4>2
        <5>2. QED
          BY <1>6, <5>1 DEF CalmInv, OwedInv
      <4>3. QED
        BY <4>1, <4>2
    <3>2. QED
      BY <3>1 DEF OwedInv
  <2>7. Path' = Path
    BY <1>1 DEF Path
  <2>8. ASSUME NEW u \in Fan, NEW k \in Kind, \A c \in Desk : ~Owed(c, u, k)'
        PROVE  (\A c \in Desk : ~Owed(c, u, k)) /\ (Direction(u, k)' <=> Direction(u, k))
    BY <1>6, <2>1, <2>2, <2>8
  <2>9. WordInv'
    BY <1>1, <2>7, <2>8 DEF CalmInv, WordInv
  <2>10. HeadInv'
    BY <1>1, <2>7 DEF CalmInv, HeadInv
  <2>11. QED
    BY <2>3, <2>4, <2>6, <2>9, <2>10 DEF CalmInv
<1>10. QED
  BY <1>8, <1>9

\* The broker takes an owed event: it becomes the last word.
LEMMA CalmPublish ==
    ASSUME ActionInv, CalmInv, NEW d \in Desk, PressPublish(d)
    PROVE  CalmInv'
<1>1. /\ desk[d].pc = "stored" /\ queue' = Append(queue, desk[d].press)
      /\ desk' = [desk EXCEPT ![d] = IdleDesk]
      /\ UNCHANGED <<row, hot, buffer, applied>>
  BY DEF PressPublish, UNCHANGEDbyDesk, DeskIdle
<1>2. PICK e \in GoodEvent : e = desk[d].press
  BY <1>1, DeskTypes
<1>3. e.user \in Fan /\ e.kind \in Kind
  BY EventTypes
<1>i. IdleDesk.pc = "idle"
  BY DEF IdleDesk
<1>4. /\ desk'[d] = IdleDesk
      /\ \A c \in Desk \ {d} : desk'[c] = desk[c]
      /\ \A c \in Desk \ {d}, u \in Fan, k \in Kind :
            (BusyWith(c, u, k)' <=> BusyWith(c, u, k)) /\ (Owed(c, u, k)' <=> Owed(c, u, k))
  BY <1>1, DeskMoves
<1>5. \A u \in Fan, k \in Kind :
         (Owed(d, u, k) <=> About(e, u, k)) /\ ~Owed(d, u, k)' /\ ~BusyWith(d, u, k)'
  BY <1>1, <1>2, <1>i, <1>4 DEF Owed, BusyWith
<1>6. \A c \in Desk : desk'[c].pc # "sync"
  BY <1>i, <1>4 DEF CalmInv
<1>7. OneDesk'
  BY <1>4, <1>5 DEF CalmInv, OneDesk
<1>8. OwedInv'
  BY <1>1, <1>4, <1>5 DEF CalmInv, OwedInv, Direction
<1>9. /\ Len(Path) \in Nat /\ Len(Path') = Len(Path) + 1 /\ Path'[Len(Path) + 1] = e
      /\ \A i \in 1..Len(Path) : Path'[i] = Path[i]
  BY <1>1, <1>2, PathGrows, PathTypes
<1>10. HeadInv'
  <2>1. applied => 1 \in 1..Len(Path)
    BY PathTypes
  <2>2. QED
    BY <1>1, <1>9, <2>1 DEF CalmInv, HeadInv
<1>11. WordInv'
  <2> DEFINE n == Len(Path)
  <2> SUFFICES ASSUME NEW u \in Fan, NEW k \in Kind, \A c \in Desk : ~Owed(c, u, k)'
               PROVE  /\ \A i \in 1..Len(Path') :
                           LastAbout(Path', i, u, k) => (Path'[i].active <=> Direction(u, k)')
                      /\ (\A i \in 1..Len(Path') : ~About(Path'[i], u, k)) =>
                           (row'[u][k].status = "active" <=> Direction(u, k)')
    BY DEF WordInv
  <2>1. Direction(u, k)' <=> Direction(u, k)
    BY <1>1 DEF Direction
  <2>2. n + 1 \in 1..Len(Path') /\ \A i \in 1..n : i \in 1..Len(Path') /\ i # n + 1
    BY <1>9
  <2>3. CASE About(e, u, k)
    <3>1. e.active <=> Direction(u, k)
      BY <1>2, <1>5, <2>3 DEF CalmInv, OwedInv
    <3>2. \A i \in 1..Len(Path') : LastAbout(Path', i, u, k) => i = n + 1
      BY <1>9, <2>2, <2>3 DEF LastAbout
    <3>3. QED
      BY <1>9, <2>1, <2>2, <2>3, <3>1, <3>2
  <2>4. CASE ~About(e, u, k)
    <3>1. \A c \in Desk : ~Owed(c, u, k)
      BY <1>4, <1>5, <2>4
    <3>2. ASSUME NEW i \in 1..Len(Path'), LastAbout(Path', i, u, k)
          PROVE  i \in 1..n /\ LastAbout(Path, i, u, k)
      <4>1. i # n + 1
        BY <1>9, <2>4, <3>2 DEF LastAbout
      <4>2. i \in 1..n
        BY <1>9, <4>1
      <4>3. QED
        BY <1>9, <2>2, <3>2, <4>2 DEF LastAbout
    <3>3. (\A i \in 1..Len(Path') : ~About(Path'[i], u, k)) => \A i \in 1..n : ~About(Path[i], u, k)
      BY <1>9, <2>2
    <3>4. QED
      BY <1>1, <1>9, <2>1, <3>1, <3>2, <3>3 DEF CalmInv, WordInv
  <2>5. QED
    BY <2>3, <2>4
<1>12. QED
  BY <1>6, <1>7, <1>8, <1>10, <1>11 DEF CalmInv

\* The worker commits the first delivery: there was a word on its way for it.
LEMMA CalmApply ==
    ASSUME ActionInv, CalmInv, ApplyAction
    PROVE  CalmInv'
<1>1. /\ buffer # <<>> /\ SetAction(Head(buffer)) /\ applied'
      /\ UNCHANGED <<queue, buffer, hot, desk>>
  BY DEF ApplyAction, UNCHANGEDbyWorker
<1>2. PICK e \in GoodEvent : e = Head(buffer) /\ 1 \in 1..Len(Path) /\ e = Path[1]
  <2>1. buffer \in Seq(GoodEvent)
    BY DEF ActionInv
  <2>2. Head(buffer) \in GoodEvent /\ Head(buffer) = buffer[1] /\ 1 \in 1..Len(buffer)
    BY <1>1, <2>1, MovedEvents
  <2>3. QED
    BY <2>2, PathTypes
<1>3. /\ e.user \in Fan /\ e.kind \in Kind
      /\ \A u \in Fan, k \in Kind : row'[u][k].status =
            IF About(e, u, k) THEN StatusOf(e.active) ELSE row[u][k].status
  BY <1>1, <1>2, EventTypes, RowMoves
<1>4. Path' = Path
  BY <1>1 DEF Path
<1>5. HeadInv'
  BY <1>2, <1>3, <1>4 DEF HeadInv, About
<1>6. OneDesk' /\ OwedInv' /\ \A d \in Desk : desk'[d].pc # "sync"
  BY <1>1 DEF CalmInv, OneDesk, OwedInv, BusyWith, Owed, Direction
<1>7. WordInv'
  <2>1. \A u \in Fan, k \in Kind :
           /\ Direction(u, k)' <=> Direction(u, k)
           /\ \A d \in Desk : Owed(d, u, k)' <=> Owed(d, u, k)
           /\ (\A i \in 1..Len(Path) : ~About(Path[i], u, k)) =>
                 row'[u][k].status = row[u][k].status
    BY <1>1, <1>2, <1>3 DEF Direction, Owed
  <2>2. QED
    BY <1>4, <2>1 DEF CalmInv, WordInv
<1>8. QED
  BY <1>5, <1>6, <1>7 DEF CalmInv

\* The worker settles a committed delivery.  If that was the last word about a
\* choice, its row says what Redis says.
LEMMA CalmAck ==
    ASSUME ActionInv, CalmInv, AckAction
    PROVE  CalmInv'
<1>1. applied /\ ~applied' /\ UNCHANGED <<row, queue, hot, desk>>
  BY DEF AckAction, UNCHANGEDbyWorker
<1> DEFINE n == Len(Path)
<1>2. /\ n \in Nat /\ n > 0 /\ Len(Path') = n - 1
      /\ \A i \in 1..Len(Path') : Path'[i] = Path[i + 1]
  BY PathShrinks, PathTypes
<1>3. PICK e \in GoodEvent : e = Path[1]
  BY <1>2, PathTypes
<1>4. /\ e.active \in BOOLEAN /\ e.user \in Fan /\ e.kind \in Kind
      /\ (StatusOf(e.active) = "active" <=> e.active)
      /\ row[e.user][e.kind].status = StatusOf(e.active)
  BY <1>1, <1>3, EventTypes DEF CalmInv, HeadInv, StatusOf
<1> HIDE DEF n
<1>5. OneDesk' /\ OwedInv' /\ (\A d \in Desk : desk'[d].pc # "sync") /\ HeadInv'
  BY <1>1 DEF CalmInv, OneDesk, OwedInv, BusyWith, Owed, Direction, HeadInv
<1>6. /\ \A i \in 1..Len(Path') : i + 1 \in 1..n
      /\ \A j \in 1..n : j # 1 => j - 1 \in 1..Len(Path') /\ (j - 1) + 1 = j
  BY <1>2
<1>7. WordInv'
  <2> SUFFICES ASSUME NEW u \in Fan, NEW k \in Kind, \A c \in Desk : ~Owed(c, u, k)'
               PROVE  /\ \A i \in 1..Len(Path') :
                           LastAbout(Path', i, u, k) => (Path'[i].active <=> Direction(u, k)')
                      /\ (\A i \in 1..Len(Path') : ~About(Path'[i], u, k)) =>
                           (row'[u][k].status = "active" <=> Direction(u, k)')
    BY DEF WordInv
  <2>1. (Direction(u, k)' <=> Direction(u, k)) /\ \A c \in Desk : ~Owed(c, u, k)
    BY <1>1 DEF Direction, Owed
  <2>2. /\ \A i \in 1..n : LastAbout(Path, i, u, k) => (Path[i].active <=> Direction(u, k))
        /\ (\A i \in 1..n : ~About(Path[i], u, k)) => (row[u][k].status = "active" <=> Direction(u, k))
    BY <2>1 DEF CalmInv, WordInv, n
  <2>3. ASSUME NEW i \in 1..Len(Path'), LastAbout(Path', i, u, k)
        PROVE  Path'[i].active <=> Direction(u, k)'
    <3>1. About(Path'[i], u, k) /\ \A j \in 1..Len(Path') : About(Path'[j], u, k) => j <= i
      BY <2>3 DEF LastAbout
    <3>2. i + 1 \in 1..n /\ About(Path[i + 1], u, k) /\ Path[i + 1] = Path'[i]
      BY <1>2, <1>6, <3>1
    <3>3. ASSUME NEW j \in 1..n, About(Path[j], u, k) PROVE j <= i + 1
      <4>1. CASE j = 1
        BY <1>2, <4>1
      <4>2. CASE j # 1
        <5>1. j - 1 \in 1..Len(Path') /\ Path'[j - 1] = Path[j]
          BY <1>2, <1>6, <4>2
        <5>2. j - 1 <= i
          BY <3>1, <3>3, <5>1
        <5>3. QED
          BY <1>2, <5>2
      <4>3. QED
        BY <4>1, <4>2
    <3>4. LastAbout(Path, i + 1, u, k)
      BY <3>2, <3>3 DEF LastAbout, n
    <3>5. QED
      BY <2>1, <2>2, <3>2, <3>4
  <2>4. ASSUME \A i \in 1..Len(Path') : ~About(Path'[i], u, k)
        PROVE  row'[u][k].status = "active" <=> Direction(u, k)'
    <3>1. \A j \in 1..n : About(Path[j], u, k) => j = 1
      BY <1>2, <1>6, <2>4
    <3>2. CASE About(e, u, k)
      <4>1. 1 \in 1..n /\ \A j \in 1..n : About(Path[j], u, k) => j <= 1
        BY <1>2, <3>1
      <4>2. LastAbout(Path, 1, u, k)
        BY <1>3, <3>2, <4>1 DEF LastAbout, n
      <4>3. e.active <=> Direction(u, k)
        BY <1>3, <2>2, <4>1, <4>2
      <4>4. row[u][k].status = "active" <=> e.active
        BY <1>4, <3>2 DEF About
      <4>5. QED
        BY <1>1, <2>1, <4>3, <4>4
    <3>3. CASE ~About(e, u, k)
      <4>1. \A j \in 1..n : ~About(Path[j], u, k)
        BY <1>3, <3>1, <3>3
      <4>2. QED
        BY <1>1, <2>1, <2>2, <4>1
    <3>4. QED
      BY <3>2, <3>3
  <2>5. QED
    BY <2>3, <2>4
<1>8. QED
  BY <1>5, <1>7 DEF CalmInv

-----------------------------------------------------------------------------
\* In a step that loses, refuses and overtakes nothing, and after which none
\* ever was, these are the actions that are left.
LEMMA CalmCases ==
    ASSUME ActionInv, ActionNext, upsets' = 0
    PROVE  /\ upsets = 0
           /\ \/ \E d \in Desk, e \in Presses : PressBegin(d, e)
              \/ \E d \in Desk : PressStore(d) \/ PressPublish(d) \/ PressSync(d)
              \/ \E d \in Desk : PressFails(d) /\ desk[d].pc = "loaded"
              \/ Deliver \/ ApplyAction \/ AckAction \/ WorkerDies \/ Moderate
<1>t. upsets \in Nat
  BY ActionConstants DEF ActionInv
<1>2. ASSUME NEW d \in Desk, PressFails(d) PROVE upsets = 0 /\ desk[d].pc = "loaded"
  BY <1>2, <1>t DEF PressFails, UpsetIf
<1>3. ASSUME NEW d \in Desk, NEW e \in Presses, PressBegin(d, e) PROVE upsets = 0
  BY <1>3, <1>t DEF PressBegin, UpsetIf
<1>4. ASSUME NEW d \in Desk, NEW enqueued \in BOOLEAN, PressUnconfirmed(d, enqueued) PROVE FALSE
  BY <1>4, <1>t DEF PressUnconfirmed, UpsetIf
<1>5. ~NackAction /\ ~ForgetBase /\ (\A u \in Fan : ~ForgetShard(u))
      /\ (\A u \in Fan, k \in Kind : ~ForgetChoice(u, k))
  BY <1>t DEF NackAction, ForgetBase, ForgetShard, ForgetChoice, UpsetIf
<1>6. ASSUME NEW d \in Desk, PressStore(d) \/ PressPublish(d) \/ PressSync(d) PROVE upsets = 0
  BY <1>6 DEF PressStore, PressPublish, PressSync
<1>7. Deliver \/ ApplyAction \/ AckAction \/ WorkerDies \/ Moderate => upsets = 0
  BY DEF Deliver, ApplyAction, AckAction, WorkerDies, Moderate
<1>8. QED
  BY ActionCases, <1>2, <1>3, <1>4, <1>5, <1>6, <1>7

\* The choices agree after every such step.
LEMMA CalmNext ==
    ASSUME ActionInv, CalmInv, ActionNext, upsets' = 0
    PROVE  CalmInv'
<1>1. ASSUME NEW d \in Desk, PressSync(d) PROVE FALSE
  BY <1>1 DEF PressSync, CalmInv
<1>2. ASSUME NEW d \in Desk, PressFails(d), desk[d].pc = "loaded" PROVE CalmInv'
  <2>1. DeskIdle(d) /\ UNCHANGED <<row, hot, queue, buffer, applied>>
    BY <1>2 DEF PressFails, UNCHANGEDbyDesk
  <2>2. \A u \in Fan, k \in Kind : Direction(u, k)' <=> Direction(u, k)
    BY <2>1 DEF Direction
  <2>3. QED
    BY <1>2, <2>1, <2>2, CalmEnd
<1>3. CASE Deliver \/ WorkerDies
  <2>1. Path' = Path
    BY <1>3, PathStays
  <2>2. UNCHANGED <<row, hot, desk>> /\ (applied' => applied)
    BY <1>3 DEF Deliver, WorkerDies, UNCHANGEDbyWorker
  <2>3. OneDesk' /\ OwedInv' /\ (\A d \in Desk : desk'[d].pc # "sync")
    BY <2>2 DEF CalmInv, OneDesk, OwedInv, BusyWith, Owed, Direction
  <2>4. WordInv'
    BY <2>1, <2>2 DEF CalmInv, WordInv, Owed, Direction
  <2>5. HeadInv'
    BY <2>1, <2>2 DEF CalmInv, HeadInv
  <2>6. QED
    BY <2>3, <2>4, <2>5 DEF CalmInv
<1>4. CASE Moderate
  <2>1. UNCHANGED <<row, hot, desk, buffer, queue, applied>>
    BY <1>4 DEF Moderate
  <2>2. Path' = Path
    BY <2>1 DEF Path
  <2>3. QED
    BY <2>1, <2>2 DEF CalmInv, OneDesk, OwedInv, WordInv, HeadInv, BusyWith, Owed, Direction
<1>5. QED
  BY CalmCases, CalmBegin, CalmStore, CalmPublish, CalmApply, CalmAck, <1>1, <1>2, <1>3, <1>4

\* And so do the numbers.
LEMMA NumbersNext ==
    ASSUME ActionInv, CalmInv, NumbersInv, ActionNext, upsets' = 0
    PROVE  NumbersInv'
<1> DEFINE zeros == [k \in Kind |-> 0]
<1>t. /\ shard \in [Fan -> [Kind -> Int]] /\ hot \in [Fan -> [Kind -> GoodChoice]]
      /\ desk \in [Desk -> GoodDesk \cup {IdleDesk}]
  BY DEF ActionInv
<1>n. /\ \A u \in Fan, k \in Kind : shard[u][k] = IF Direction(u, k) THEN 1 ELSE 0
      /\ base # NoBase => base = zeros
      /\ base = NoBase => count = zeros /\ Path = <<>> /\ \A d \in Desk : desk[d].pc # "idle" =>
                             desk[d].pc = "loaded" /\ desk[d].initial = zeros
  BY DEF NumbersInv
<1> HIDE DEF zeros
<1>e. base = NoBase => buffer = <<>> /\ queue = <<>>
  <2>1. buffer \in Seq(GoodEvent) /\ queue \in Seq(GoodEvent)
    BY DEF ActionInv
  <2>2. QED
    BY <1>n, <2>1, ConcatEqualIffEmpty DEF Path
<1>1. ASSUME NEW d \in Desk, PressStore(d) PROVE NumbersInv'
  <2>1. /\ desk[d].pc = "loaded" /\ SetActionState(desk[d].press, desk[d].initial)
    BY <1>1 DEF PressStore
  <2>2. PICK e \in GoodEvent : e = desk[d].press
    BY <2>1, DeskTypes
  <2>3. e.user \in Fan /\ e.kind \in Kind /\ desk[d].initial \in Counts
    BY <2>1, DeskTypes, EventTypes
  <2>4. PICK delta : delta = StateDelta(hot[e.user][e.kind], e.active, e.key)
    OBVIOUS
  <2>5. /\ \A u \in Fan, k \in Kind : hot'[u][k].status =
              IF About(e, u, k) THEN StatusOf(e.active) ELSE hot[u][k].status
        /\ shard' = [shard EXCEPT ![e.user][e.kind] = @ + delta]
        /\ delta = IF StatusOf(e.active) = "active"
                   THEN (IF hot[e.user][e.kind].status = "active" THEN 0 ELSE 1)
                   ELSE (IF hot[e.user][e.kind].status = "active" THEN -1 ELSE 0)
        /\ base' = (IF base = NoBase THEN desk[d].initial ELSE base)
    BY <2>1, <2>2, <2>3, <2>4, HotMoves
  <2>6. ASSUME NEW u \in Fan, NEW k \in Kind
        PROVE  shard'[u][k] = IF Direction(u, k)' THEN 1 ELSE 0
    <3>1. CASE About(e, u, k)
      <4>1. shard'[u][k] = shard[u][k] + delta
        BY <1>t, <2>3, <2>5, <3>1 DEF About
      <4>2. shard[u][k] = IF hot[e.user][e.kind].status = "active" THEN 1 ELSE 0
        BY <1>n, <3>1 DEF About, Direction
      <4>3. Direction(u, k)' <=> StatusOf(e.active) = "active"
        BY <2>5, <3>1 DEF Direction
      <4>4. QED
        BY <2>5, <4>1, <4>2, <4>3
    <3>2. CASE ~About(e, u, k)
      <4>1. shard'[u][k] = shard[u][k]
        BY <1>t, <2>3, <2>5, <3>2 DEF About
      <4>2. Direction(u, k)' <=> Direction(u, k)
        BY <2>5, <3>2 DEF Direction
      <4>3. QED
        BY <1>n, <4>1, <4>2
    <3>3. QED
      BY <3>1, <3>2
  <2>7. base' = zeros
    BY <1>n, <2>1, <2>5
  <2>8. zeros # NoBase
    <3>1. zeros[e.kind] = 0 /\ NoBase[e.kind] = -1
      BY <2>3 DEF zeros, NoBase
    <3>2. QED
      BY <3>1
  <2>9. QED
    BY <2>6, <2>7, <2>8 DEF NumbersInv, zeros
<1>2. ASSUME UNCHANGED <<shard, hot, base>>,
             base = NoBase => /\ count' = zeros /\ Path' = <<>>
                              /\ \A d \in Desk : desk'[d].pc # "idle" =>
                                    desk'[d].pc = "loaded" /\ desk'[d].initial = zeros
      PROVE  NumbersInv'
  BY <1>2, <1>n DEF NumbersInv, Direction, zeros
<1>3. ASSUME NEW d \in Desk, NEW e \in Presses, PressBegin(d, e) PROVE NumbersInv'
  <2> DEFINE q == [pc |-> "loaded", press |-> e, initial |-> count]
  <2>1. /\ desk' = [desk EXCEPT ![d] = q]
        /\ UNCHANGED <<count, hot, base, shard, queue, buffer>>
    BY <1>3 DEF PressBegin, UNCHANGEDbyDesk
  <2>2. q.pc = "loaded" /\ q.initial = count
    OBVIOUS
  <2> HIDE DEF q
  <2>3. desk'[d] = q /\ \A c \in Desk \ {d} : desk'[c] = desk[c]
    BY <1>t, <2>1
  <2>4. Path' = Path
    BY <2>1 DEF Path
  <2>5. base = NoBase => \A c \in Desk : desk'[c].pc # "idle" =>
                            desk'[c].pc = "loaded" /\ desk'[c].initial = zeros
    BY <1>n, <2>2, <2>3
  <2>6. QED
    BY <1>n, <1>2, <2>1, <2>4, <2>5
<1>4. ASSUME NEW d \in Desk, PressPublish(d) PROVE NumbersInv'
  <2>1. desk[d].pc = "stored" /\ UNCHANGED <<shard, hot, base>>
    BY <1>4 DEF PressPublish
  <2>2. base # NoBase
    BY <1>n, <2>1
  <2>3. QED
    BY <1>2, <2>1, <2>2
<1>5. ASSUME NEW d \in Desk, PressFails(d) PROVE NumbersInv'
  <2>1. /\ desk' = [desk EXCEPT ![d] = IdleDesk]
        /\ UNCHANGED <<count, hot, base, shard, queue, buffer>>
    BY <1>5 DEF PressFails, UNCHANGEDbyDesk, DeskIdle
  <2>2. desk'[d].pc = "idle" /\ \A c \in Desk \ {d} : desk'[c] = desk[c]
    BY <1>t, <2>1 DEF IdleDesk
  <2>3. Path' = Path
    BY <2>1 DEF Path
  <2>4. base = NoBase => \A c \in Desk : desk'[c].pc # "idle" =>
                            desk'[c].pc = "loaded" /\ desk'[c].initial = zeros
    BY <1>n, <2>2
  <2>5. QED
    BY <1>n, <1>2, <2>1, <2>3, <2>4
<1>6. CASE Deliver \/ ApplyAction \/ AckAction \/ WorkerDies
  <2>1. UNCHANGED <<shard, hot, base>>
    BY <1>6 DEF Deliver, ApplyAction, AckAction, WorkerDies, UNCHANGEDbyWorker
  <2>2. queue # <<>> \/ buffer # <<>>
    BY <1>6 DEF Deliver, ApplyAction, AckAction, WorkerDies, ActionInv
  <2>3. base # NoBase
    BY <1>e, <2>2
  <2>4. QED
    BY <1>2, <2>1, <2>3
<1>7. CASE Moderate
  <2>1. UNCHANGED <<count, hot, base, shard, queue, buffer, desk>>
    BY <1>7 DEF Moderate
  <2>2. Path' = Path
    BY <2>1 DEF Path
  <2>3. QED
    BY <1>n, <1>2, <2>1, <2>2
<1>8. ASSUME NEW d \in Desk, PressSync(d) PROVE FALSE
  BY <1>8 DEF PressSync, CalmInv
<1>9. QED
  BY CalmCases, <1>1, <1>3, <1>4, <1>5, <1>6, <1>7, <1>8

\* At the start there is nothing to disagree about.
LEMMA ConvergeInit == ActionInit => ConvergeInv
<1> SUFFICES ASSUME ActionInit PROVE CalmInv /\ NumbersInv
  BY DEF ConvergeInv
<1>1. \A d \in Desk : desk[d].pc = "idle"
  BY DEF ActionInit, IdleDesk
<1>2. Path = <<>> /\ Len(Path) = 0
  <2>1. buffer \in Seq(GoodEvent) /\ queue \in Seq(GoodEvent) /\ buffer = <<>> /\ queue = <<>>
    BY EmptySeq DEF ActionInit
  <2>2. Path = <<>>
    BY <2>1, ConcatEmptySeq DEF Path
  <2>3. QED
    BY <2>2, EmptySeq
<1>3. \A u \in Fan, k \in Kind : ~Direction(u, k) /\ row[u][k].status # "active"
  BY DEF ActionInit, NoChoice, Direction
<1>4. \A d \in Desk, u \in Fan, k \in Kind : ~BusyWith(d, u, k) /\ ~Owed(d, u, k)
  BY <1>1 DEF BusyWith, Owed
<1>5. OneDesk /\ OwedInv /\ HeadInv /\ \A d \in Desk : desk[d].pc # "sync"
  BY <1>1, <1>4 DEF OneDesk, OwedInv, HeadInv, ActionInit
<1>6. WordInv
  BY <1>2, <1>3 DEF WordInv
<1>7. NumbersInv
  BY <1>1, <1>2, <1>3 DEF NumbersInv, ActionInit
<1>8. QED
  BY <1>5, <1>6, <1>7 DEF CalmInv

\* A step that upsets nothing keeps the agreement.
LEMMA ConvergeStep == ASSUME ActionInv, ConvergeInv, [ActionNext]_actionVars PROVE ConvergeInv'
<1>1. CASE UNCHANGED actionVars
  <2>1. Path' = Path
    BY <1>1 DEF actionVars, Path
  <2>2. CalmInv => CalmInv'
    BY <1>1, <2>1 DEF actionVars, CalmInv, OneDesk, OwedInv, WordInv, HeadInv, BusyWith, Owed,
                      Direction
  <2>3. NumbersInv => NumbersInv'
    BY <1>1, <2>1 DEF actionVars, NumbersInv, Direction
  <2>4. QED
    BY <1>1, <2>2, <2>3 DEF actionVars, ConvergeInv
<1>2. CASE ActionNext
  <2>1. ASSUME upsets' = 0 PROVE CalmInv' /\ NumbersInv'
    <3>1. upsets = 0
      BY <1>2, <2>1, CalmCases
    <3>2. CalmInv /\ NumbersInv
      BY <3>1 DEF ConvergeInv
    <3>3. QED
      BY <1>2, <2>1, <3>2, CalmNext, NumbersNext
  <2>2. QED
    BY <2>1 DEF ConvergeInv
<1>3. QED
  BY <1>1, <1>2

\* What the invariants say when nothing is on its way.
LEMMA AgreedThen ==
    ASSUME ActionInv, FansInv, ConvergeInv PROVE Converged
<1> SUFFICES ASSUME upsets = 0
             PROVE  /\ \A u \in Fan, k \in Kind : ~InFlight(u, k) =>
                          (row[u][k].status = "active" <=> hot[u][k].status = "active")
                    /\ \A k \in Kind :
                          (\A u \in Fan : ~InFlight(u, k)) => Shown(k) = count[k]
  BY DEF Converged
<1>i. CalmInv /\ NumbersInv
  BY DEF ConvergeInv
<1>1. ASSUME NEW u \in Fan, NEW k \in Kind, ~InFlight(u, k)
      PROVE  row[u][k].status = "active" <=> hot[u][k].status = "active"
  <2>1. \A d \in Desk : ~Owed(d, u, k)
    BY <1>1 DEF InFlight, BusyWith, Owed, About
  <2>2. ASSUME NEW i \in 1..Len(Path), About(Path[i], u, k) PROVE FALSE
    <3>1. buffer \in Seq(GoodEvent) /\ queue \in Seq(GoodEvent)
      BY DEF ActionInv
    <3>2. /\ Len(buffer) \in Nat /\ Len(queue) \in Nat /\ Len(Path) = Len(buffer) + Len(queue)
          /\ DOMAIN buffer = 1..Len(buffer) /\ DOMAIN queue = 1..Len(queue)
      BY <3>1, PathTypes, MovedEvents
    <3>3. CASE i <= Len(buffer)
      <4>1. i \in DOMAIN buffer /\ Path[i] = buffer[i]
        BY <3>2, <3>3, PathTypes
      <4>2. Path[i] \in ToSet(buffer)
        BY <4>1 DEF ToSet
      <4>3. QED
        BY <1>1, <2>2, <4>2 DEF InFlight, About
    <3>4. CASE ~(i <= Len(buffer))
      <4>1. i - Len(buffer) \in 1..Len(queue) /\ Len(buffer) + (i - Len(buffer)) = i
        BY <3>2, <3>4
      <4>2. i - Len(buffer) \in DOMAIN queue /\ Path[i] = queue[i - Len(buffer)]
        BY <3>2, <4>1, PathTypes
      <4>3. Path[i] \in ToSet(queue)
        BY <4>2 DEF ToSet
      <4>4. QED
        BY <1>1, <2>2, <4>3 DEF InFlight, About
    <3>5. QED
      BY <3>3, <3>4
  <2>3. QED
    BY <1>i, <2>1, <2>2 DEF CalmInv, WordInv, Direction
<1>2. ASSUME NEW k \in Kind, \A u \in Fan : ~InFlight(u, k) PROVE Shown(k) = count[k]
  <2> DEFINE g == [u \in Fan |-> shard[u][k]]
             ones == {u \in Fan : g[u] = 1}
  <2>1. \A u \in Fan : g[u] = IF row[u][k].status = "active" THEN 1 ELSE 0
    BY <1>i, <1>1, <1>2 DEF NumbersInv, Direction
  <2>2. ones = ActiveFans[k]
    BY <2>1 DEF ActiveFans
  <2>3. g \in [Fan -> {0, 1}] /\ IsFiniteSet(Fan)
    BY <2>1, ActionConstants
  <2>4. ShardDelta(k) = FoldFunction(+, 0, g)
    BY DEF ShardDelta
  <2> HIDE DEF g
  <2>5. FoldFunction(+, 0, g) = Cardinality(ones)
    BY <2>3, SumOfOnes
  <2>6. ShardDelta(k) = count[k] /\ count[k] \in Nat
    BY <2>2, <2>4, <2>5 DEF FansInv, ActionInv, Counts
  <2>7. (IF base = NoBase THEN 0 ELSE base[k]) = 0
    BY <1>i DEF NumbersInv
  <2>8. QED
    BY <2>6, <2>7 DEF Shown, Clamp
<1>3. QED
  BY <1>1, <1>2

\* Where nothing was lost, refused or overtaken, MySQL ends with the choice that
\* Redis answered the client with and with the number that it showed, for any
\* number of users and presses, also when the worker died and applied an event
\* twice.
THEOREM ActionsConverge == ActionSpec => []Converged
<1>1. ActionSpec => [](ActionInv /\ FansInv)
  <2>1. ActionInv /\ FansInv /\ [ActionNext]_actionVars => FansInv'
    BY FansStep
  <2>2. QED
    BY <2>1, FansInit, ActionInvInit, ActionInvNext, PTL DEF ActionSpec
<1>2. ActionInv /\ ConvergeInv /\ [ActionNext]_actionVars => ConvergeInv'
  BY ConvergeStep
<1>3. ActionSpec => []ConvergeInv
  BY <1>1, <1>2, ConvergeInit, PTL DEF ActionSpec
<1>4. QED
  BY <1>1, <1>3, AgreedThen, PTL

-----------------------------------------------------------------------------
\* What users do and are told of is four parts that share no variable: the whole
\* implements each of them.
THEOREM InteractionsParts == Spec => ActionSpec /\ CommentSpec /\ MessageSpec /\ StreamSpec
<1>1. Init => ActionInit /\ CommentInit /\ MessageInit /\ StreamInit
  BY DEF Init
<1>2. [Next]_<<focus, actionVars, commentVars, messageVars, streamVars>> =>
        /\ [ActionNext]_actionVars /\ [CommentNext]_commentVars
        /\ [MessageNext]_messageVars /\ [StreamNext]_streamVars
  BY DEF Next
<1>3. QED
  BY <1>1, <1>2, PTL DEF Spec, ActionSpec, CommentSpec, MessageSpec, StreamSpec

\* The whole is well typed in every reachable state.
THEOREM InteractionsTyped == Spec => []InteractionsTypeOK
<1>1. ActionTypeOK /\ CommentTypeOK /\ MessageTypeOK /\ StreamTypeOK => InteractionsTypeOK
  BY DEF InteractionsTypeOK
<1>2. QED
  BY <1>1, InteractionsParts, ActionsTyped, CommentsTyped, MessagesTyped, StreamTyped, PTL
=============================================================================

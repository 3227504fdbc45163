--------------------------- MODULE MessageCentre ----------------------------
(***************************************************************************)
(* The message centre: user_message rows made from events that may be      *)
(* reported more than once, read marks, and the pages of a list that goes  *)
(* back in time (application/message, persistence/message, core.go).       *)
(*                                                                         *)
(* created_at is the clock of the process that inserts, so it need not     *)
(* grow with the id.  A mention looks first and inserts later.             *)
(***************************************************************************)
EXTENDS Naturals, Sequences, FiniteSets

CONSTANTS
    Reader,       \* users
    Happening,    \* events, by what makes their ids: kind, actor, receiver
    Mentioner,    \* comment requests that report mentions
    ListLimit,    \* messages on a page
    MaxMessages,  \* bound: rows
    MaxStamp      \* bound: clock readings

ASSUME MessageConstants ==
    /\ Happening \subseteq [kind: {"like", "comment", "follow", "mention"},
                            actor: Reader, receiver: Reader]
    /\ \A e \in Happening : e.kind = "follow" => e.actor # e.receiver
    /\ ListLimit \in Nat \ {0}
    /\ MaxMessages \in Nat /\ MaxStamp \in Nat

VARIABLES
    message,  \* user_message; the id is the position
    mention,  \* requests between the look-up and the insert of coreMentions
    list      \* one reader's list, page after page

messageVars == <<message, mention, list>>

-----------------------------------------------------------------------------
MessageRow == [user: Reader, event: Happening, at: 1..MaxStamp, read: BOOLEAN]

NoMention == [kind |-> "none"]

\* cursor: the last id sent, 0 before the first page.  sent, twice: the ids the
\* pages have shown, and those that two pages have shown.  first: the ids there
\* were when the first page was asked for.
ListState == [user: Reader, cursor: Nat, sent: SUBSET Nat, twice: SUBSET Nat, first: SUBSET Nat,
              more: BOOLEAN]

NewList(u) ==
    [user |-> u, cursor |-> 0, sent |-> {}, twice |-> {}, first |-> {}, more |-> TRUE]

MessageTypeOK ==
    /\ message \in Seq(MessageRow)
    /\ mention \in [Mentioner -> Happening \cup {NoMention}]
    /\ list \in ListState
    /\ list.cursor \in 0..Len(message)
    /\ \A i \in list.sent : i \in DOMAIN message /\ message[i].user = list.user

MessageInit ==
    /\ message = <<>>
    /\ mention = [p \in Mentioner |-> NoMention]
    /\ list \in {NewList(u) : u \in Reader}

Known(u, e) == \E i \in DOMAIN message : message[i].user = u /\ message[i].event = e

\* Mutant: no unique index on user and event.
EventFreeAlways(u, e) == TRUE

\* uk_user_event
EventFree(u, e) == ~Known(u, e)

InsertMessage(u, e, at) ==
    /\ Len(message) < MaxMessages
    /\ message' = Append(message, [user |-> u, event |-> e, at |-> at, read |-> FALSE])

\* Service.CreateFromActorEvent over Repository.Create; a row that is there
\* already is the answer.
CreateFromActorEvent(u, e, at) ==
    /\ EventFree(u, e)
    /\ InsertMessage(u, e, at)
    /\ UNCHANGED <<mention, list>>

\* createInteractionMessage, whose errors are dropped.
CreateInteractionMessage(e, at) == CreateFromActorEvent(e.receiver, e, at)

\* The receiver is the author of the video; a repeated like has the same id.
NotifyLike(e, at) ==
    /\ e.kind = "like"
    /\ e.receiver # e.actor
    /\ CreateInteractionMessage(e, at)

NotifyComment(e, at) ==
    /\ e.kind = "comment"
    /\ e.receiver # e.actor
    /\ CreateInteractionMessage(e, at)

\* After every PUT that leaves the follow active.
NotifyFollow(e, at) ==
    /\ e.kind = "follow"
    /\ CreateFromActorEvent(e.receiver, e, at)

\* coreMentions, FirstOrCreate: the look-up.
MentionLookup(p, e) ==
    /\ mention[p] = NoMention
    /\ e.kind = "mention"
    /\ e.receiver # e.actor
    /\ ~Known(e.receiver, e)
    /\ mention' = [mention EXCEPT ![p] = e]
    /\ UNCHANGED <<message, list>>

\* FirstOrCreate: the insert; the error of the loser is dropped.
MentionInsert(p, at) ==
    LET e == mention[p] IN
    /\ e # NoMention
    /\ IF EventFree(e.receiver, e) THEN InsertMessage(e.receiver, e, at) ELSE UNCHANGED message
    /\ mention' = [mention EXCEPT ![p] = NoMention]
    /\ UNCHANGED list

-----------------------------------------------------------------------------
\* Repository.MarkRead: the user's own unread ones among ids, all of them when
\* ids is empty.
Marked(u, ids) == {i \in DOMAIN message : /\ message[i].user = u
                                          /\ ~message[i].read
                                          /\ ids = {} \/ i \in ids}

\* Service.MarkRead
MarkRead(u, ids) ==
    LET marks == Marked(u, ids)
    IN  /\ marks # {}
        /\ message' = [i \in DOMAIN message |-> IF i \in marks THEN [message[i] EXCEPT !.read = TRUE]
                                                ELSE message[i]]
        /\ UNCHANGED <<mention, list>>

\* The notification page: one message, or all.
MarkNotificationsRead(u) == \E ids \in {{}} \cup {{i} : i \in DOMAIN message} : MarkRead(u, ids)

\* ORDER BY created_at DESC, id DESC
Newer(i, j) == message[i].at > message[j].at \/ (message[i].at = message[j].at /\ i > j)

\* Mutant: the cursor compares created_at alone.
PastCursorStampOnly(c, i) == c = 0 \/ message[i].at < message[c].at

\* The cursor holds created_at and id of the last row of the page before.
PastCursor(c, i) == c = 0 \/ Newer(c, i)

\* The first n rows in that order, and the last of some.
FirstRows(S, n) == {i \in S : Cardinality({j \in S : Newer(j, i)}) < n}

LastRow(S) == CHOOSE i \in S : \A j \in S : j = i \/ Newer(j, i)

\* Repository.ListByUser
ListByUser(u, c, limit) ==
    FirstRows({i \in DOMAIN message : message[i].user = u /\ PastCursor(c, i)}, limit)

\* Service.List: one row more than the page says whether there is another.
ListMessages ==
    LET rows == ListByUser(list.user, list.cursor, ListLimit + 1)
        more == Cardinality(rows) > ListLimit
        page == IF more THEN FirstRows(rows, ListLimit) ELSE rows
    IN  /\ list.more
        /\ list' = [list EXCEPT !.cursor = IF page = {} THEN @ ELSE LastRow(page),
                                !.sent = @ \cup page,
                                !.twice = @ \cup (list.sent \cap page),
                                !.first = IF list.cursor = 0
                                          THEN {i \in DOMAIN message : message[i].user = list.user}
                                          ELSE @,
                                !.more = more]
        /\ UNCHANGED <<message, mention>>

\* A client starts from the top.
ListAgain(u) ==
    /\ list # NewList(u)
    /\ list' = NewList(u)
    /\ UNCHANGED <<message, mention>>

-----------------------------------------------------------------------------
MessageNext ==
    \/ \E e \in Happening, at \in 1..MaxStamp :
          NotifyLike(e, at) \/ NotifyComment(e, at) \/ NotifyFollow(e, at)
    \/ \E p \in Mentioner :
          \/ \E e \in Happening : MentionLookup(p, e)
          \/ \E at \in 1..MaxStamp : MentionInsert(p, at)
    \/ \E u \in Reader :
          MarkNotificationsRead(u) \/ \E ids \in SUBSET DOMAIN message : MarkRead(u, ids)
    \/ ListMessages
    \/ \E u \in Reader : ListAgain(u)

MessageSpec == MessageInit /\ [][MessageNext]_messageVars

-----------------------------------------------------------------------------
(* Properties.                                                             *)

\* A user is told of an event once: likes that are repeated, follows that are
\* renewed and mentions whose look-ups race leave one row; and nobody is told of
\* his own doing (Create, coreMentions, notifyLike).
ToldOnce ==
    /\ \A i, j \in DOMAIN message :
          message[i].user = message[j].user /\ message[i].event = message[j].event => i = j
    /\ \A i \in DOMAIN message : message[i].event.actor # message[i].user

\* Pages do not repeat a message, and a list that has come to its end has shown
\* every message that was there when it began, whatever was inserted meanwhile
\* and whatever clock stamped it (Service.List, ListByUser).
ListComplete ==
    /\ list.twice = {}
    /\ ~list.more => list.first \subseteq list.sent
=============================================================================

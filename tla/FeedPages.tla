------------------------------ MODULE FeedPages ------------------------------
(***************************************************************************)
(* The timeline, page by page: the page cache with its singleflight, the   *)
(* card cache and the last look at MySQL (application/feed/service.go,     *)
(* infra/cache/feed_cache.go, persistence/feed/gorm.go).                   *)
(*                                                                         *)
(* A cached page is keyed by the cursor it continues.  Posts are           *)
(* identified by their place in the order of the timeline; the statement   *)
(* that commits a post may come later than the one of a newer post.  A     *)
(* cached page may go at any time: its TTL, or an eviction.  Which cards   *)
(* are cached is left open.                                                *)
(***************************************************************************)
EXTENDS Integers, FiniteSets, FiniteSetsExt

CONSTANTS
    Post,      \* videos, as numbers: a larger one is nearer to the top
    Guest,     \* readers
    PageLimit, \* limit of a page
    MaxEdits   \* bound: publications and moderations

ASSUME PageConstants ==
    /\ Post \subseteq Nat \ {0} /\ IsFiniteSet(Post) /\ Post # {}
    /\ PageLimit \in Nat \ {0}
    /\ MaxEdits \in Nat

VARIABLES
    posted,   \* videos with status published
    sheet,    \* the cached pages by cursor
    flight,   \* feedPageGroup: who loads the page of a cursor
    guest,    \* readers between two of their steps
    edits,
    settled   \* history: videos that have been published all along

pageVars == <<posted, sheet, flight, guest, edits, settled>>

-----------------------------------------------------------------------------
\* The cursor of the first page is above every post.
Top == Max(Post) + 1

Cursor == Post \cup {Top}

NoSheet == [cached |-> FALSE]

\* A FeedPage: its videos, NextCursor and HasMore.
Page == [cached: {TRUE}, items: SUBSET Post, next: Cursor, more: BOOLEAN]

NoFlight == [pc |-> "none"]

\* The loader and what it has read.
Flight == [pc: {"again", "load", "store"}, page: Page \cup {NoSheet}]

Reading == {"join", "assemble", "recheck"}

\* shown: in this session; answer: by the last request; since: published when
\* the last request began or at some time while it ran.
GuestState == [pc: {"idle", "end"} \cup Reading, cursor: Cursor, page: Page \cup {NoSheet},
               shown: SUBSET Post, answer: SUBSET Post, since: SUBSET Post]

PageTypeOK ==
    /\ posted \in SUBSET Post
    /\ sheet \in [Cursor -> Page \cup {NoSheet}]
    /\ flight \in [Cursor -> Flight \cup {NoFlight}]
    /\ guest \in [Guest -> GuestState]
    /\ \A g \in Guest : guest[g].pc = "join" => flight[guest[g].cursor] # NoFlight
    /\ edits \in 0..MaxEdits
    /\ settled \in SUBSET posted

PageInit ==
    /\ posted \in SUBSET Post
    /\ sheet = [c \in Cursor |-> NoSheet]
    /\ flight = [c \in Cursor |-> NoFlight]
    /\ guest = [g \in Guest |-> [pc |-> "idle", cursor |-> Top, page |-> NoSheet, shown |-> {},
                                 answer |-> {}, since |-> {}]]
    /\ edits = 0
    /\ settled = posted

-----------------------------------------------------------------------------
\* basePageQuery below the cursor.
Below(c) == {p \in posted : p < c}

\* Mutant: HasMore is read off the page after it was cut.
HasMoreOfCut(rows) == Cardinality(rows) > PageLimit + 1

\* One row more than the limit is read to know HasMore.
HasMore(rows) == Cardinality(rows) > PageLimit

\* listPageFromRepo over ListTimelinePage; the cursor of an empty page is not used.
PageFromRepo(c) ==
    LET rows == {p \in Below(c) : Cardinality({q \in Below(c) : q > p}) <= PageLimit}
        items == IF Cardinality(rows) > PageLimit THEN rows \ {Min(rows)} ELSE rows
    IN [cached |-> TRUE, items |-> items, more |-> HasMore(rows),
        next |-> IF items = {} THEN c ELSE Min(items)]

\* A publication, a moderation or a restoration commits.
Edit(p) ==
    /\ edits < MaxEdits
    /\ edits' = edits + 1
    /\ posted' = IF p \in posted THEN posted \ {p} ELSE posted \cup {p}
    /\ settled' = settled \ {p}
    /\ guest' = [g \in Guest |-> [guest[g] EXCEPT !.since =
                     IF guest[g].pc \in Reading THEN @ \cup posted' ELSE @]]
    /\ UNCHANGED <<sheet, flight>>

SheetExpires(c) ==
    /\ sheet[c] # NoSheet
    /\ sheet' = [sheet EXCEPT ![c] = NoSheet]
    /\ UNCHANGED <<posted, flight, guest, edits, settled>>

-----------------------------------------------------------------------------
(* Service.GetFeed.                                                        *)

\* A request up to the first look of loadFeedPage: a hit, or the singleflight, as
\* its leader or behind one.
GetPage(g) ==
    LET c == guest[g].cursor
        asks == [guest[g] EXCEPT !.answer = {}, !.since = posted]
    IN
    /\ guest[g].pc = "idle"
    /\ \/ /\ sheet[c] # NoSheet
          /\ guest' = [guest EXCEPT ![g] = [asks EXCEPT !.pc = "assemble", !.page = sheet[c]]]
          /\ UNCHANGED flight
       \/ /\ sheet[c] = NoSheet
          /\ guest' = [guest EXCEPT ![g] = [asks EXCEPT !.pc = "join"]]
          /\ flight' = [flight EXCEPT ![c] = IF @ = NoFlight
                                             THEN [pc |-> "again", page |-> NoSheet] ELSE @]
    /\ UNCHANGED <<posted, sheet, edits, settled>>

\* Everyone who waits is handed the same page.
Land(c, page) ==
    /\ flight' = [flight EXCEPT ![c] = NoFlight]
    /\ guest' = [g \in Guest |->
           IF guest[g].pc = "join" /\ guest[g].cursor = c
           THEN [guest[g] EXCEPT !.pc = "assemble", !.page = page] ELSE guest[g]]

\* The leader looks into the cache again.
GetPageAgain(c) ==
    /\ flight[c].pc = "again"
    /\ \/ /\ sheet[c] # NoSheet
          /\ Land(c, sheet[c])
       \/ /\ sheet[c] = NoSheet
          /\ flight' = [flight EXCEPT ![c].pc = "load"]
          /\ UNCHANGED guest
    /\ UNCHANGED <<posted, sheet, edits, settled>>

LoadPage(c) ==
    /\ flight[c].pc = "load"
    /\ flight' = [flight EXCEPT ![c] = [pc |-> "store", page |-> PageFromRepo(c)]]
    /\ UNCHANGED <<posted, sheet, guest, edits, settled>>

\* The load fails: everyone who waits is answered with the error.
LoadFails(c) ==
    /\ flight[c].pc = "load"
    /\ flight' = [flight EXCEPT ![c] = NoFlight]
    /\ guest' = [g \in Guest |->
           IF guest[g].pc = "join" /\ guest[g].cursor = c
           THEN [guest[g] EXCEPT !.pc = "idle"] ELSE guest[g]]
    /\ UNCHANGED <<posted, sheet, edits, settled>>

\* SetPage, whose error is dropped.
SetPage(c) ==
    /\ flight[c].pc = "store"
    /\ Land(c, flight[c].page)
    /\ \/ sheet' = [sheet EXCEPT ![c] = flight[c].page]
       \/ UNCHANGED sheet
    /\ UNCHANGED <<posted, edits, settled>>

\* What GetCards may find: cards SetCards stored, whatever has become of the
\* videos since.
GetCards(ids) == SUBSET ids

BatchGetFeedCards(ids) == ids \cap posted

\* assembleFeedItems: the cards that are cached, and the others as far as MySQL
\* has them; an item without a card is dropped.
AssembleFeedItems(g) ==
    LET ids == guest[g].page.items IN
    /\ guest[g].pc = "assemble"
    /\ \E cards \in GetCards(ids) :
          guest' = [guest EXCEPT ![g].pc = "recheck",
                                 ![g].page.items = cards \cup BatchGetFeedCards(ids \ cards)]
    /\ UNCHANGED <<posted, sheet, flight, edits, settled>>

\* Mutant: what the caches say is shown.
PublishedVideoIDsOfCache(items) == items

PublishedVideoIDs(items) == items \cap posted

\* The recheck of GetFeed, and the answer.  The cursor continues below the last
\* item of the page, shown or not; coreFeed sends none when there is no more.
Show(g) ==
    LET visible == PublishedVideoIDs(guest[g].page.items) IN
    /\ guest[g].pc = "recheck"
    /\ guest' = [guest EXCEPT ![g].shown = @ \cup visible,
                              ![g].answer = visible,
                              ![g].pc = IF guest[g].page.more THEN "idle" ELSE "end",
                              ![g].cursor = guest[g].page.next,
                              ![g].page = NoSheet]
    /\ UNCHANGED <<posted, sheet, flight, edits, settled>>

\* A query of the cards or of PublishedVideoIDs fails; the reader asks again.
ShowFails(g) ==
    /\ guest[g].pc \in {"assemble", "recheck"}
    /\ guest' = [guest EXCEPT ![g].pc = "idle", ![g].page = NoSheet]
    /\ UNCHANGED <<posted, sheet, flight, edits, settled>>

\* A query without a cursor: from the first page again.
QueryFirst(g) ==
    /\ guest[g].pc \in {"idle", "end"}
    /\ guest' = [guest EXCEPT ![g].pc = "idle", ![g].cursor = Top, ![g].shown = {}]
    /\ UNCHANGED <<posted, sheet, flight, edits, settled>>

PageNext ==
    \/ \E p \in Post : Edit(p)
    \/ \E c \in Cursor :
          SheetExpires(c) \/ GetPageAgain(c) \/ LoadPage(c) \/ LoadFails(c) \/ SetPage(c)
    \/ \E g \in Guest :
          GetPage(g) \/ AssembleFeedItems(g) \/ Show(g) \/ ShowFails(g) \/ QueryFirst(g)

PageSpec == PageInit /\ [][PageNext]_pageVars

-----------------------------------------------------------------------------
\* "A page/card cache is not an authority for publication status": what a request
\* shows was published at some time while that request ran, however old the
\* cached page, the page of another reader's load or the card it came from
\* (GetFeed).
ModerationApplies == \A g \in Guest : guest[g].answer \subseteq guest[g].since

\* A reader who follows the cursors to the end is shown every video that was
\* published all along, and none twice, though its pages were cached at
\* different times and the video a cursor names may be gone (loadFeedPage,
\* listPageFromRepo).
TimelineWhole ==
    \A g \in Guest :
        /\ guest[g].pc \in {"assemble", "recheck"} => guest[g].page.items \cap guest[g].shown = {}
        /\ guest[g].pc = "end" => settled \subseteq guest[g].shown
=============================================================================

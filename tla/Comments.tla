------------------------------ MODULE Comments ------------------------------
(***************************************************************************)
(* Comments: creation with an idempotency key, soft deletion, the counter  *)
(* of video_stat and the pages a reader fetches (core.go, social.go,       *)
(* application/interaction, persistence/interaction).                      *)
(*                                                                         *)
(* MySQL hands out ids at the INSERT, not at the commit, so CreateComment  *)
(* is two steps with the lock of the video between them.  DeleteComment    *)
(* holds all its locks at once and is one step.  The notices a comment     *)
(* causes are MessageCentre's; the statistic that syncCommentCount leaves  *)
(* in Redis for 15 seconds is not kept here.                               *)
(***************************************************************************)
EXTENDS Naturals, Sequences, FiniteSets

CONSTANTS
    Writer,       \* users
    Film,         \* videos
    AuthorOf,     \* who published a video
    Clerk,        \* comment requests under way
    Slip,         \* idempotency keys
    NoSlip,       \* no Idempotency-Key header
    PageSize,     \* comments on a page (50 in social.go)
    MaxComments   \* bound: ids handed out

ASSUME CommentConstants ==
    /\ AuthorOf \in [Film -> Writer]
    /\ NoSlip \notin Slip
    /\ PageSize \in Nat \ {0}
    /\ MaxComments \in Nat

VARIABLES
    comment,   \* interaction_comment; the id is the position
    total,     \* comment_count of video_stat
    airing,    \* which videos are published
    clerk,     \* requests between two of their statements
    page       \* a reader of one video: its cursor and what it has been sent

commentVars == <<comment, total, airing, clerk, page>>

-----------------------------------------------------------------------------
\* writing: inserted, not committed.  aborted: rolled back; the id is spent.
CommentRow == [user: Writer, film: Film, key: Slip \cup {NoSlip},
               status: {"writing", "aborted", "normal", "deleted"}]

ClerkState == [pc: {"absent", "writing"}, user: Writer, film: Film,
               key: Slip \cup {NoSlip}, id: Nat]

IdleClerk == [pc |-> "idle"]

CommentTypeOK ==
    /\ comment \in Seq(CommentRow)
    /\ total \in [Film -> Nat]
    /\ airing \in SUBSET Film
    /\ clerk \in [Clerk -> ClerkState \cup {IdleClerk}]
    /\ \A c \in Clerk : clerk[c].pc = "writing" => comment[clerk[c].id].status = "writing"
    /\ page \in [film: Film, cursor: Nat, seen: SUBSET DOMAIN comment]

CommentInit ==
    /\ comment = <<>>
    /\ total = [f \in Film |-> 0]
    /\ airing = Film
    /\ clerk = [c \in Clerk |-> IdleClerk]
    /\ page \in [film: Film, cursor: {0}, seen: {{}}]

Visible(f) == {i \in DOMAIN comment : comment[i].film = f /\ comment[i].status = "normal"}

\* Mutant: the video is not locked before the INSERT.
UnlockedNever(f) == TRUE

\* lockPublishedVideo waits for whoever holds the row.
Unlocked(f) == \A i \in DOMAIN comment : comment[i].film = f => comment[i].status # "writing"

\* FindCommentByUserAndIdempotencyKey: deleted ones too.
Found(u, key) ==
    key # NoSlip /\ \E i \in DOMAIN comment :
        /\ comment[i].user = u
        /\ comment[i].key = key
        /\ comment[i].status \in {"normal", "deleted"}

\* The unique index on user and key makes a second INSERT wait for the first.
KeyHeld(u, key) ==
    key # NoSlip /\ \E i \in DOMAIN comment :
        comment[i].user = u /\ comment[i].key = key /\ comment[i].status = "writing"

\* Mutant: the table has no unique index on user and key.
IndexFreeAlways(u, key) == TRUE

IndexFree(u, key) == ~KeyHeld(u, key) /\ ~Found(u, key)

ToIdle(c) == clerk' = [clerk EXCEPT ![c] = IdleClerk]

-----------------------------------------------------------------------------
(* Service.CreateComment over Repository.CreateComment.                    *)

\* No comment for the key yet.  One that is found is the answer, and nothing
\* changes: its notice is not sent again.
CommentLookup(c, u, f, key) ==
    /\ clerk[c].pc = "idle"
    /\ ~Found(u, key)
    /\ clerk' = [clerk EXCEPT ![c] = [pc |-> "absent", user |-> u, film |-> f, key |-> key,
                                      id |-> 0]]
    /\ UNCHANGED <<comment, total, airing, page>>

CommentInsert(c) ==
    LET r == clerk[c] IN
    /\ r.pc = "absent"
    /\ r.film \in airing
    /\ Unlocked(r.film)
    /\ IndexFree(r.user, r.key)
    /\ Len(comment) < MaxComments
    /\ comment' = Append(comment, [user |-> r.user, film |-> r.film, key |-> r.key,
                                   status |-> "writing"])
    /\ clerk' = [clerk EXCEPT ![c].pc = "writing", ![c].id = Len(comment) + 1]
    /\ UNCHANGED <<total, airing, page>>

\* The unique index refuses the row; the id is spent, the earlier comment is the
\* answer and its delta is 0.
CommentDuplicate(c) ==
    LET r == clerk[c] IN
    /\ r.pc = "absent"
    /\ r.film \in airing
    /\ Unlocked(r.film)
    /\ Found(r.user, r.key)
    /\ Len(comment) < MaxComments
    /\ comment' = Append(comment, [user |-> r.user, film |-> r.film, key |-> r.key,
                                   status |-> "aborted"])
    /\ ToIdle(c)
    /\ UNCHANGED <<total, airing, page>>

\* updateVideoStatCounter and the commit.
CommentCommit(c) ==
    LET r == clerk[c] IN
    /\ r.pc = "writing"
    /\ comment' = [comment EXCEPT ![r.id].status = "normal"]
    /\ total' = [total EXCEPT ![r.film] = @ + 1]
    /\ ToIdle(c)
    /\ UNCHANGED <<airing, page>>

CommentRollback(c) ==
    /\ clerk[c].pc = "writing"
    /\ comment' = [comment EXCEPT ![clerk[c].id].status = "aborted"]
    /\ ToIdle(c)
    /\ UNCHANGED <<total, airing, page>>

\* The video is off the air, MySQL fails, or the process dies.
CommentGivesUp(c) ==
    /\ clerk[c].pc = "absent"
    /\ ToIdle(c)
    /\ UNCHANGED <<comment, total, airing, page>>

-----------------------------------------------------------------------------
\* Mutant: a comment that is deleted already is counted off again.
DeletableAgain(u, i) ==
    /\ comment[i].status \in {"normal", "deleted"}
    /\ u = comment[i].user \/ u = AuthorOf[comment[i].film]

\* Deleting a deleted comment changes nothing.  (The role core.go passes is
\* always "user".)
Deletable(u, i) ==
    /\ comment[i].status = "normal"
    /\ u = comment[i].user \/ u = AuthorOf[comment[i].film]

DeleteComment(u, i) ==
    LET f == comment[i].film IN
    /\ Deletable(u, i)
    /\ Unlocked(f)
    /\ comment' = [comment EXCEPT ![i].status = "deleted"]
    /\ total' = [total EXCEPT ![f] = IF @ = 0 THEN 0 ELSE @ - 1]
    /\ UNCHANGED <<airing, clerk, page>>

ModerateFilm(f) ==
    /\ Unlocked(f)
    /\ airing' = IF f \in airing THEN airing \ {f} ELSE airing \cup {f}
    /\ UNCHANGED <<comment, total, clerk, page>>

\* App.comments: ids above the cursor, ascending, at most a page; the client
\* asks again with the last id it has.
ReadPage ==
    LET next == {i \in Visible(page.film) : i > page.cursor}
        sent == {i \in next : Cardinality({j \in next : j <= i}) <= PageSize}
    IN  /\ sent # {}
        /\ page' = [page EXCEPT !.cursor = CHOOSE i \in sent : \A j \in sent : j <= i,
                                !.seen = @ \cup sent]
        /\ UNCHANGED <<comment, total, airing, clerk>>

-----------------------------------------------------------------------------
CommentNext ==
    \/ \E c \in Clerk :
        \/ \E u \in Writer, f \in Film, key \in Slip \cup {NoSlip} : CommentLookup(c, u, f, key)
        \/ CommentInsert(c)
        \/ CommentDuplicate(c)
        \/ CommentCommit(c)
        \/ CommentRollback(c)
        \/ CommentGivesUp(c)
    \/ \E u \in Writer, i \in DOMAIN comment : DeleteComment(u, i)
    \/ \E f \in Film : ModerateFilm(f)
    \/ ReadPage

CommentSpec == CommentInit /\ [][CommentNext]_commentVars

-----------------------------------------------------------------------------
(* Properties.                                                             *)

CommentCounter == INSTANCE Tally WITH Member <- 1..MaxComments, Ledger <- Film,
                                      chosen <- [f \in Film |-> Visible(f)], tally <- total

\* The comments a video shows and its comment_count are a tally: a comment
\* appears or disappears in the step that moves the number, also when creations
\* and deletions of one comment or of many race (CreateComment, DeleteComment).
CommentTally == CommentCounter!TallySpec

\* A key makes one comment for its user, however the retries of a request
\* overlap, and also after that comment was deleted (CreateComment).
CommentOnce ==
    \A i, j \in DOMAIN comment :
        /\ comment[i].user = comment[j].user
        /\ comment[i].key = comment[j].key
        /\ comment[i].key # NoSlip
        /\ comment[i].status # "aborted" /\ comment[j].status # "aborted"
        => i = j

\* A reader who pages by id misses nothing: a comment with an id at or below the
\* cursor that is visible was sent.  Ids are given before the commit, so this
\* rests on the lock of the video (lockPublishedVideo, App.comments).
PagesComplete == \A i \in Visible(page.film) : i <= page.cursor => i \in page.seen
=============================================================================

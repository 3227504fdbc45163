----------------------------- MODULE FollowGraph -----------------------------
(***************************************************************************)
(* Follow relations: the rows of user_follow and the two counters of       *)
(* user_relation_stat (application/relation, persistence/relation).        *)
(*                                                                         *)
(* SetFollow locks the account of the follower and then the account of     *)
(* the target, reads the row and the counters under those locks and        *)
(* writes them back at the commit.  Two users who follow each other lock   *)
(* in opposite orders; InnoDB rolls one of them back.  What follows a      *)
(* commit is FollowingFeed's (the backfill) and MessageCentre's (the       *)
(* notice).                                                                *)
(***************************************************************************)
EXTENDS Integers, FiniteSets

CONSTANTS
    Person,      \* accounts
    Hand,        \* follow requests under way
    NoHand,      \* nobody holds the row
    Note,        \* idempotency keys
    NoNote,      \* no Idempotency-Key header
    MaxFollows   \* bound: requests made

ASSUME FollowConstants ==
    /\ NoHand \notin Hand
    /\ NoNote \notin Note
    /\ MaxFollows \in Nat

VARIABLES
    follow,     \* user_follow, by follower and target
    following,  \* following_count
    followers,  \* follower_count
    normal,     \* accounts whose status is normal
    held,       \* who holds the lock of an account's row
    hand,       \* requests between two of their statements
    follows     \* requests made so far

followVars == <<follow, following, followers, normal, held, hand, follows>>

-----------------------------------------------------------------------------
FollowRow == [status: {"absent", "active", "cancelled"}, key: Note \cup {NoNote}]

\* What a request has been asked, and what it has read under its locks.
HandState == [pc: {"lock user", "lock target", "read", "write"}, user: Person,
              target: Person, active: BOOLEAN, key: Note \cup {NoNote},
              row: FollowRow, following: Int, followers: Int]

IdleHand == [pc |-> "idle"]

NoRow == [status |-> "absent", key |-> NoNote]

FollowTypeOK ==
    /\ follow \in [Person \X Person -> FollowRow]
    /\ following \in [Person -> Nat]
    /\ followers \in [Person -> Nat]
    /\ normal \in SUBSET Person
    /\ held \in [Person -> Hand \cup {NoHand}]
    /\ hand \in [Hand -> HandState \cup {IdleHand}]
    /\ follows \in 0..MaxFollows
    /\ \A p \in Person : held[p] # NoHand => hand[held[p]].pc # "idle"

FollowInit ==
    /\ follow = [p \in Person \X Person |-> NoRow]
    /\ following = [p \in Person |-> 0]
    /\ followers = [p \in Person |-> 0]
    /\ normal = Person
    /\ held = [p \in Person |-> NoHand]
    /\ hand = [h \in Hand |-> IdleHand]
    /\ follows = 0

StatusFromActive(active) == IF active THEN "active" ELSE "cancelled"

ClampCount(n) == IF n < 0 THEN 0 ELSE n

\* Mutant: the transaction ends and its lock on the target stays.
FinishKeepsLock(h) ==
    /\ hand' = [hand EXCEPT ![h] = IdleHand]
    /\ held' = [p \in Person |->
           IF held[p] = h /\ p # hand[h].target THEN NoHand ELSE held[p]]

\* Rolled back or committed: every lock of the transaction is released.
Finish(h) ==
    /\ hand' = [hand EXCEPT ![h] = IdleHand]
    /\ held' = [p \in Person |-> IF held[p] = h THEN NoHand ELSE held[p]]

-----------------------------------------------------------------------------
\* setFollow: NewFollow refuses a user who names himself.
FollowBegin(h, u, t, active, key) ==
    /\ hand[h].pc = "idle"
    /\ u # t
    /\ follows < MaxFollows
    /\ follows' = follows + 1
    /\ hand' = [hand EXCEPT ![h] = [pc |-> "lock user", user |-> u, target |-> t,
                                    active |-> active, key |-> key, row |-> NoRow,
                                    following |-> 0, followers |-> 0]]
    /\ UNCHANGED <<follow, following, followers, normal, held>>

\* The row a request waits for next.
Wanted(r) == IF r.pc = "lock user" THEN r.user ELSE r.target

\* lockNormalUser: SELECT ... FOR UPDATE; an account that is not normal is an
\* error, and the transaction is rolled back.
LockNormalUser(h) ==
    LET r == hand[h] IN
    /\ r.pc \in {"lock user", "lock target"}
    /\ held[Wanted(r)] = NoHand
    /\ \/ /\ Wanted(r) \in normal
          /\ held' = [held EXCEPT ![Wanted(r)] = h]
          /\ hand' = [hand EXCEPT ![h].pc = IF @ = "lock user" THEN "lock target" ELSE "read"]
       \/ /\ Wanted(r) \notin normal
          /\ Finish(h)
    /\ UNCHANGED <<follow, following, followers, normal, follows>>

WaitsFor(h, g) ==
    /\ hand[h].pc \in {"lock user", "lock target"}
    /\ held[Wanted(hand[h])] = g

\* InnoDB finds the cycle and rolls back one of the two; the client is told 503.
DeadlockVictim(h) ==
    /\ \E g \in Hand \ {h} : WaitsFor(h, g) /\ WaitsFor(g, h)
    /\ Finish(h)
    /\ UNCHANGED <<follow, following, followers, normal, follows>>

\* The row and the two counters, read FOR UPDATE (ensureStat has made the rows).
ReadFollow(h) ==
    LET r == hand[h] IN
    /\ r.pc = "read"
    /\ hand' = [hand EXCEPT ![h].pc = "write",
                            ![h].row = follow[<<r.user, r.target>>],
                            ![h].following = following[r.user],
                            ![h].followers = followers[r.target]]
    /\ UNCHANGED <<follow, following, followers, normal, held, follows>>

RepeatedKey(r) == r.row.status # "absent" /\ r.key # NoNote /\ r.row.key = r.key

\* Mutant: a follow counts whenever it is asked for.
FollowDeltaAlways(r) ==
    CASE ~RepeatedKey(r) /\ r.active -> 1
      [] ~RepeatedKey(r) /\ ~r.active /\ r.row.status = "active" -> -1
      [] OTHER -> 0

\* What the counters move by: nothing for a repeated key or an unchanged status.
FollowDelta(r) ==
    CASE ~RepeatedKey(r) /\ r.active /\ r.row.status # "active" -> 1
      [] ~RepeatedKey(r) /\ ~r.active /\ r.row.status = "active" -> -1
      [] OTHER -> 0

\* The counter that was read, moved by delta, goes to the row of p.
UpdateStat(stat, p, read, delta) ==
    IF delta = 0 THEN stat ELSE [stat EXCEPT ![p] = ClampCount(read + delta)]

\* Repository.SetFollow from its decision to its commit.
SetFollow(h) ==
    LET r == hand[h] IN
    /\ r.pc = "write"
    /\ follow' = [follow EXCEPT ![<<r.user, r.target>>] =
           IF RepeatedKey(r) THEN @ ELSE [status |-> StatusFromActive(r.active), key |-> r.key]]
    /\ following' = UpdateStat(following, r.user, r.following, FollowDelta(r))
    /\ followers' = UpdateStat(followers, r.target, r.followers, FollowDelta(r))
    /\ Finish(h)
    /\ UNCHANGED <<normal, follows>>

\* A statement or the commit fails: everything is undone.
FollowFails(h) ==
    /\ hand[h].pc \in {"read", "write"}
    /\ Finish(h)
    /\ UNCHANGED <<follow, following, followers, normal, follows>>

\* adminUpdateUser changes the status of an account under its row's lock.
SetAccountStatus(p) ==
    /\ held[p] = NoHand
    /\ normal' = IF p \in normal THEN normal \ {p} ELSE normal \cup {p}
    /\ UNCHANGED <<follow, following, followers, held, hand, follows>>

FollowNext ==
    \/ \E h \in Hand, u, t \in Person, active \in BOOLEAN, key \in Note \cup {NoNote} :
          FollowBegin(h, u, t, active, key)
    \/ \E h \in Hand :
          LockNormalUser(h) \/ DeadlockVictim(h) \/ ReadFollow(h) \/ SetFollow(h) \/ FollowFails(h)
    \/ \E p \in Person : SetAccountStatus(p)

FollowSpec == FollowInit /\ [][FollowNext]_followVars

-----------------------------------------------------------------------------
FollowingCounter == INSTANCE Tally WITH
    Member <- Person,
    Ledger <- Person,
    chosen <- [p \in Person |-> {t \in Person : follow[<<p, t>>].status = "active"}],
    tally <- following

FollowerCounter == INSTANCE Tally WITH
    Member <- Person,
    Ledger <- Person,
    chosen <- [p \in Person |-> {u \in Person : follow[<<u, p>>].status = "active"}],
    tally <- followers

\* Both counters of user_relation_stat implement Tally: each moves in the commit
\* that changes the row it counts, by one, whatever keys are repeated, whichever
\* requests race for the same account, and whichever of two requests InnoDB rolls
\* back (SetFollow).
FollowTally == FollowingCounter!TallySpec /\ FollowerCounter!TallySpec

=============================================================================

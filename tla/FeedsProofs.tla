----------------------------- MODULE FeedsProofs -----------------------------
(***************************************************************************)
(* Proofs about what users are shown: the follow relations, the following  *)
(* feed, the timeline, the hot ranking, the recommendations and the        *)
(* vectors.                                                                *)
(***************************************************************************)
EXTENDS MCFeeds, OrderLemmas, SequenceTheorems, FiniteSetTheorems, TLAPS

-----------------------------------------------------------------------------
(***************************************************************************)
(* Follow relations.  A request holds the rows it has locked, so what it   *)
(* has read of them is what they are when it writes.                       *)
(***************************************************************************)

FollowRowsInv ==
    /\ follow \in [Person \X Person -> FollowRow]
    /\ following \in [Person -> Nat]
    /\ followers \in [Person -> Nat]
    /\ normal \in SUBSET Person
    /\ held \in [Person -> Hand \cup {NoHand}]
    /\ hand \in [Hand -> HandState \cup {IdleHand}]
    /\ follows \in 0..MaxFollows

\* Who has locked what.
LockInv ==
    /\ \A p \in Person : held[p] # NoHand => hand[held[p]].pc # "idle"
    /\ \A h \in Hand : hand[h].pc # "idle" => hand[h].user # hand[h].target
    /\ \A h \in Hand : hand[h].pc \in {"lock target", "read", "write"} => held[hand[h].user] = h
    /\ \A h \in Hand : hand[h].pc \in {"read", "write"} => held[hand[h].target] = h

\* What was read under the locks is still so.
ReadInv ==
    \A h \in Hand : hand[h].pc = "write" =>
        /\ hand[h].row = follow[<<hand[h].user, hand[h].target>>]
        /\ hand[h].following = following[hand[h].user]
        /\ hand[h].followers = followers[hand[h].target]

FollowInv == FollowRowsInv /\ LockInv /\ ReadInv

\* What a request is made of.
LEMMA HandTypes ==
    ASSUME NEW r \in HandState \cup {IdleHand}
    PROVE  /\ r.pc \in {"idle", "lock user", "lock target", "read", "write"}
           /\ r.pc # "idle" => /\ r \in HandState /\ r.user \in Person /\ r.target \in Person
                               /\ r.active \in BOOLEAN /\ r.key \in Note \cup {NoNote}
                               /\ r.row \in FollowRow /\ r.following \in Int /\ r.followers \in Int
<1>1. CASE r \in HandState
  <2>1. r.pc \in {"lock user", "lock target", "read", "write"}
    BY <1>1 DEF HandState
  <2>2. /\ r.user \in Person /\ r.target \in Person /\ r.key \in Note \cup {NoNote}
        /\ r.row \in FollowRow /\ r.following \in Int /\ r.followers \in Int
    BY <1>1 DEF HandState
  <2>3. r.active \in BOOLEAN
    BY <1>1 DEF HandState
  <2>4. QED
    BY <1>1, <2>1, <2>2, <2>3
<1>2. CASE r = IdleHand
  BY <1>2 DEF IdleHand
<1>3. QED
  BY <1>1, <1>2

\* The relations begin in their invariant.
LEMMA FollowInvInit == FollowInit => FollowInv
<1> SUFFICES ASSUME FollowInit PROVE FollowInv
  OBVIOUS
<1>1. NoRow \in FollowRow
  BY DEF NoRow, FollowRow
<1>2. FollowRowsInv
  BY <1>1, FollowConstants DEF FollowInit, FollowRowsInv
<1>3. \A h \in Hand : hand[h].pc = "idle"
  BY DEF FollowInit, IdleHand
<1>4. \A p \in Person : held[p] = NoHand
  BY DEF FollowInit
<1>5. QED
  BY <1>2, <1>3, <1>4 DEF FollowInv, LockInv, ReadInv

\* The end of a transaction: its request is idle, its locks are gone, and nothing
\* else has moved.
LEMMA Finishes ==
    ASSUME FollowRowsInv, NEW h \in Hand, Finish(h)
    PROVE  /\ hand' \in [Hand -> HandState \cup {IdleHand}]
           /\ held' \in [Person -> Hand \cup {NoHand}]
           /\ hand'[h].pc = "idle"
           /\ \A g \in Hand : g # h => hand'[g] = hand[g]
           /\ \A p \in Person : held'[p] = IF held[p] = h THEN NoHand ELSE held[p]
BY DEF Finish, FollowRowsInv, IdleHand

\* Ending one transaction disturbs no other's locks.
LEMMA LocksAfterFinish ==
    ASSUME FollowRowsInv, LockInv, NEW h \in Hand, Finish(h)
    PROVE  LockInv'
<1>1. /\ hand'[h].pc = "idle" /\ \A g \in Hand : g # h => hand'[g] = hand[g]
      /\ \A p \in Person : held'[p] = IF held[p] = h THEN NoHand ELSE held[p]
  BY Finishes
<1>2. hand \in [Hand -> HandState \cup {IdleHand}] /\ held \in [Person -> Hand \cup {NoHand}]
      /\ NoHand \notin Hand
  BY FollowConstants DEF FollowRowsInv
<1>3. ASSUME NEW p \in Person, held'[p] # NoHand PROVE hand'[held'[p]].pc # "idle"
  <2>1. held[p] # h /\ held'[p] = held[p] /\ held[p] \in Hand
    BY <1>1, <1>2, <1>3
  <2>2. QED
    BY <1>1, <2>1, <1>3 DEF LockInv
<1>4. ASSUME NEW g \in Hand, hand'[g].pc # "idle"
      PROVE  /\ hand'[g].user # hand'[g].target
             /\ hand'[g].pc \in {"lock target", "read", "write"} => held'[hand'[g].user] = g
             /\ hand'[g].pc \in {"read", "write"} => held'[hand'[g].target] = g
  <2>1. g # h /\ hand'[g] = hand[g] /\ hand[g].pc # "idle"
    BY <1>1, <1>4
  <2>2. hand[g].user \in Person /\ hand[g].target \in Person
    BY <1>2, <2>1, HandTypes
  <2>3. QED
    BY <1>1, <2>1, <2>2 DEF LockInv
<1>5. QED
  BY <1>3, <1>4 DEF LockInv

\* Every step of a request keeps the invariant: only who has both locks writes.
LEMMA FollowInvNext == ASSUME FollowInv, [FollowNext]_followVars PROVE FollowInv'
<1>t. /\ FollowRowsInv /\ LockInv /\ ReadInv /\ NoHand \notin Hand /\ NoNote \notin Note
      /\ MaxFollows \in Nat
  BY FollowConstants DEF FollowInv
<1>h. ASSUME NEW h \in Hand
      PROVE  /\ hand[h] \in HandState \cup {IdleHand}
             /\ hand[h].pc \in {"idle", "lock user", "lock target", "read", "write"}
             /\ hand[h].pc # "idle" => /\ hand[h] \in HandState
                   /\ hand[h].user \in Person /\ hand[h].target \in Person
                   /\ hand[h].active \in BOOLEAN /\ hand[h].key \in Note \cup {NoNote}
                   /\ hand[h].row \in FollowRow
                   /\ hand[h].following \in Int /\ hand[h].followers \in Int
  <2>1. hand[h] \in HandState \cup {IdleHand}
    BY <1>t DEF FollowRowsInv
  <2>2. QED
    BY <2>1, HandTypes
<1>f. ASSUME NEW h \in Hand, Finish(h), UNCHANGED <<follow, following, followers, normal, follows>>
      PROVE  FollowInv'
  <2>1. /\ hand' \in [Hand -> HandState \cup {IdleHand}] /\ held' \in [Person -> Hand \cup {NoHand}]
        /\ hand'[h].pc = "idle" /\ \A g \in Hand : g # h => hand'[g] = hand[g]
    BY <1>t, <1>f, Finishes
  <2>2. FollowRowsInv'
    BY <1>t, <1>f, <2>1 DEF FollowRowsInv
  <2>3. LockInv'
    BY <1>t, <1>f, LocksAfterFinish
  <2>4. ReadInv'
    BY <1>t, <1>f, <2>1 DEF ReadInv
  <2>5. QED
    BY <2>2, <2>3, <2>4 DEF FollowInv
<1>1. ASSUME NEW h \in Hand, NEW u \in Person, NEW t \in Person, NEW active \in BOOLEAN,
             NEW key \in Note \cup {NoNote}, FollowBegin(h, u, t, active, key)
      PROVE  FollowInv'
  <2> DEFINE r == [pc |-> "lock user", user |-> u, target |-> t, active |-> active, key |-> key,
                   row |-> NoRow, following |-> 0, followers |-> 0]
  <2>1. r \in HandState /\ r.pc = "lock user" /\ r.user = u /\ r.target = t
    BY DEF HandState, NoRow, FollowRow
  <2> HIDE DEF r
  <2>0. follows \in 0..MaxFollows /\ follows < MaxFollows /\ follows' = follows + 1
    BY <1>t, <1>1 DEF FollowBegin, FollowRowsInv
  <2>a. follows' \in 0..MaxFollows
    BY <1>t, <2>0
  <2>2. /\ u # t /\ follows' \in 0..MaxFollows /\ hand[h].pc = "idle"
        /\ hand' = [hand EXCEPT ![h] = r]
        /\ UNCHANGED <<follow, following, followers, normal, held>>
    BY <1>1, <2>a DEF FollowBegin, r
  <2>3. hand'[h] = r /\ \A g \in Hand : g # h => hand'[g] = hand[g]
    BY <1>t, <2>2 DEF FollowRowsInv
  <2>4. FollowRowsInv'
    BY <1>t, <2>1, <2>2 DEF FollowRowsInv
  <2>5. LockInv'
    BY <1>t, <2>1, <2>2, <2>3 DEF LockInv, FollowRowsInv
  <2>6. ReadInv'
    BY <1>t, <2>1, <2>2, <2>3 DEF ReadInv
  <2>7. QED
    BY <2>4, <2>5, <2>6 DEF FollowInv
<1>2. ASSUME NEW h \in Hand, LockNormalUser(h) PROVE FollowInv'
  <2> DEFINE w == Wanted(hand[h])
             n == IF hand[h].pc = "lock user" THEN "lock target" ELSE "read"
  <2>0. UNCHANGED <<follow, following, followers, normal, follows>>
    BY <1>2 DEF LockNormalUser
  <2>1. CASE Finish(h)
    BY <1>f, <2>0, <2>1
  <2>2. CASE held' = [held EXCEPT ![w] = h] /\ hand' = [hand EXCEPT ![h].pc = n]
    <3>1. hand[h].pc \in {"lock user", "lock target"} /\ held[w] = NoHand
      BY <1>2 DEF LockNormalUser
    <3>2. hand[h] \in HandState /\ hand[h].user \in Person /\ hand[h].target \in Person
      BY <1>h, <3>1
    <3>3. /\ w = IF hand[h].pc = "lock user" THEN hand[h].user ELSE hand[h].target
          /\ w \in Person /\ n \in {"lock target", "read"}
      BY <3>1, <3>2 DEF Wanted
    <3> HIDE DEF w
    <3>4. /\ hand'[h] = [hand[h] EXCEPT !.pc = n] /\ \A g \in Hand : g # h => hand'[g] = hand[g]
          /\ \A p \in Person : held'[p] = IF p = w THEN h ELSE held[p]
      BY <1>t, <2>2, <3>3 DEF FollowRowsInv
    <3>5. /\ hand'[h] \in HandState /\ hand'[h].pc = n /\ hand'[h].user = hand[h].user
          /\ hand'[h].target = hand[h].target
      BY <3>2, <3>3, <3>4 DEF HandState
    <3>6. hand' \in [Hand -> HandState \cup {IdleHand}] /\ held' \in [Person -> Hand \cup {NoHand}]
      BY <1>t, <2>2, <3>3, <3>4, <3>5 DEF FollowRowsInv
    <3>7. FollowRowsInv'
      BY <1>t, <2>0, <3>6 DEF FollowRowsInv
    <3>8. ASSUME NEW p \in Person, held'[p] # NoHand PROVE hand'[held'[p]].pc # "idle"
      <4>1. CASE held'[p] = h
        BY <3>3, <3>5, <4>1
      <4>2. CASE held'[p] # h
        <5>1. held'[p] = held[p] /\ held[p] \in Hand /\ held[p] # h
          BY <1>t, <3>4, <3>8, <4>2 DEF FollowRowsInv
        <5>2. hand[held[p]].pc # "idle"
          BY <1>t, <3>8, <5>1 DEF LockInv
        <5>3. hand'[held[p]] = hand[held[p]]
          BY <3>4, <5>1
        <5>4. QED
          BY <5>1, <5>2, <5>3
      <4>3. QED
        BY <4>1, <4>2
    <3>9. ASSUME NEW g \in Hand, hand'[g].pc # "idle"
          PROVE  /\ hand'[g].user # hand'[g].target
                 /\ hand'[g].pc \in {"lock target", "read", "write"} => held'[hand'[g].user] = g
                 /\ hand'[g].pc \in {"read", "write"} => held'[hand'[g].target] = g
      <4>1. CASE g = h
        <5>1. hand[h].user # hand[h].target
          BY <1>t, <3>1 DEF LockInv
        <5>2. CASE hand[h].pc = "lock user"
          BY <3>2, <3>3, <3>4, <3>5, <4>1, <5>1, <5>2
        <5>3. CASE hand[h].pc = "lock target"
          <6>1. held[hand[h].user] = h
            BY <1>t, <5>3 DEF LockInv
          <6>2. QED
            BY <3>2, <3>3, <3>4, <3>5, <4>1, <5>1, <5>3, <6>1
        <5>4. QED
          BY <3>1, <5>2, <5>3
      <4>2. CASE g # h
        <5>1. hand'[g] = hand[g]
          BY <3>4, <4>2
        <5>2. hand[g].user \in Person /\ hand[g].target \in Person
          BY <1>h, <3>9, <5>1
        <5>3. \A p \in Person : held[p] = g => held'[p] = g
          BY <1>t, <3>1, <3>4
        <5>4. /\ hand[g].user # hand[g].target
              /\ hand[g].pc \in {"lock target", "read", "write"} => held[hand[g].user] = g
              /\ hand[g].pc \in {"read", "write"} => held[hand[g].target] = g
          BY <1>t, <3>9, <5>1 DEF LockInv
        <5>5. QED
          BY <5>1, <5>2, <5>3, <5>4
      <4>3. QED
        BY <4>1, <4>2
    <3>10. LockInv'
      BY <3>8, <3>9 DEF LockInv
    <3>11. ReadInv'
      BY <1>t, <2>0, <3>3, <3>4, <3>5 DEF ReadInv
    <3>12. QED
      BY <3>7, <3>10, <3>11 DEF FollowInv
  <2>3. QED
    BY <1>2, <2>1, <2>2 DEF LockNormalUser
<1>3. ASSUME NEW h \in Hand, DeadlockVictim(h) PROVE FollowInv'
  BY <1>f, <1>3 DEF DeadlockVictim
<1>4. ASSUME NEW h \in Hand, FollowFails(h) PROVE FollowInv'
  BY <1>f, <1>4 DEF FollowFails
<1>5. ASSUME NEW h \in Hand, ReadFollow(h) PROVE FollowInv'
  <2> DEFINE r == hand[h]
             s == [r EXCEPT !.pc = "write", !.row = follow[<<r.user, r.target>>],
                            !.following = following[r.user], !.followers = followers[r.target]]
  <2>1. /\ r.pc = "read" /\ UNCHANGED <<follow, following, followers, normal, held, follows>>
        /\ hand' = [hand EXCEPT ![h] = s]
    BY <1>t, <1>5 DEF ReadFollow, FollowRowsInv
  <2>2. r \in HandState /\ r.user \in Person /\ r.target \in Person
    BY <1>h, <2>1
  <2>3. /\ follow[<<r.user, r.target>>] \in FollowRow /\ following[r.user] \in Int
        /\ followers[r.target] \in Int
    BY <1>t, <2>2 DEF FollowRowsInv
  <2>4. /\ s \in HandState /\ s.pc = "write" /\ s.user = r.user /\ s.target = r.target
        /\ s.row = follow[<<r.user, r.target>>] /\ s.following = following[r.user]
        /\ s.followers = followers[r.target]
    BY <2>2, <2>3 DEF HandState
  <2> HIDE DEF s
  <2>5. hand'[h] = s /\ \A g \in Hand : g # h => hand'[g] = hand[g]
    BY <1>t, <2>1 DEF FollowRowsInv
  <2>6. FollowRowsInv'
    BY <1>t, <2>1, <2>4 DEF FollowRowsInv
  <2>7. LockInv'
    BY <1>t, <2>1, <2>4, <2>5 DEF LockInv, FollowRowsInv
  <2>8. ReadInv'
    BY <1>t, <2>1, <2>4, <2>5 DEF ReadInv
  <2>9. QED
    BY <2>6, <2>7, <2>8 DEF FollowInv
<1>6. ASSUME NEW h \in Hand, SetFollow(h) PROVE FollowInv'
  <2> DEFINE r == hand[h]
             d == FollowDelta(r)
             new == IF RepeatedKey(r) THEN follow[<<r.user, r.target>>]
                    ELSE [status |-> StatusFromActive(r.active), key |-> r.key]
  <2>1. /\ r.pc = "write" /\ Finish(h) /\ UNCHANGED <<normal, follows>>
        /\ follow' = [follow EXCEPT ![<<r.user, r.target>>] = new]
        /\ following' = UpdateStat(following, r.user, r.following, d)
        /\ followers' = UpdateStat(followers, r.target, r.followers, d)
    BY <1>6 DEF SetFollow
  <2>2. /\ r \in HandState /\ r.user \in Person /\ r.target \in Person /\ r.active \in BOOLEAN
        /\ r.key \in Note \cup {NoNote} /\ r.following \in Int /\ r.followers \in Int
    BY <1>h, <2>1
  <2>3. new \in FollowRow
    BY <1>t, <2>2 DEF FollowRow, StatusFromActive, FollowRowsInv
  <2>4. d \in {-1, 0, 1}
    BY DEF FollowDelta
  <2> HIDE DEF new, d
  <2>5. follow' \in [Person \X Person -> FollowRow]
        /\ \A u, t \in Person : u # r.user => follow'[<<u, t>>] = follow[<<u, t>>]
    BY <1>t, <2>1, <2>2, <2>3 DEF FollowRowsInv
  <2>6. ASSUME NEW stat \in [Person -> Nat], NEW p \in Person, NEW i \in Int
        PROVE  /\ UpdateStat(stat, p, i, d) \in [Person -> Nat]
               /\ \A q \in Person : q # p => UpdateStat(stat, p, i, d)[q] = stat[q]
    <3>1. ClampCount(i + d) \in Nat
      BY <2>4 DEF ClampCount
    <3>2. QED
      BY <3>1 DEF UpdateStat
  <2>7. /\ following' \in [Person -> Nat] /\ \A q \in Person : q # r.user => following'[q] = following[q]
        /\ followers' \in [Person -> Nat] /\ \A q \in Person : q # r.target => followers'[q] = followers[q]
    <3>1. following \in [Person -> Nat] /\ followers \in [Person -> Nat]
      BY <1>t DEF FollowRowsInv
    <3>2. /\ following' \in [Person -> Nat]
          /\ \A q \in Person : q # r.user => following'[q] = following[q]
      BY <2>1, <2>2, <2>6, <3>1
    <3>3. /\ followers' \in [Person -> Nat]
          /\ \A q \in Person : q # r.target => followers'[q] = followers[q]
      BY <2>1, <2>2, <2>6, <3>1
    <3>4. QED
      BY <3>2, <3>3
  <2>8. /\ hand' \in [Hand -> HandState \cup {IdleHand}] /\ held' \in [Person -> Hand \cup {NoHand}]
        /\ hand'[h].pc = "idle" /\ \A g \in Hand : g # h => hand'[g] = hand[g]
    BY <1>t, <2>1, Finishes
  <2>9. FollowRowsInv'
    BY <1>t, <2>1, <2>5, <2>7, <2>8 DEF FollowRowsInv
  <2>10. LockInv'
    BY <1>t, <2>1, LocksAfterFinish
  <2>11. ASSUME NEW g \in Hand, hand'[g].pc = "write"
         PROVE  /\ hand'[g].row = follow'[<<hand'[g].user, hand'[g].target>>]
                /\ hand'[g].following = following'[hand'[g].user]
                /\ hand'[g].followers = followers'[hand'[g].target]
    <3>1. g # h /\ hand'[g] = hand[g] /\ hand[g].pc = "write"
      BY <2>8, <2>11
    <3>2. hand[g].user \in Person /\ hand[g].target \in Person
      BY <1>h, <3>1
    <3>3. hand[g].user # r.user /\ hand[g].target # r.target
      BY <1>t, <2>1, <3>1 DEF LockInv
    <3>4. /\ hand[g].row = follow[<<hand[g].user, hand[g].target>>]
          /\ hand[g].following = following[hand[g].user]
          /\ hand[g].followers = followers[hand[g].target]
      BY <1>t, <3>1 DEF ReadInv
    <3>5. /\ follow'[<<hand[g].user, hand[g].target>>] = follow[<<hand[g].user, hand[g].target>>]
          /\ following'[hand[g].user] = following[hand[g].user]
          /\ followers'[hand[g].target] = followers[hand[g].target]
      BY <2>5, <2>7, <3>2, <3>3
    <3>6. QED
      BY <3>1, <3>4, <3>5
  <2>12. ReadInv'
    BY <2>11 DEF ReadInv
  <2>13. QED
    BY <2>9, <2>10, <2>12 DEF FollowInv
<1>7. ASSUME NEW p \in Person, SetAccountStatus(p) PROVE FollowInv'
  BY <1>t, <1>7 DEF SetAccountStatus, FollowInv, FollowRowsInv, LockInv, ReadInv
<1>8. CASE UNCHANGED followVars
  BY <1>t, <1>8 DEF followVars, FollowInv, FollowRowsInv, LockInv, ReadInv
<1>9. QED
  BY <1>1, <1>2, <1>3, <1>4, <1>5, <1>6, <1>7, <1>8 DEF FollowNext

\* The types of the follow relations, and that a lock is held by a request under
\* way (setFollow, lockNormalUser).
THEOREM FollowsTyped == FollowSpec => []FollowTypeOK
<1>1. FollowInv => FollowTypeOK
  BY DEF FollowInv, FollowRowsInv, LockInv, FollowTypeOK
<1>2. QED
  BY <1>1, FollowInvInit, FollowInvNext, PTL DEF FollowSpec

-----------------------------------------------------------------------------
\* Whom a user follows, and who follows a user.
Follows(u, t) == follow[<<u, t>>].status = "active"

Followed(p) == {t \in Person : Follows(p, t)}

FollowedBy(p) == {u \in Person : Follows(u, p)}

\* The counters count the active rows.
CountsInv ==
    \A p \in Person :
        /\ IsFiniteSet(Followed(p)) /\ following[p] = Cardinality(Followed(p))
        /\ IsFiniteSet(FollowedBy(p)) /\ followers[p] = Cardinality(FollowedBy(p))

\* What a committed request does: one row becomes active and both counters move
\* up, or one ceases to be and both move down, or neither a status nor a counter
\* changes, a repeated key included.
LEMMA FollowMoves ==
    ASSUME FollowInv, NEW h \in Hand, SetFollow(h)
    PROVE  LET u == hand[h].user
               t == hand[h].target
           IN  /\ u \in Person /\ t \in Person
               /\ \/ /\ UNCHANGED <<following, followers>>
                     /\ \A p, q \in Person : Follows(p, q)' <=> Follows(p, q)
                  \/ /\ ~Follows(u, t)
                     /\ following' = [following EXCEPT ![u] = @ + 1]
                     /\ followers' = [followers EXCEPT ![t] = @ + 1]
                     /\ \A p, q \in Person :
                           Follows(p, q)' <=> (Follows(p, q) \/ (p = u /\ q = t))
                  \/ /\ Follows(u, t)
                     /\ following' = [following EXCEPT ![u] = ClampCount(@ - 1)]
                     /\ followers' = [followers EXCEPT ![t] = ClampCount(@ - 1)]
                     /\ \A p, q \in Person :
                           Follows(p, q)' <=> (Follows(p, q) /\ ~(p = u /\ q = t))
<1> DEFINE r == hand[h]
           u == r.user
           t == r.target
           d == FollowDelta(r)
           new == IF RepeatedKey(r) THEN follow[<<u, t>>]
                  ELSE [status |-> StatusFromActive(r.active), key |-> r.key]
<1>1. /\ r.pc = "write" /\ follow' = [follow EXCEPT ![<<u, t>>] = new]
      /\ following' = UpdateStat(following, u, r.following, d)
      /\ followers' = UpdateStat(followers, t, r.followers, d)
  BY DEF SetFollow
<1>2. r \in HandState \cup {IdleHand}
  BY DEF FollowInv, FollowRowsInv
<1>3. u \in Person /\ t \in Person /\ r.active \in BOOLEAN /\ r.row \in FollowRow
  BY <1>1, <1>2, HandTypes
<1>4. r.row = follow[<<u, t>>] /\ r.following = following[u] /\ r.followers = followers[t]
  BY <1>1 DEF FollowInv, ReadInv
<1>5. /\ follow \in [Person \X Person -> FollowRow]
      /\ following \in [Person -> Nat] /\ followers \in [Person -> Nat]
  BY DEF FollowInv, FollowRowsInv
<1>6. \/ d = 0 /\ (new.status = "active" <=> r.row.status = "active")
      \/ d = 1 /\ new.status = "active" /\ r.row.status # "active"
      \/ d = -1 /\ new.status # "active" /\ r.row.status = "active"
  <2>1. CASE RepeatedKey(r)
    <3>1. new = follow[<<u, t>>] /\ d = 0
      BY <2>1 DEF FollowDelta
    <3>2. QED
      BY <1>4, <3>1
  <2>2. CASE ~RepeatedKey(r) /\ r.active
    <3>1. new.status = "active"
      BY <2>2 DEF StatusFromActive
    <3>2. d = IF r.row.status # "active" THEN 1 ELSE 0
      BY <2>2 DEF FollowDelta
    <3>3. QED
      BY <3>1, <3>2
  <2>3. CASE ~RepeatedKey(r) /\ ~r.active
    <3>1. new.status = "cancelled"
      BY <2>3 DEF StatusFromActive
    <3>2. d = IF r.row.status = "active" THEN -1 ELSE 0
      BY <2>3 DEF FollowDelta
    <3>3. QED
      BY <3>1, <3>2
  <2>4. QED
    BY <1>3, <2>1, <2>2, <2>3
<1> HIDE DEF new, d
<1>7. \A p, q \in Person : Follows(p, q)' <=>
          IF p = u /\ q = t THEN new.status = "active" ELSE Follows(p, q)
  BY <1>1, <1>3, <1>5 DEF Follows
<1>8. Follows(u, t) <=> r.row.status = "active"
  BY <1>4 DEF Follows
<1>9. CASE d = 0 /\ (new.status = "active" <=> r.row.status = "active")
  <2>1. UNCHANGED <<following, followers>>
    BY <1>1, <1>9 DEF UpdateStat
  <2>2. \A p, q \in Person : Follows(p, q)' <=> Follows(p, q)
    BY <1>7, <1>8, <1>9
  <2>3. QED
    BY <1>3, <2>1, <2>2
<1>10. CASE d = 1 /\ new.status = "active" /\ r.row.status # "active"
  <2>1. following[u] \in Nat /\ followers[t] \in Nat
    BY <1>3, <1>5
  <2>2. ClampCount(following[u] + 1) = following[u] + 1
        /\ ClampCount(followers[t] + 1) = followers[t] + 1
    BY <2>1 DEF ClampCount
  <2>3. /\ following' = [following EXCEPT ![u] = @ + 1]
        /\ followers' = [followers EXCEPT ![t] = @ + 1]
    <3>1. d # 0 /\ following[u] + d = following[u] + 1 /\ followers[t] + d = followers[t] + 1
      BY <1>10, <2>1
    <3>2. QED
      BY <1>1, <1>4, <1>5, <2>2, <3>1 DEF UpdateStat
  <2>4. \A p, q \in Person : Follows(p, q)' <=> (Follows(p, q) \/ (p = u /\ q = t))
    BY <1>7, <1>8, <1>10
  <2>5. QED
    BY <1>3, <1>8, <1>10, <2>3, <2>4
<1>11. CASE d = -1 /\ new.status # "active" /\ r.row.status = "active"
  <2>1. following[u] \in Nat /\ followers[t] \in Nat
    BY <1>3, <1>5
  <2>2. following[u] + d = following[u] - 1 /\ followers[t] + d = followers[t] - 1 /\ d # 0
    BY <1>11, <2>1
  <2>3. /\ following' = [following EXCEPT ![u] = ClampCount(@ - 1)]
        /\ followers' = [followers EXCEPT ![t] = ClampCount(@ - 1)]
    BY <1>1, <1>4, <1>5, <2>2 DEF UpdateStat
  <2>4. \A p, q \in Person : Follows(p, q)' <=> (Follows(p, q) /\ ~(p = u /\ q = t))
    BY <1>7, <1>8, <1>11
  <2>5. QED
    BY <1>3, <1>8, <1>11, <2>3, <2>4
<1>12. QED
  BY <1>6, <1>9, <1>10, <1>11

\* Only a committed request writes the rows and the counters.
LEMMA FollowQuiet ==
    ASSUME [FollowNext]_followVars
    PROVE  UNCHANGED <<follow, following, followers>> \/ \E h \in Hand : SetFollow(h)
BY DEF FollowNext, followVars, FollowBegin, LockNormalUser, DeadlockVictim, ReadFollow, FollowFails,
       SetAccountStatus

\* The sets and numbers of both counters, as they are given to Tally.
FollowedSets == [p \in Person |-> {t \in Person : follow[<<p, t>>].status = "active"}]

FollowerSets == [p \in Person |-> {u \in Person : follow[<<u, p>>].status = "active"}]

\* What a step does to the counters and to what they count.
LEMMA CountsStep ==
    ASSUME FollowInv, CountsInv, [FollowNext]_followVars
    PROVE  /\ CountsInv'
           /\ FollowingCounter!TallyNext \/ UNCHANGED <<FollowedSets, following>>
           /\ FollowerCounter!TallyNext \/ UNCHANGED <<FollowerSets, followers>>
<1>t. following \in [Person -> Nat] /\ followers \in [Person -> Nat]
  BY DEF FollowInv, FollowRowsInv
<1>s. /\ FollowedSets = [p \in Person |-> Followed(p)]
      /\ FollowerSets = [p \in Person |-> FollowedBy(p)]
  BY DEF FollowedSets, FollowerSets, Followed, FollowedBy, Follows
<1>s1. /\ FollowedSets' = [p \in Person |-> Followed(p)']
       /\ FollowerSets' = [p \in Person |-> FollowedBy(p)']
  BY DEF FollowedSets, FollowerSets, Followed, FollowedBy, Follows
<1>1. ASSUME UNCHANGED <<following, followers>>,
             \A p, q \in Person : Follows(p, q)' <=> Follows(p, q)
      PROVE  CountsInv' /\ UNCHANGED <<FollowedSets, following, FollowerSets, followers>>
  <2>1. \A p \in Person : Followed(p)' = Followed(p) /\ FollowedBy(p)' = FollowedBy(p)
    BY <1>1 DEF Followed, FollowedBy
  <2>2. CountsInv'
    BY <1>1, <2>1 DEF CountsInv
  <2>3. QED
    BY <1>1, <1>s, <1>s1, <2>1, <2>2
<1>2. ASSUME NEW u \in Person, NEW t \in Person, ~Follows(u, t),
             following' = [following EXCEPT ![u] = @ + 1],
             followers' = [followers EXCEPT ![t] = @ + 1],
             \A p, q \in Person : Follows(p, q)' <=> (Follows(p, q) \/ (p = u /\ q = t))
      PROVE  CountsInv' /\ FollowingCounter!TallyNext /\ FollowerCounter!TallyNext
  <2>1. t \notin Followed(u) /\ u \notin FollowedBy(t)
    BY <1>2 DEF Followed, FollowedBy
  <2>2. /\ \A p \in Person : Followed(p)' = IF p = u THEN Followed(p) \cup {t} ELSE Followed(p)
        /\ \A p \in Person : FollowedBy(p)' = IF p = t THEN FollowedBy(p) \cup {u} ELSE FollowedBy(p)
    BY <1>2 DEF Followed, FollowedBy
  <2>3. /\ IsFiniteSet(Followed(u) \cup {t})
        /\ Cardinality(Followed(u) \cup {t}) = Cardinality(Followed(u)) + 1
        /\ IsFiniteSet(FollowedBy(t) \cup {u})
        /\ Cardinality(FollowedBy(t) \cup {u}) = Cardinality(FollowedBy(t)) + 1
    BY <2>1, OneMore DEF CountsInv
  <2>4. ASSUME NEW p \in Person
        PROVE  /\ IsFiniteSet(Followed(p)') /\ following'[p] = Cardinality(Followed(p)')
               /\ IsFiniteSet(FollowedBy(p)') /\ followers'[p] = Cardinality(FollowedBy(p)')
    BY <1>t, <1>2, <2>2, <2>3 DEF CountsInv
  <2>5. CountsInv'
    BY <2>4 DEF CountsInv
  <2>6. following' # following /\ followers' # followers
    BY <1>t, <1>2
  <2>7. /\ t \notin FollowedSets[u] /\ FollowedSets' = [FollowedSets EXCEPT ![u] = @ \cup {t}]
        /\ u \notin FollowerSets[t] /\ FollowerSets' = [FollowerSets EXCEPT ![t] = @ \cup {u}]
    BY <1>s, <1>s1, <2>1, <2>2
  <2>8. FollowingCounter!Join(u, t) /\ FollowerCounter!Join(t, u)
    BY <1>2, <2>7 DEF FollowingCounter!Join, FollowerCounter!Join, FollowedSets, FollowerSets
  <2>9. QED
    BY <1>2, <2>5, <2>6, <2>8 DEF FollowingCounter!TallyNext, FollowerCounter!TallyNext
<1>3. ASSUME NEW u \in Person, NEW t \in Person, Follows(u, t),
             following' = [following EXCEPT ![u] = ClampCount(@ - 1)],
             followers' = [followers EXCEPT ![t] = ClampCount(@ - 1)],
             \A p, q \in Person : Follows(p, q)' <=> (Follows(p, q) /\ ~(p = u /\ q = t))
      PROVE  CountsInv' /\ FollowingCounter!TallyNext /\ FollowerCounter!TallyNext
  <2>1. t \in Followed(u) /\ u \in FollowedBy(t)
    BY <1>3 DEF Followed, FollowedBy
  <2>2. /\ \A p \in Person : Followed(p)' = IF p = u THEN Followed(p) \ {t} ELSE Followed(p)
        /\ \A p \in Person : FollowedBy(p)' = IF p = t THEN FollowedBy(p) \ {u} ELSE FollowedBy(p)
    BY <1>3 DEF Followed, FollowedBy
  <2>3. /\ IsFiniteSet(Followed(u) \ {t}) /\ Cardinality(Followed(u)) \in Nat \ {0}
        /\ Cardinality(Followed(u) \ {t}) = Cardinality(Followed(u)) - 1
        /\ IsFiniteSet(FollowedBy(t) \ {u}) /\ Cardinality(FollowedBy(t)) \in Nat \ {0}
        /\ Cardinality(FollowedBy(t) \ {u}) = Cardinality(FollowedBy(t)) - 1
    BY <2>1, OneLess DEF CountsInv
  <2>a. following[u] \in Nat \ {0} /\ followers[t] \in Nat \ {0}
    BY <2>3 DEF CountsInv
  <2>b. ClampCount(following[u] - 1) = following[u] - 1
        /\ ClampCount(followers[t] - 1) = followers[t] - 1
    BY <2>a DEF ClampCount
  <2>c. /\ following' = [following EXCEPT ![u] = @ - 1]
        /\ followers' = [followers EXCEPT ![t] = @ - 1]
    BY <1>t, <1>3, <2>b
  <2>4. ASSUME NEW p \in Person
        PROVE  /\ IsFiniteSet(Followed(p)') /\ following'[p] = Cardinality(Followed(p)')
               /\ IsFiniteSet(FollowedBy(p)') /\ followers'[p] = Cardinality(FollowedBy(p)')
    BY <1>t, <2>c, <2>2, <2>3 DEF CountsInv
  <2>5. CountsInv'
    BY <2>4 DEF CountsInv
  <2>6. following' # following /\ followers' # followers
    BY <1>t, <2>a, <2>c
  <2>7. /\ t \in FollowedSets[u] /\ FollowedSets' = [FollowedSets EXCEPT ![u] = @ \ {t}]
        /\ u \in FollowerSets[t] /\ FollowerSets' = [FollowerSets EXCEPT ![t] = @ \ {u}]
    BY <1>s, <1>s1, <2>1, <2>2
  <2>8. FollowingCounter!Leave(u, t) /\ FollowerCounter!Leave(t, u)
    BY <2>c, <2>7 DEF FollowingCounter!Leave, FollowerCounter!Leave, FollowedSets, FollowerSets
  <2>9. QED
    BY <1>3, <2>5, <2>6, <2>8 DEF FollowingCounter!TallyNext, FollowerCounter!TallyNext
<1>4. CASE UNCHANGED <<follow, following, followers>>
  <2>1. \A p, q \in Person : Follows(p, q)' <=> Follows(p, q)
    BY <1>4 DEF Follows
  <2>2. QED
    BY <1>1, <1>4, <2>1
<1>5. ASSUME NEW h \in Hand, SetFollow(h)
      PROVE  /\ CountsInv'
             /\ FollowingCounter!TallyNext \/ UNCHANGED <<FollowedSets, following>>
             /\ FollowerCounter!TallyNext \/ UNCHANGED <<FollowerSets, followers>>
  <2>1. PICK u, t : u = hand[h].user /\ t = hand[h].target
    OBVIOUS
  <2>2. /\ u \in Person /\ t \in Person
        /\ \/ /\ UNCHANGED <<following, followers>>
              /\ \A p, q \in Person : Follows(p, q)' <=> Follows(p, q)
           \/ /\ ~Follows(u, t)
              /\ following' = [following EXCEPT ![u] = @ + 1]
              /\ followers' = [followers EXCEPT ![t] = @ + 1]
              /\ \A p, q \in Person : Follows(p, q)' <=> (Follows(p, q) \/ (p = u /\ q = t))
           \/ /\ Follows(u, t)
              /\ following' = [following EXCEPT ![u] = ClampCount(@ - 1)]
              /\ followers' = [followers EXCEPT ![t] = ClampCount(@ - 1)]
              /\ \A p, q \in Person : Follows(p, q)' <=> (Follows(p, q) /\ ~(p = u /\ q = t))
    BY <1>5, <2>1, FollowMoves
  <2>3. QED
    BY <1>1, <1>2, <1>3, <2>2
<1>6. QED
  BY <1>4, <1>5, FollowQuiet

\* Both counters of user_relation_stat implement a tally of the active rows,
\* however requests race, repeat their keys, deadlock or fail (SetFollow).
THEOREM FollowsTallied == FollowSpec => FollowTally
<1>1. FollowInit => FollowingCounter!TallyInit /\ FollowerCounter!TallyInit /\ CountsInv
  <2> SUFFICES ASSUME FollowInit
               PROVE  FollowingCounter!TallyInit /\ FollowerCounter!TallyInit /\ CountsInv
    OBVIOUS
  <2>1. \A p, q \in Person : ~Follows(p, q)
    BY DEF FollowInit, NoRow, Follows
  <2>2. \A p \in Person : Followed(p) = {} /\ FollowedBy(p) = {}
    BY <2>1 DEF Followed, FollowedBy
  <2>3. following = [p \in Person |-> 0] /\ followers = [p \in Person |-> 0]
    BY DEF FollowInit
  <2>4. CountsInv
    BY <2>2, <2>3, FS_EmptySet DEF CountsInv
  <2>5. QED
    BY <2>2, <2>3, <2>4 DEF FollowingCounter!TallyInit, FollowerCounter!TallyInit, Followed,
                            FollowedBy, Follows
<1>2. FollowInv /\ CountsInv /\ [FollowNext]_followVars
        => /\ CountsInv'
           /\ [FollowingCounter!TallyNext]_<<[p \in Person |->
                  {t \in Person : follow[<<p, t>>].status = "active"}], following>>
           /\ [FollowerCounter!TallyNext]_<<[p \in Person |->
                  {u \in Person : follow[<<u, p>>].status = "active"}], followers>>
  BY CountsStep DEF FollowedSets, FollowerSets
<1>3. QED
  BY <1>1, <1>2, FollowInvInit, FollowInvNext, PTL
     DEF FollowSpec, FollowTally, FollowingCounter!TallySpec, FollowerCounter!TallySpec

-----------------------------------------------------------------------------
(***************************************************************************)
(* The vector of a video.  The deliveries of the embedding worker and the  *)
(* events behind them make one road, in the order of their texts as long   *)
(* as no event was overtaken.                                              *)
(***************************************************************************)
Text == 0..MaxTexts

Road == taken \o topic

\* Nothing is newer than the text.
BoundInv ==
    /\ \A r \in Relay : relay[r] <= text
    /\ \A i \in 1..Len(Road) : Road[i] <= text
    /\ vector <= text

\* The texts come in their order, and what is stored is no newer than they are.
OrderInv ==
    /\ \A i, j \in 1..Len(Road) : i <= j => Road[i] <= Road[j]
    /\ \A i \in 1..Len(Road) : vector <= Road[i]

\* The present text is owed, on its way or stored.
NewestInv ==
    \/ owed > 0
    \/ \E r \in Relay : relay[r] = text
    \/ \E i \in 1..Len(Road) : Road[i] = text
    \/ vector = text

EmbeddingInv ==
    /\ EmbeddingTypeOK
    /\ BoundInv
    /\ ~overtaken => OrderInv
    /\ ~overtaken /\ public => NewestInv

\* A sequence is its first element and the rest.
LEMMA HeadAndTail ==
    ASSUME NEW S, NEW s \in Seq(S), s # <<>>
    PROVE  /\ Head(s) \in S /\ Head(s) = s[1] /\ Tail(s) \in Seq(S)
           /\ Len(s) \in Nat \ {0} /\ Len(Tail(s)) = Len(s) - 1
           /\ s = <<Head(s)>> \o Tail(s)
<1> DEFINE h == <<Head(s)>>
           t == Tail(s)
<1>0. Len(s) \in Nat \ {0}
  BY EmptySeq
<1>a. Head(s) \in S /\ Head(s) = s[1]
  BY <1>0, HeadTailProperties
<1>b. h \in Seq(S) /\ Len(h) = 1 /\ h[1] = s[1]
  BY <1>a
<1>1. /\ t \in Seq(S) /\ Len(t) = Len(s) - 1 /\ Len(t) \in Nat
      /\ \A i \in 1..Len(t) : t[i] = s[i + 1]
  BY <1>0, HeadTailProperties
<1> HIDE DEF h, t
<1>c. /\ h \o t \in Seq(S) /\ Len(h \o t) = Len(h) + Len(t)
      /\ \A i \in 1..Len(h) + Len(t) : (h \o t)[i] = IF i <= Len(h) THEN h[i] ELSE t[i - Len(h)]
  <2>1. h \in Seq(S) /\ t \in Seq(S)
    BY <1>b, <1>1
  <2>2. QED
    BY <2>1, ConcatProperties, Zenon
<1>d. Len(h) + Len(t) = Len(s)
  BY <1>0, <1>b, <1>1
<1>2. /\ h \o t \in Seq(S) /\ Len(h \o t) = Len(s)
      /\ \A i \in 1..Len(s) : (h \o t)[i] = IF i <= 1 THEN h[i] ELSE t[i - 1]
  BY <1>b, <1>c, <1>d
<1>3. ASSUME NEW i \in 1..Len(s) PROVE s[i] = (h \o t)[i]
  <2>1. CASE i = 1
    BY <1>b, <1>2, <2>1
  <2>2. CASE i # 1
    <3>1. i - 1 \in 1..Len(t) /\ (i - 1) + 1 = i /\ ~(i <= 1)
      BY <1>0, <1>1, <2>2
    <3>2. QED
      BY <1>1, <1>2, <3>1
  <2>3. QED
    BY <2>1, <2>2
<1>4. s = h \o t
  BY <1>2, <1>3, SeqEqual
<1>5. QED
  BY <1>0, <1>a, <1>1, <1>4 DEF h, t

\* Putting the first of the queue behind what is held changes no order.
LEMMA MovedAcross ==
    ASSUME NEW S, NEW a \in Seq(S), NEW b \in Seq(S), b # <<>>
    PROVE  Append(a, Head(b)) \o Tail(b) = a \o b
<1> DEFINE h == Head(b)
           t == Tail(b)
<1>1. h \in S /\ t \in Seq(S) /\ b = <<h>> \o t
  BY HeadAndTail
<1> HIDE DEF h, t
<1>2. <<h>> \in Seq(S) /\ Append(a, h) = a \o <<h>>
  BY <1>1, AppendIsConcat
<1>3. (a \o <<h>>) \o t = a \o (<<h>> \o t)
  BY <1>1, <1>2, ConcatAssociative
<1>4. Append(a, h) \o t = a \o b
  BY <1>1, <1>2, <1>3
<1>5. QED
  BY <1>4 DEF h, t

\* Dropping the first of a sequence drops the first of its concatenation.
LEMMA DroppedFirst ==
    ASSUME NEW S, NEW a \in Seq(S), NEW b \in Seq(S), a # <<>>
    PROVE  LET p == a \o b
               q == Tail(a) \o b
           IN  /\ q \in Seq(S) /\ Len(q) \in Nat /\ Len(p) = Len(q) + 1 /\ p[1] = Head(a)
               /\ \A i \in 1..Len(q) : q[i] = p[i + 1]
<1> DEFINE h == Head(a)
           t == Tail(a)
           p == a \o b
           q == t \o b
<1>1. h \in S /\ t \in Seq(S) /\ a = <<h>> \o t
  BY HeadAndTail
<1>2. q \in Seq(S) /\ <<h>> \in Seq(S) /\ Len(<<h>>) = 1
  BY <1>1, ConcatProperties
<1>3. p = <<h>> \o q
  BY <1>1, <1>2, ConcatAssociative
<1>4. Len(q) \in Nat
  BY <1>2, LenProperties
<1> HIDE DEF h, t, p, q
<1>5. /\ Len(<<h>> \o q) = 1 + Len(q)
      /\ \A i \in 1..1 + Len(q) : (<<h>> \o q)[i] = IF i <= 1 THEN <<h>>[i] ELSE q[i - 1]
  BY <1>2, ConcatProperties
<1>6. Len(p) = Len(q) + 1 /\ p[1] = h
  BY <1>3, <1>4, <1>5
<1>7. ASSUME NEW i \in 1..Len(q) PROVE q[i] = p[i + 1]
  <2>1. i + 1 \in 1..1 + Len(q) /\ ~(i + 1 <= 1) /\ (i + 1) - 1 = i
    BY <1>4
  <2>2. QED
    BY <1>3, <1>5, <2>1
<1>8. QED
  BY <1>2, <1>4, <1>6, <1>7 DEF h, t, p, q

\* What the road is made of.
LEMMA RoadTypes ==
    ASSUME EmbeddingTypeOK
    PROVE  /\ taken \in Seq(Text) /\ topic \in Seq(Text) /\ Road \in Seq(Text)
           /\ Len(Road) \in Nat /\ \A i \in 1..Len(Road) : Road[i] \in Text
           /\ \A i \in 1..Len(Road) : Road[i] \in ToSet(topic) \cup ToSet(taken)
           /\ taken # <<>> => Len(Road) > 0 /\ Road[1] = Head(taken)
           /\ taken = <<>> /\ topic = <<>> => Len(Road) = 0
           /\ text \in Nat /\ vector \in Int /\ MaxTexts \in Nat
<1>1. taken \in Seq(Text) /\ topic \in Seq(Text)
  BY DEF EmbeddingTypeOK, Text
<1>2. /\ Road \in Seq(Text) /\ Len(Road) = Len(taken) + Len(topic)
      /\ Len(taken) \in Nat /\ Len(topic) \in Nat
      /\ \A i \in 1..Len(taken) + Len(topic) :
            Road[i] = IF i <= Len(taken) THEN taken[i] ELSE topic[i - Len(taken)]
  BY <1>1, ConcatProperties, LenProperties DEF Road
<1>3. Len(Road) \in Nat /\ \A i \in 1..Len(Road) : Road[i] \in Text
  BY <1>2, ElementOfSeq
<1>4. ASSUME NEW i \in 1..Len(Road) PROVE Road[i] \in ToSet(topic) \cup ToSet(taken)
  <2>1. CASE i <= Len(taken)
    <3>1. i \in 1..Len(taken) /\ Road[i] = taken[i]
      BY <1>2, <2>1
    <3>2. DOMAIN taken = 1..Len(taken)
      BY <1>1, LenProperties
    <3>3. QED
      BY <3>1, <3>2 DEF ToSet
  <2>2. CASE ~(i <= Len(taken))
    <3>1. i - Len(taken) \in 1..Len(topic) /\ Road[i] = topic[i - Len(taken)]
      BY <1>2, <2>2
    <3>2. DOMAIN topic = 1..Len(topic)
      BY <1>1, LenProperties
    <3>3. QED
      BY <3>1, <3>2 DEF ToSet
  <2>3. QED
    BY <2>1, <2>2
<1>5. ASSUME taken # <<>> PROVE Len(Road) > 0 /\ Road[1] = Head(taken)
  <2>1. Len(taken) \in Nat \ {0} /\ Head(taken) = taken[1]
    BY <1>1, <1>5, HeadAndTail
  <2>2. QED
    BY <1>2, <2>1
<1>6. taken = <<>> /\ topic = <<>> => Len(Road) = 0
  BY <1>1, <1>2, EmptySeq
<1>7. text \in Nat /\ vector \in Int /\ MaxTexts \in Nat
  BY EmbeddingConstants DEF EmbeddingTypeOK, None
<1>8. QED
  BY <1>1, <1>2, <1>3, <1>4, <1>5, <1>6, <1>7

\* A published text is the last of the road.
LEMMA RoadGrows ==
    ASSUME EmbeddingTypeOK, NEW t \in Text, topic' = Append(topic, t), UNCHANGED taken
    PROVE  /\ topic' \in Seq(Text) /\ Len(Road') = Len(Road) + 1 /\ Road'[Len(Road) + 1] = t
           /\ \A i \in 1..Len(Road) : Road'[i] = Road[i]
<1>1. taken \in Seq(Text) /\ topic \in Seq(Text) /\ <<t>> \in Seq(Text)
  BY RoadTypes
<1>2. topic' = topic \o <<t>> /\ topic' \in Seq(Text)
  BY <1>1, AppendIsConcat, AppendProperties
<1>3. Road' = Road \o <<t>>
  BY <1>1, <1>2, ConcatAssociative DEF Road
<1>4. Road \in Seq(Text) /\ Len(Road) \in Nat
  BY RoadTypes
<1>5. Road \o <<t>> = Append(Road, t)
  BY <1>4, AppendIsConcat
<1>6. QED
  BY <1>2, <1>3, <1>4, <1>5, AppendProperties

\* The road stays when a delivery is received, when the worker dies and when the
\* only delivery it holds is given back.
LEMMA RoadStays ==
    ASSUME EmbeddingTypeOK, TakeEvent \/ EmbedderDies \/ (NackEmbedding /\ ~(Len(taken) > 1))
    PROVE  Road' = Road /\ taken' \in Seq(Text) /\ topic' \in Seq(Text)
<1>1. taken \in Seq(Text) /\ topic \in Seq(Text) /\ Road \in Seq(Text)
  BY RoadTypes
<1>2. CASE TakeEvent
  <2>1. topic # <<>> /\ taken' = Append(taken, Head(topic)) /\ topic' = Tail(topic)
    BY <1>2 DEF TakeEvent
  <2>2. Head(topic) \in Text /\ Tail(topic) \in Seq(Text)
    BY <1>1, <2>1, HeadAndTail
  <2>3. taken' \in Seq(Text) /\ topic' \in Seq(Text)
    BY <1>1, <2>1, <2>2, AppendProperties
  <2>4. Road' = Road
    BY <1>1, <2>1, MovedAcross DEF Road
  <2>5. QED
    BY <2>3, <2>4
<1>3. CASE EmbedderDies
  <2>1. topic' = Road /\ taken' = <<>>
    BY <1>3 DEF EmbedderDies, Road
  <2>2. Road' = <<>> \o Road
    BY <2>1 DEF Road
  <2>3. QED
    BY <1>1, <2>1, <2>2, ConcatEmptySeq, EmptySeq
<1>4. CASE NackEmbedding /\ ~(Len(taken) > 1)
  <2> DEFINE h == Head(taken)
             t == Tail(taken)
  <2>1. taken # <<>> /\ topic' = <<h>> \o topic /\ taken' = t
    BY <1>4 DEF NackEmbedding
  <2>2. /\ h \in Text /\ t \in Seq(Text) /\ Len(taken) \in Nat \ {0} /\ Len(t) = Len(taken) - 1
        /\ taken = <<h>> \o t
    BY <1>1, <2>1, HeadAndTail
  <2> HIDE DEF h, t
  <2>3. Len(t) = 0
    BY <1>4, <2>2
  <2>4. t = <<>>
    BY <2>2, <2>3, EmptySeq
  <2>5. <<h>> \in Seq(Text)
    BY <2>2
  <2>6. taken = <<h>>
    BY <2>2, <2>4, <2>5, ConcatEmptySeq
  <2>7. topic' = Road /\ taken' = <<>>
    BY <2>1, <2>4, <2>6 DEF Road
  <2>8. Road' = <<>> \o Road
    BY <2>7 DEF Road
  <2>9. QED
    BY <1>1, <2>7, <2>8, ConcatEmptySeq, EmptySeq
<1>5. QED
  BY <1>2, <1>3, <1>4

\* At the start the event of the first text is owed.
LEMMA EmbeddingInvInit == EmbeddingInit => EmbeddingInv
<1> SUFFICES ASSUME EmbeddingInit PROVE EmbeddingInv
  OBVIOUS
<1>1. EmbeddingTypeOK
  <2>1. /\ text = 0 /\ switches = 0 /\ failures = 0 /\ owed = 1 /\ vector = None
        /\ topic = <<>> /\ taken = <<>> /\ relay = [r \in Relay |-> Idle]
    BY DEF EmbeddingInit
  <2>2. public = TRUE /\ embedded = FALSE /\ overtaken = FALSE
    BY DEF EmbeddingInit
  <2>3. {MaxTexts, MaxStatus, MaxFailures} \subseteq Nat
    BY EmbeddingConstants
  <2>4. /\ text \in 0..MaxTexts /\ switches \in 0..MaxStatus /\ failures \in 0..MaxFailures
        /\ owed \in Nat
    BY <2>1, <2>3
  <2>5. topic \in Seq(0..MaxTexts) /\ taken \in Seq(0..MaxTexts)
    BY <2>1, EmptySeq
  <2>6. relay \in [Relay -> 0..MaxTexts \cup {Idle}] /\ vector \in 0..MaxTexts \cup {None}
    BY <2>1
  <2>7. QED
    BY <2>2, <2>4, <2>5, <2>6, Zenon DEF EmbeddingTypeOK
<1>2. Len(Road) = 0
  BY <1>1, RoadTypes DEF EmbeddingInit
<1>3. BoundInv /\ OrderInv
  BY <1>2 DEF BoundInv, OrderInv, EmbeddingInit, Idle, None
<1>4. NewestInv
  BY DEF NewestInv, EmbeddingInit
<1>5. QED
  BY <1>1, <1>3, <1>4 DEF EmbeddingInv

\* The types hold after a step.
LEMMA EmbeddingTypesNext ==
    ASSUME EmbeddingTypeOK, EmbeddingNext
    PROVE  EmbeddingTypeOK'
<1>c. {MaxTexts, MaxStatus, MaxFailures} \subseteq Nat
  BY EmbeddingConstants
<1>t. /\ taken \in Seq(Text) /\ topic \in Seq(Text) /\ Text = 0..MaxTexts
      /\ relay \in [Relay -> Text \cup {Idle}] /\ text \in Text /\ owed \in Nat
  BY RoadTypes DEF EmbeddingTypeOK, Text
<1>f. Fails => failures' \in 0..MaxFailures
  <2>1. failures \in 0..MaxFailures /\ MaxFailures \in Nat
    BY <1>c DEF EmbeddingTypeOK
  <2>2. QED
    BY <2>1 DEF Fails
<1>1. ASSUME NEW edit \in BOOLEAN, NEW switch \in BOOLEAN, Update(edit, switch)
      PROVE  EmbeddingTypeOK'
  <2>1. text' \in 0..MaxTexts
    BY <1>c, <1>1 DEF Update, EmbeddingTypeOK
  <2>2. switches' \in 0..MaxStatus
    BY <1>c, <1>1 DEF Update, EmbeddingTypeOK
  <2>3. public' \in BOOLEAN
    BY <1>1, Zenon DEF Update, EmbeddingTypeOK
  <2>4. owed' \in Nat
    BY <1>t, <1>1 DEF Update, Owes
  <2>5. UNCHANGED <<relay, topic, taken, embedded, vector, failures, overtaken>>
    BY <1>1 DEF Update
  <2>6. QED
    BY <2>1, <2>2, <2>3, <2>4, <2>5 DEF EmbeddingTypeOK
<1>2. ASSUME NEW r \in Relay, RelayRead(r) PROVE EmbeddingTypeOK'
  <2>1. /\ relay' \in [Relay -> Text \cup {Idle}] /\ owed' \in Nat
        /\ UNCHANGED <<text, public, switches, topic, taken, embedded, vector, failures, overtaken>>
    BY <1>t, <1>2 DEF RelayRead
  <2>2. QED
    BY <1>t, <2>1 DEF EmbeddingTypeOK
<1>3. ASSUME NEW r \in Relay, relay[r] # Idle PROVE Append(topic, relay[r]) \in Seq(Text)
  <2>1. relay[r] \in Text
    BY <1>t, <1>3
  <2>2. QED
    BY <1>t, <2>1, AppendProperties
<1>4. ASSUME NEW r \in Relay, RelayPublish(r) PROVE EmbeddingTypeOK'
  <2>1. /\ relay' \in [Relay -> Text \cup {Idle}] /\ topic' \in Seq(Text) /\ overtaken' \in BOOLEAN
        /\ UNCHANGED <<text, public, switches, owed, taken, embedded, vector, failures>>
    BY <1>t, <1>3, <1>4 DEF RelayPublish
  <2>2. QED
    BY <1>t, <2>1 DEF EmbeddingTypeOK
<1>5. ASSUME NEW r \in Relay, NEW enqueued \in BOOLEAN, RelayFails(r, enqueued)
      PROVE  EmbeddingTypeOK'
  <2>1. /\ relay' \in [Relay -> Text \cup {Idle}] /\ topic' \in Seq(Text)
        /\ overtaken' \in BOOLEAN /\ owed' \in Nat /\ failures' \in 0..MaxFailures
        /\ UNCHANGED <<text, public, switches, taken, embedded, vector>>
    <3>1. /\ relay[r] # Idle /\ Fails
          /\ topic' = IF enqueued THEN Append(topic, relay[r]) ELSE topic
          /\ relay' = [relay EXCEPT ![r] = Idle] /\ owed' = owed + 1
          /\ UNCHANGED <<text, public, switches, taken, embedded, vector>>
      BY <1>5 DEF RelayFails
    <3>2. overtaken' \in BOOLEAN
      BY <1>5, Zenon DEF RelayFails
    <3>3. topic' \in Seq(Text)
      BY <1>t, <1>3, <3>1
    <3>4. relay' \in [Relay -> Text \cup {Idle}] /\ owed' \in Nat
      BY <1>t, <3>1
    <3>5. QED
      BY <1>f, <3>1, <3>2, <3>3, <3>4
  <2>2. QED
    BY <1>t, <2>1 DEF EmbeddingTypeOK
<1>6. ASSUME NEW r \in Relay, RelayGivesUp(r) PROVE EmbeddingTypeOK'
  <2>1. /\ relay' \in [Relay -> Text \cup {Idle}] /\ overtaken' = TRUE
        /\ failures' \in 0..MaxFailures
        /\ UNCHANGED <<text, public, switches, owed, topic, taken, embedded, vector>>
    BY <1>t, <1>f, <1>6 DEF RelayGivesUp
  <2>2. QED
    BY <1>t, <2>1 DEF EmbeddingTypeOK
<1>7. CASE TakeEvent
  <2>1. taken' \in Seq(Text) /\ topic' \in Seq(Text)
    BY <1>7, RoadStays
  <2>2. /\ taken' = Append(taken, Head(topic)) /\ topic # <<>>
        /\ UNCHANGED <<text, public, switches, owed, relay, embedded, vector, failures, overtaken>>
    BY <1>7 DEF TakeEvent
  <2>3. Head(topic) \in Text
    BY <1>t, <2>2, HeadAndTail
  <2>4. taken # <<>> => taken' # <<>> /\ Head(taken') = Head(taken)
    <3> SUFFICES ASSUME taken # <<>> PROVE taken' # <<>> /\ Head(taken') = Head(taken)
      OBVIOUS
    <3>1. Len(taken) \in Nat \ {0} /\ Head(taken) = taken[1]
      BY <1>t, HeadAndTail
    <3>2. Len(taken') = Len(taken) + 1 /\ taken'[1] = taken[1]
      BY <1>t, <2>2, <2>3, <3>1, AppendProperties
    <3>3. taken' # <<>>
      BY <3>1, <3>2
    <3>4. QED
      BY <2>1, <3>1, <3>2, <3>3, HeadAndTail
  <2>5. QED
    BY <1>t, <2>1, <2>2, <2>4 DEF EmbeddingTypeOK
<1>8. CASE GenerateForPublishedVideo
  <2>1. /\ taken # <<>> /\ vector' = Head(taken) /\ embedded' = TRUE
        /\ UNCHANGED <<text, public, switches, owed, relay, topic, taken, failures, overtaken>>
    BY <1>8 DEF GenerateForPublishedVideo, SaveVideoEmbedding
  <2>2. Head(taken) \in Text
    BY <1>t, <2>1, HeadAndTail
  <2>3. QED
    BY <1>t, <2>1, <2>2 DEF EmbeddingTypeOK
<1>9. CASE AckEmbedding
  <2>1. /\ taken # <<>> /\ taken' = Tail(taken) /\ embedded' = FALSE
        /\ UNCHANGED <<text, public, switches, owed, relay, topic, vector, failures, overtaken>>
    BY <1>9 DEF AckEmbedding, EmbeddingTypeOK
  <2>2. Tail(taken) \in Seq(Text)
    BY <1>t, <2>1, HeadAndTail
  <2>3. QED
    BY <1>t, <2>1, <2>2 DEF EmbeddingTypeOK
<1>10. CASE NackEmbedding
  <2>1. /\ taken # <<>> /\ ~embedded /\ topic' = <<Head(taken)>> \o topic /\ taken' = Tail(taken)
        /\ failures' \in 0..MaxFailures /\ overtaken' \in BOOLEAN
        /\ UNCHANGED <<text, public, switches, owed, relay, embedded, vector>>
    <3>1. /\ overtaken \in BOOLEAN /\ overtaken' = (overtaken \/ Len(taken) > 1)
      BY <1>10 DEF NackEmbedding, EmbeddingTypeOK
    <3>2. overtaken' \in BOOLEAN
      BY <3>1, Zenon
    <3>3. QED
      BY <1>f, <1>10, <3>2 DEF NackEmbedding
  <2>2. Tail(taken) \in Seq(Text) /\ Head(taken) \in Text
    BY <1>t, <2>1, HeadAndTail
  <2>3. <<Head(taken)>> \in Seq(Text)
    BY <2>2
  <2>4. topic' \in Seq(Text)
    BY <1>t, <2>1, <2>3, ConcatProperties
  <2>5. QED
    BY <1>t, <2>1, <2>2, <2>4 DEF EmbeddingTypeOK
<1>11. CASE EmbedderDies
  <2>1. taken' \in Seq(Text) /\ topic' \in Seq(Text)
    BY <1>11, RoadStays
  <2>2. /\ embedded' = FALSE /\ failures' \in 0..MaxFailures
        /\ UNCHANGED <<text, public, switches, owed, relay, vector, overtaken>>
    BY <1>f, <1>11 DEF EmbedderDies
  <2>3. QED
    BY <1>t, <2>1, <2>2 DEF EmbeddingTypeOK
<1>12. QED
  BY <1>1, <1>2, <1>4, <1>5, <1>6, <1>7, <1>8, <1>9, <1>10, <1>11 DEF EmbeddingNext

\* A text joins the road: it is not passed if it is as new as all that is there.
LEMMA GrownRoad ==
    ASSUME EmbeddingInv, NEW t \in Text, t <= text, topic' = Append(topic, t),
           UNCHANGED <<taken, vector, text>>
    PROVE  /\ \A i \in 1..Len(Road') : Road'[i] <= text'
           /\ OrderInv /\ ~Passed(t) => OrderInv'
           /\ \E i \in 1..Len(Road') : Road'[i] = t
           /\ \A i \in 1..Len(Road) : i \in 1..Len(Road') /\ Road'[i] = Road[i]
<1>1. /\ Len(Road') = Len(Road) + 1 /\ Road'[Len(Road) + 1] = t
      /\ \A i \in 1..Len(Road) : Road'[i] = Road[i]
  BY RoadGrows DEF EmbeddingInv
<1>2. /\ Len(Road) \in Nat /\ \A i \in 1..Len(Road) : Road[i] \in Text
      /\ \A i \in 1..Len(Road) : Road[i] \in ToSet(topic) \cup ToSet(taken)
      /\ text \in Nat /\ vector \in Int /\ MaxTexts \in Nat
  BY RoadTypes DEF EmbeddingInv
<1>3. \A i \in 1..Len(Road') : i \in 1..Len(Road) \/ i = Len(Road) + 1
  BY <1>1, <1>2
<1>4. \A i \in 1..Len(Road) : Road[i] <= text
  BY DEF EmbeddingInv, BoundInv
<1>5. \A i \in 1..Len(Road') : Road'[i] <= text'
  BY <1>1, <1>3, <1>4
<1>6. Len(Road) + 1 \in 1..Len(Road') /\ \A i \in 1..Len(Road) : i \in 1..Len(Road')
  BY <1>1, <1>2
<1>7. ASSUME OrderInv, ~Passed(t) PROVE OrderInv'
  <2>1. \A i \in 1..Len(Road) : Road[i] <= t
    <3> SUFFICES ASSUME NEW i \in 1..Len(Road) PROVE Road[i] <= t
      OBVIOUS
    <3>1. ~(Road[i] > t)
      BY <1>2, <1>7 DEF Passed
    <3>2. Road[i] \in Int /\ t \in Int
      BY <1>2 DEF Text
    <3>3. QED
      BY <3>1, <3>2
  <2>2. vector <= t
    <3>1. ~(vector > t)
      BY <1>7 DEF Passed
    <3>2. t \in Int /\ vector \in Int
      BY <1>2 DEF Text
    <3>3. QED
      BY <3>1, <3>2
  <2>3. ASSUME NEW i \in 1..Len(Road'), NEW j \in 1..Len(Road'), i <= j
        PROVE  Road'[i] <= Road'[j]
    <3>1. CASE i \in 1..Len(Road) /\ j \in 1..Len(Road)
      BY <1>1, <1>7, <2>3, <3>1 DEF OrderInv
    <3>2. CASE i \in 1..Len(Road) /\ j = Len(Road) + 1
      BY <1>1, <2>1, <3>2
    <3>3. CASE i = Len(Road) + 1 /\ j = Len(Road) + 1
      BY <1>1, <3>3 DEF Text
    <3>4. ~(i = Len(Road) + 1 /\ j \in 1..Len(Road))
      BY <1>2, <2>3
    <3>5. QED
      BY <1>3, <3>1, <3>2, <3>3, <3>4
  <2>4. ASSUME NEW i \in 1..Len(Road') PROVE vector' <= Road'[i]
    <3>1. CASE i \in 1..Len(Road)
      BY <1>1, <1>7, <3>1 DEF OrderInv
    <3>2. CASE i = Len(Road) + 1
      BY <1>1, <2>2, <3>2
    <3>3. QED
      BY <1>3, <3>1, <3>2
  <2>5. QED
    BY <2>3, <2>4 DEF OrderInv
<1>8. QED
  BY <1>1, <1>5, <1>6, <1>7

\* A step of the worker that leaves the road, the vector and the texts alone.
LEMMA QuietRoad ==
    ASSUME EmbeddingInv, Road' = Road, UNCHANGED <<text, public, owed, relay, vector>>,
           overtaken => overtaken'
    PROVE  /\ BoundInv' /\ (~overtaken' => OrderInv') /\ (~overtaken' /\ public' => NewestInv')
<1>1. BoundInv'
  BY DEF EmbeddingInv, BoundInv
<1>2. ASSUME ~overtaken' PROVE OrderInv' /\ (public' => NewestInv')
  <2>1. OrderInv /\ (public => NewestInv)
    BY <1>2 DEF EmbeddingInv
  <2>2. OrderInv'
    BY <2>1 DEF OrderInv
  <2>3. NewestInv => NewestInv'
    BY DEF NewestInv
  <2>4. public' => public
    OBVIOUS
  <2>5. QED
    BY <2>1, <2>2, <2>3, <2>4
<1>3. QED
  BY <1>1, <1>2

\* The step of the invariant.
LEMMA EmbeddingInvNext == ASSUME EmbeddingInv, [EmbeddingNext]_embeddingVars PROVE EmbeddingInv'
<1> USE DEF Text
<1>t. /\ EmbeddingTypeOK /\ BoundInv /\ taken \in Seq(Text) /\ topic \in Seq(Text)
      /\ Road \in Seq(Text) /\ Len(Road) \in Nat
      /\ \A i \in 1..Len(Road) : Road[i] \in Text
      /\ text \in Nat /\ vector \in Int /\ MaxTexts \in Nat
      /\ taken # <<>> => Len(Road) > 0 /\ Road[1] = Head(taken)
  BY RoadTypes DEF EmbeddingInv
<1>r. /\ relay \in [Relay -> Text \cup {Idle}] /\ owed \in Nat /\ text \in Text
      /\ \A r \in Relay : relay[r] \in Int
  BY <1>t DEF EmbeddingTypeOK, Idle
<1>n. ASSUME EmbeddingTypeOK', BoundInv', ~overtaken' => OrderInv', ~overtaken' /\ public' => NewestInv'
      PROVE  EmbeddingInv'
  BY <1>n DEF EmbeddingInv
<1>o. EmbeddingNext => EmbeddingTypeOK'
  BY <1>t, EmbeddingTypesNext
<1>1. ASSUME NEW edit \in BOOLEAN, NEW switch \in BOOLEAN, Update(edit, switch)
      PROVE  BoundInv' /\ (~overtaken' => OrderInv') /\ (~overtaken' /\ public' => NewestInv')
  <2>1. /\ text' \in Nat /\ text <= text' /\ UNCHANGED <<relay, topic, taken, vector, overtaken>>
        /\ owed' = owed + Owes(public, public')
    BY <1>t, <1>1 DEF Update
  <2>2. Road' = Road
    BY <2>1 DEF Road
  <2>3. BoundInv'
    <3>1. \A r \in Relay : relay'[r] <= text'
      BY <1>t, <1>r, <2>1 DEF BoundInv
    <3>2. \A i \in 1..Len(Road') : Road'[i] <= text'
      BY <1>t, <2>1, <2>2 DEF BoundInv
    <3>3. vector' <= text'
      BY <1>t, <2>1 DEF BoundInv
    <3>4. QED
      BY <3>1, <3>2, <3>3 DEF BoundInv
  <2>4. ~overtaken' => OrderInv'
    BY <2>1, <2>2 DEF EmbeddingInv, OrderInv
  <2>5. public' => NewestInv'
    BY <1>r, <2>1 DEF NewestInv, Owes
  <2>6. QED
    BY <2>3, <2>4, <2>5
<1>2. ASSUME NEW r \in Relay, RelayRead(r)
      PROVE  BoundInv' /\ (~overtaken' => OrderInv') /\ (~overtaken' /\ public' => NewestInv')
  <2>1. /\ relay' = [relay EXCEPT ![r] = IF public THEN text ELSE Idle]
        /\ UNCHANGED <<text, public, topic, taken, vector, overtaken>>
    BY <1>2 DEF RelayRead
  <2>2. Road' = Road
    BY <2>1 DEF Road
  <2>3. \A q \in Relay : relay'[q] <= text'
    BY <1>t, <1>r, <2>1 DEF BoundInv, Idle
  <2>4. BoundInv'
    BY <1>t, <2>1, <2>2, <2>3 DEF BoundInv
  <2>5. ~overtaken' => OrderInv'
    BY <2>1, <2>2 DEF EmbeddingInv, OrderInv
  <2>6. ASSUME public' PROVE NewestInv'
    <3>1. relay'[r] = text'
      BY <1>r, <2>1, <2>6
    <3>2. QED
      BY <3>1 DEF NewestInv
  <2>7. QED
    BY <2>4, <2>5, <2>6
<1>3. ASSUME NEW r \in Relay, relay[r] # Idle, topic' = Append(topic, relay[r]),
             relay' = [relay EXCEPT ![r] = Idle], overtaken' = (overtaken \/ Passed(relay[r])),
             UNCHANGED <<text, public, taken, vector>>, owed' \in {owed, owed + 1}
      PROVE  BoundInv' /\ (~overtaken' => OrderInv') /\ (~overtaken' /\ public' => NewestInv')
  <2>0. PICK t \in Text : t = relay[r] /\ t <= text
    BY <1>t, <1>r, <1>3 DEF BoundInv
  <2>1. /\ \A i \in 1..Len(Road') : Road'[i] <= text'
        /\ OrderInv /\ ~Passed(t) => OrderInv'
        /\ \E i \in 1..Len(Road') : Road'[i] = t
        /\ \A i \in 1..Len(Road) : i \in 1..Len(Road') /\ Road'[i] = Road[i]
    BY <1>3, <2>0, GrownRoad
  <2>2. \A q \in Relay : relay'[q] <= text'
    BY <1>t, <1>r, <1>3 DEF BoundInv, Idle
  <2>3. BoundInv'
    BY <1>t, <1>3, <2>1, <2>2 DEF BoundInv
  <2>4. ASSUME ~overtaken' PROVE OrderInv'
    BY <1>3, <2>0, <2>1, <2>4 DEF EmbeddingInv
  <2>5. ASSUME ~overtaken', public' PROVE NewestInv'
    <3>1. NewestInv
      BY <1>3, <2>5 DEF EmbeddingInv
    <3>2. CASE owed > 0
      BY <1>r, <1>3, <3>2 DEF NewestInv
    <3>3. CASE \E q \in Relay : relay[q] = text
      <4>1. PICK q \in Relay : relay[q] = text
        BY <3>3
      <4>2. CASE q = r
        BY <1>3, <2>0, <2>1, <4>1, <4>2 DEF NewestInv
      <4>3. CASE q # r
        <5>1. relay'[q] = text'
          BY <1>r, <1>3, <4>1, <4>3
        <5>2. QED
          BY <5>1 DEF NewestInv
      <4>4. QED
        BY <4>2, <4>3
    <3>4. CASE \E i \in 1..Len(Road) : Road[i] = text
      BY <1>3, <2>1, <3>4 DEF NewestInv
    <3>5. CASE vector = text
      BY <1>3, <3>5 DEF NewestInv
    <3>6. QED
      BY <3>1, <3>2, <3>3, <3>4, <3>5 DEF NewestInv
  <2>6. QED
    BY <2>3, <2>4, <2>5
<1>4. ASSUME NEW r \in Relay, RelayPublish(r)
      PROVE  BoundInv' /\ (~overtaken' => OrderInv') /\ (~overtaken' /\ public' => NewestInv')
  BY <1>3, <1>4 DEF RelayPublish
<1>5. ASSUME NEW r \in Relay, NEW enqueued \in BOOLEAN, RelayFails(r, enqueued)
      PROVE  BoundInv' /\ (~overtaken' => OrderInv') /\ (~overtaken' /\ public' => NewestInv')
  <2>1. CASE enqueued
    BY <1>3, <1>5, <2>1 DEF RelayFails
  <2>2. CASE ~enqueued
    <3>1. /\ relay' = [relay EXCEPT ![r] = Idle] /\ owed' = owed + 1 /\ overtaken' = overtaken
          /\ UNCHANGED <<text, public, topic, taken, vector>>
      BY <1>t, <1>5, <2>2, Zenon DEF RelayFails, EmbeddingTypeOK
    <3>2. Road' = Road
      BY <3>1 DEF Road
    <3>3. \A q \in Relay : relay'[q] <= text'
      BY <1>t, <1>r, <3>1 DEF BoundInv, Idle
    <3>4. BoundInv'
      BY <1>t, <3>1, <3>2, <3>3 DEF BoundInv
    <3>5. ~overtaken' => OrderInv'
      BY <3>1, <3>2 DEF EmbeddingInv, OrderInv
    <3>6. NewestInv'
      BY <1>r, <3>1 DEF NewestInv
    <3>7. QED
      BY <3>4, <3>5, <3>6
  <2>3. QED
    BY <2>1, <2>2
<1>6. ASSUME NEW r \in Relay, RelayGivesUp(r)
      PROVE  BoundInv' /\ (~overtaken' => OrderInv') /\ (~overtaken' /\ public' => NewestInv')
  <2>1. /\ relay' = [relay EXCEPT ![r] = Idle] /\ overtaken'
        /\ UNCHANGED <<text, topic, taken, vector>>
    BY <1>6 DEF RelayGivesUp
  <2>2. Road' = Road
    BY <2>1 DEF Road
  <2>3. \A q \in Relay : relay'[q] <= text'
    BY <1>t, <1>r, <2>1 DEF BoundInv, Idle
  <2>4. BoundInv'
    BY <1>t, <2>1, <2>2, <2>3 DEF BoundInv
  <2>5. QED
    BY <2>1, <2>4
<1>7. ASSUME TakeEvent \/ EmbedderDies \/ (NackEmbedding /\ ~(Len(taken) > 1))
      PROVE  BoundInv' /\ (~overtaken' => OrderInv') /\ (~overtaken' /\ public' => NewestInv')
  <2>1. Road' = Road
    BY <1>t, <1>7, RoadStays
  <2>2. UNCHANGED <<text, public, owed, relay, vector>> /\ (overtaken => overtaken')
    <3>1. UNCHANGED <<text, public, owed, relay, vector>>
      BY <1>7 DEF TakeEvent, EmbedderDies, NackEmbedding
    <3>2. overtaken => overtaken'
      BY <1>7, Zenon DEF TakeEvent, EmbedderDies, NackEmbedding
    <3>3. QED
      BY <3>1, <3>2
  <2>3. QED
    BY <2>1, <2>2, QuietRoad
<1>8. ASSUME NackEmbedding, Len(taken) > 1
      PROVE  BoundInv' /\ (~overtaken' => OrderInv') /\ (~overtaken' /\ public' => NewestInv')
  <2> DEFINE h == Head(taken)
             t == Tail(taken)
  <2>1. /\ taken # <<>> /\ topic' = <<h>> \o topic /\ taken' = t /\ overtaken'
        /\ UNCHANGED <<text, relay, vector>>
    BY <1>8 DEF NackEmbedding
  <2>2. /\ h \in Text /\ t \in Seq(Text) /\ h = Head(taken)
    BY <1>t, <2>1, HeadAndTail
  <2>3. /\ Len(t \o topic) \in Nat /\ Len(Road) = Len(t \o topic) + 1
        /\ \A i \in 1..Len(t \o topic) : (t \o topic)[i] = Road[i + 1]
    BY <1>t, <2>1, DroppedFirst DEF Road
  <2>4. h <= text
    BY <1>t, <2>1 DEF BoundInv
  <2> HIDE DEF h, t
  <2>5. <<h>> \in Seq(Text) /\ Len(<<h>>) = 1 /\ <<h>>[1] = h
    BY <2>2
  <2>6. ASSUME NEW i \in 1..Len(Road') PROVE Road'[i] <= text
    <3> DEFINE b == <<h>> \o topic
    <3>1. /\ b \in Seq(Text) /\ Len(b) = 1 + Len(topic) /\ Len(topic) \in Nat /\ Len(t) \in Nat
          /\ \A j \in 1..1 + Len(topic) : b[j] = IF j <= 1 THEN h ELSE topic[j - 1]
      BY <1>t, <2>2, <2>5, ConcatProperties, LenProperties
    <3>2. /\ Len(t \o topic) = Len(t) + Len(topic)
          /\ \A j \in 1..Len(t) + Len(topic) :
                (t \o topic)[j] = IF j <= Len(t) THEN t[j] ELSE topic[j - Len(t)]
      BY <1>t, <2>2, ConcatProperties
    <3> HIDE DEF b
    <3>3. Road' = t \o b
      BY <2>1 DEF Road, b
    <3>4. /\ Len(t \o b) = Len(t) + Len(b)
          /\ \A j \in 1..Len(t) + Len(b) : (t \o b)[j] = IF j <= Len(t) THEN t[j] ELSE b[j - Len(t)]
      BY <2>2, <3>1, ConcatProperties
    <3>5. \A j \in 1..Len(t) + Len(topic) : (t \o topic)[j] <= text
      <4> SUFFICES ASSUME NEW j \in 1..Len(t) + Len(topic) PROVE (t \o topic)[j] <= text
        OBVIOUS
      <4>1. j \in 1..Len(t \o topic) /\ j + 1 \in 1..Len(Road)
        BY <2>3, <3>1, <3>2
      <4>2. QED
        BY <1>t, <2>3, <4>1 DEF BoundInv
    <3>6. CASE i <= Len(t)
      <4>1. i \in 1..Len(t) + Len(b) /\ i \in 1..Len(t) + Len(topic)
        BY <3>1, <3>3, <3>4, <3>6
      <4>2. QED
        BY <3>2, <3>3, <3>4, <3>5, <3>6, <4>1
    <3>7. CASE i = Len(t) + 1
      <4>1. i \in 1..Len(t) + Len(b) /\ ~(i <= Len(t)) /\ i - Len(t) = 1 /\ 1 \in 1..1 + Len(topic)
        BY <3>1, <3>3, <3>4, <3>7
      <4>2. Road'[i] = b[1] /\ b[1] = h
        BY <3>1, <3>3, <3>4, <4>1
      <4>3. QED
        BY <2>4, <4>2
    <3>8. CASE i > Len(t) + 1
      <4>1. PICK k \in Nat : k = i - Len(t)
        BY <3>1, <3>8
      <4>2. /\ i \in 1..Len(t) + Len(b) /\ ~(i <= Len(t)) /\ k \in 1..1 + Len(topic) /\ ~(k <= 1)
            /\ i - 1 \in 1..Len(t) + Len(topic) /\ ~(i - 1 <= Len(t)) /\ (i - 1) - Len(t) = k - 1
        BY <3>1, <3>3, <3>4, <3>8, <4>1
      <4>3. Road'[i] = b[k] /\ b[k] = topic[k - 1] /\ (t \o topic)[i - 1] = topic[k - 1]
        BY <3>1, <3>2, <3>3, <3>4, <4>1, <4>2
      <4>4. QED
        BY <3>5, <4>2, <4>3
    <3>9. QED
      BY <3>1, <3>3, <3>4, <3>6, <3>7, <3>8
  <2>7. BoundInv'
    BY <1>t, <2>1, <2>6 DEF BoundInv
  <2>8. QED
    BY <2>1, <2>7
<1>9. ASSUME GenerateForPublishedVideo
      PROVE  BoundInv' /\ (~overtaken' => OrderInv') /\ (~overtaken' /\ public' => NewestInv')
  <2>1. /\ taken # <<>> /\ vector' = Head(taken)
        /\ UNCHANGED <<text, public, owed, relay, topic, taken, overtaken>>
    BY <1>9 DEF GenerateForPublishedVideo, SaveVideoEmbedding
  <2>2. Road' = Road /\ Len(Road) > 0 /\ vector' = Road[1] /\ 1 \in 1..Len(Road)
    BY <1>t, <2>1 DEF Road
  <2>3. BoundInv'
    <3>1. vector' <= text'
      BY <1>t, <2>1, <2>2 DEF BoundInv
    <3>2. QED
      BY <1>t, <2>1, <2>2, <3>1 DEF BoundInv
  <2>4. ASSUME ~overtaken' PROVE OrderInv'
    <3>1. OrderInv
      BY <2>1, <2>4 DEF EmbeddingInv
    <3>2. \A i \in 1..Len(Road) : Road[1] <= Road[i]
      BY <1>t, <2>2, <3>1 DEF OrderInv
    <3>3. QED
      BY <2>2, <3>1, <3>2 DEF OrderInv
  <2>5. ASSUME ~overtaken', public' PROVE NewestInv'
    <3>1. NewestInv /\ OrderInv
      BY <2>1, <2>5 DEF EmbeddingInv
    <3>2. CASE vector = text
      <4>1. text <= Road[1] /\ Road[1] <= text /\ Road[1] \in Int
        BY <1>t, <2>2, <3>1, <3>2 DEF OrderInv, BoundInv
      <4>2. QED
        BY <1>t, <2>1, <2>2, <4>1 DEF NewestInv
    <3>3. CASE vector # text
      BY <2>1, <2>2, <3>1, <3>3 DEF NewestInv
    <3>4. QED
      BY <3>2, <3>3
  <2>6. QED
    BY <2>3, <2>4, <2>5
<1>10. ASSUME AckEmbedding
       PROVE  BoundInv' /\ (~overtaken' => OrderInv') /\ (~overtaken' /\ public' => NewestInv')
  <2>1. /\ taken # <<>> /\ vector = Head(taken) /\ taken' = Tail(taken)
        /\ UNCHANGED <<text, public, owed, relay, topic, vector, overtaken>>
    BY <1>t, <1>10 DEF AckEmbedding, EmbeddingTypeOK
  <2>2. /\ Len(Road') \in Nat /\ Len(Road) = Len(Road') + 1
        /\ \A i \in 1..Len(Road') : Road'[i] = Road[i + 1]
    BY <1>t, <2>1, DroppedFirst DEF Road
  <2>3. \A i \in 1..Len(Road') : i + 1 \in 1..Len(Road)
    BY <1>t, <2>2
  <2>4. BoundInv'
    BY <1>t, <2>1, <2>2, <2>3 DEF BoundInv
  <2>5. ASSUME ~overtaken' PROVE OrderInv'
    <3>1. OrderInv
      BY <2>1, <2>5 DEF EmbeddingInv
    <3>2. ASSUME NEW i \in 1..Len(Road'), NEW j \in 1..Len(Road'), i <= j
          PROVE  Road'[i] <= Road'[j]
      <4>1. i + 1 <= j + 1
        BY <3>2
      <4>2. QED
        BY <2>2, <2>3, <3>1, <4>1 DEF OrderInv
    <3>3. \A i \in 1..Len(Road') : vector' <= Road'[i]
      BY <2>1, <2>2, <2>3, <3>1 DEF OrderInv
    <3>4. QED
      BY <3>2, <3>3 DEF OrderInv
  <2>6. ASSUME ~overtaken', public' PROVE NewestInv'
    <3>1. NewestInv
      BY <2>1, <2>6 DEF EmbeddingInv
    <3>2. CASE \E i \in 1..Len(Road) : Road[i] = text
      <4>1. PICK i \in 1..Len(Road) : Road[i] = text
        BY <3>2
      <4>2. CASE i = 1
        BY <1>t, <2>1, <4>1, <4>2 DEF NewestInv
      <4>3. CASE i # 1
        <5>1. i - 1 \in 1..Len(Road') /\ (i - 1) + 1 = i
          BY <1>t, <2>2, <4>3
        <5>2. Road'[i - 1] = text'
          BY <2>1, <2>2, <4>1, <5>1
        <5>3. QED
          BY <5>1, <5>2 DEF NewestInv
      <4>4. QED
        BY <4>2, <4>3
    <3>3. CASE ~ \E i \in 1..Len(Road) : Road[i] = text
      BY <2>1, <3>1, <3>3 DEF NewestInv
    <3>4. QED
      BY <3>2, <3>3
  <2>7. QED
    BY <2>4, <2>5, <2>6
<1>11. CASE UNCHANGED embeddingVars
  <2>1. UNCHANGED Road /\ UNCHANGED embeddingVars
    BY <1>11 DEF embeddingVars, Road
  <2>2. BoundInv' /\ (~overtaken' => OrderInv') /\ (~overtaken' /\ public' => NewestInv')
    BY <2>1, QuietRoad DEF embeddingVars
  <2>3. EmbeddingTypeOK'
    BY <1>t, <1>11 DEF EmbeddingTypeOK, embeddingVars
  <2>4. QED
    BY <1>n, <2>2, <2>3
<1>12. CASE EmbeddingNext
  <2>1. BoundInv' /\ (~overtaken' => OrderInv') /\ (~overtaken' /\ public' => NewestInv')
    BY <1>12, <1>1, <1>2, <1>4, <1>5, <1>6, <1>7, <1>8, <1>9, <1>10 DEF EmbeddingNext
  <2>2. QED
    BY <1>n, <1>o, <1>12, <2>1
<1>13. QED
  BY <1>11, <1>12

\* The types of the vector's pipeline.
THEOREM VectorsTyped == EmbeddingSpec => []EmbeddingTypeOK
<1>1. EmbeddingInv => EmbeddingTypeOK
  BY DEF EmbeddingInv
<1>2. QED
  BY <1>1, EmbeddingInvInit, EmbeddingInvNext, PTL DEF EmbeddingSpec

\* When every event has been handled, a published video has the vector of its
\* present text, unless an event was lost or passed by a newer one
\* (adminUpdateVideo, processEvent, GenerateForPublishedVideo).
THEOREM VectorsCurrent == EmbeddingSpec => []VectorCurrent
<1>1. EmbeddingInv => VectorCurrent
  <2> SUFFICES ASSUME EmbeddingInv, Settled, public, ~overtaken PROVE vector = text
    BY DEF VectorCurrent
  <2>1. Len(Road) = 0 /\ text \in Nat
    BY RoadTypes DEF EmbeddingInv, Settled
  <2>2. ~(owed > 0) /\ \A r \in Relay : relay[r] # text
    BY <2>1 DEF Settled, Idle
  <2>3. NewestInv
    BY DEF EmbeddingInv
  <2>4. QED
    BY <2>1, <2>2, <2>3 DEF NewestInv
<1>2. QED
  BY <1>1, EmbeddingInvInit, EmbeddingInvNext, PTL DEF EmbeddingSpec

-----------------------------------------------------------------------------
(***************************************************************************)
(* The timeline.  A page is as good as the day it was read: what it leaves *)
(* out between its cursors was not published all along.                    *)
(***************************************************************************)

\* Page pg continues cursor c; the videos of kept were published all along.
Whole(c, pg, kept) ==
    /\ pg \in Page
    /\ pg.next <= c
    /\ \A p \in pg.items : pg.next <= p /\ p < c
    /\ \A p \in kept : p < c /\ (pg.more => pg.next <= p) => p \in pg.items

\* What a reader x has been shown: nothing below its cursor, and all that was
\* published all along above it.
Informed(x, now, kept) ==
    /\ x.pc \in Reading => now \subseteq x.since
    /\ x.answer \subseteq x.since
    /\ \A p \in x.shown : x.cursor <= p
    /\ \A p \in kept : x.pc = "end" \/ x.cursor <= p => p \in x.shown
    /\ x.pc \in {"assemble", "recheck"} => Whole(x.cursor, x.page, kept)

PageInv ==
    /\ PageTypeOK
    /\ \A c \in Cursor : sheet[c] # NoSheet => Whole(c, sheet[c], settled)
    /\ \A c \in Cursor : flight[c].pc = "store" => Whole(c, flight[c].page, settled)
    /\ \A g \in Guest : Informed(guest[g], posted, settled)

\* What Min chooses.
LEMMA MinIs ==
    ASSUME NEW S, S \subseteq Nat, S # {}
    PROVE  Min(S) \in S /\ \A y \in S : Min(S) <= y
<1>1. \E x \in S : \A y \in S : x =< y
  BY SmallestExists
<1>2. QED
  BY <1>1 DEF Min

\* The first page begins above every post.
LEMMA CursorTypes ==
    /\ Top \in Nat /\ Cursor \subseteq Nat /\ Top \in Cursor
    /\ \A p \in Post : p < Top
    /\ Post \subseteq Nat /\ Post \subseteq Cursor
<1>1. Post \subseteq Nat /\ IsFiniteSet(Post) /\ Post # {}
  BY PageConstants
<1>2. \E x \in Post : \A y \in Post : y <= x
  BY <1>1, LargestExists
<1>3. \E x \in Post : \A y \in Post : x >= y
  BY <1>1, <1>2
<1>4. Max(Post) \in Post /\ \A y \in Post : Max(Post) >= y
  BY <1>3 DEF Max
<1>5. PICK m \in Nat : m = Max(Post) /\ \A y \in Post : m >= y
  BY <1>1, <1>4
<1>6. Top \in Nat /\ \A p \in Post : p < Top
  <2>1. Top = m + 1
    BY <1>5 DEF Top
  <2>2. QED
    BY <1>1, <1>5, <2>1
<1>7. QED
  BY <1>1, <1>6 DEF Cursor

\* ListTimelinePage: the newest rows below the cursor, one more than the limit.
LEMMA RowsRead ==
    ASSUME NEW B, B \subseteq Post,
           NEW rows, rows = {p \in B : Cardinality({q \in B : q > p}) <= PageLimit}
    PROVE  /\ rows \subseteq B /\ IsFiniteSet(rows) /\ Cardinality(rows) \in Nat
           /\ \A p \in rows, q \in B : p <= q => q \in rows
           /\ Cardinality(rows) <= PageLimit => rows = B
<1> DEFINE Over(p) == {q \in B : q > p}
<1>0. /\ Post \subseteq Nat /\ B \subseteq Nat /\ IsFiniteSet(B) /\ PageLimit \in Nat
  BY PageConstants, FS_Subset
<1>1. \A T : T \subseteq B => IsFiniteSet(T) /\ Cardinality(T) \in Nat
  BY <1>0, FS_Subset, FS_CardinalityType
<1>2. rows \subseteq B /\ \A p \in B : p \in rows <=> Cardinality(Over(p)) <= PageLimit
  OBVIOUS
<1>3. \A p \in B : Over(p) \subseteq B
  OBVIOUS
<1>4. ASSUME NEW p \in rows, NEW q \in B, p <= q PROVE q \in rows
  <2>1. Over(q) \subseteq Over(p)
    <3> SUFFICES ASSUME NEW x \in Over(q) PROVE x \in Over(p)
      OBVIOUS
    <3>1. x \in B /\ x > q /\ x \in Nat /\ q \in Nat /\ p \in Nat
      BY <1>0, <1>2
    <3>2. x > p
      BY <1>4, <3>1
    <3>3. QED
      BY <3>1, <3>2
  <2>2. Cardinality(Over(q)) <= Cardinality(Over(p))
    BY <1>1, <1>2, <1>3, <2>1, FS_Subset
  <2>3. Cardinality(Over(q)) \in Nat /\ Cardinality(Over(p)) \in Nat
    BY <1>1, <1>2, <1>3
  <2> HIDE DEF Over
  <2>4. Cardinality(Over(q)) <= PageLimit
    BY <1>0, <1>2, <2>2, <2>3
  <2>5. QED
    BY <1>2, <2>4
<1>5. ASSUME Cardinality(rows) <= PageLimit PROVE rows = B
  <2>1. SUFFICES ASSUME B \ rows # {} PROVE FALSE
    BY <1>2
  <2>2. PICK q \in B \ rows : \A x \in B \ rows : x <= q
    <3>1. B \ rows \subseteq Nat /\ IsFiniteSet(B \ rows)
      BY <1>0, <1>1
    <3>2. QED
      BY <2>1, <3>1, LargestExists
  <2>3. Over(q) \subseteq rows
    <3> SUFFICES ASSUME NEW x \in Over(q), x \notin rows PROVE FALSE
      OBVIOUS
    <3>1. x \in B \ rows /\ x > q /\ x \in Nat /\ q \in Nat
      BY <1>0
    <3>2. QED
      BY <2>2, <3>1
  <2>4. Cardinality(Over(q)) <= Cardinality(rows)
    BY <1>1, <1>2, <2>3, FS_Subset
  <2>5. Cardinality(Over(q)) \in Nat /\ Cardinality(rows) \in Nat
    BY <1>1, <1>2, <1>3
  <2> HIDE DEF Over
  <2>6. Cardinality(Over(q)) <= PageLimit
    BY <1>0, <1>5, <2>4, <2>5
  <2>7. QED
    BY <1>2, <2>2, <2>6
<1>6. QED
  BY <1>1, <1>2, <1>4, <1>5

\* The page listPageFromRepo makes leaves nothing out: all between its cursors,
\* and all below the first of them if there is no more.
LEMMA PageRead ==
    ASSUME PageTypeOK, NEW c \in Cursor
    PROVE  Whole(c, PageFromRepo(c), settled)
<1> DEFINE rows == {p \in Below(c) : Cardinality({q \in Below(c) : q > p}) <= PageLimit}
           full == Cardinality(rows) > PageLimit
           items == IF full THEN rows \ {Min(rows)} ELSE rows
           next == IF items = {} THEN c ELSE Min(items)
           pg == PageFromRepo(c)
<1>0. /\ posted \subseteq Post /\ settled \subseteq posted /\ Post \subseteq Nat /\ c \in Nat
      /\ Cursor \subseteq Nat /\ Post \subseteq Cursor /\ PageLimit \in Nat \ {0}
  BY CursorTypes, PageConstants DEF PageTypeOK
<1>1. Below(c) \subseteq Post /\ \A p \in Post : p \in Below(c) <=> p \in posted /\ p < c
  BY <1>0 DEF Below
<1>2. pg = [cached |-> TRUE, items |-> items, more |-> full, next |-> next]
  BY DEF PageFromRepo, HasMore
<1>3. /\ rows \subseteq Below(c) /\ IsFiniteSet(rows) /\ Cardinality(rows) \in Nat
      /\ \A p \in rows, q \in Below(c) : p <= q => q \in rows
      /\ Cardinality(rows) <= PageLimit => rows = Below(c)
  BY <1>1, RowsRead
<1> HIDE DEF rows
<1>4. ~full => rows = Below(c)
  BY <1>0, <1>3
<1>5. ASSUME full PROVE /\ Min(rows) \in rows /\ \A y \in rows : Min(rows) <= y
                        /\ items = rows \ {Min(rows)} /\ items # {}
  <2>1. rows # {}
    BY <1>0, <1>3, <1>5, FS_EmptySet
  <2>2. Min(rows) \in rows /\ \A y \in rows : Min(rows) <= y
    BY <1>0, <1>1, <1>3, <2>1, MinIs
  <2>3. rows # {Min(rows)}
    <3>1. Cardinality({Min(rows)}) = 1
      BY FS_Singleton
    <3>2. Cardinality(rows) # 1
      BY <1>0, <1>3, <1>5
    <3>3. QED
      BY <3>1, <3>2
  <2>4. QED
    BY <1>5, <2>2, <2>3
<1>6. items \subseteq rows /\ full \in BOOLEAN
  OBVIOUS
<1> HIDE DEF items, full
<1>7. items \subseteq Post /\ items \subseteq Nat /\ \A p \in items : p < c /\ p \in Nat
  BY <1>0, <1>1, <1>3, <1>6
<1>8. items # {} => next \in items /\ \A y \in items : next <= y
  BY <1>7, MinIs
<1>9. next \in Cursor /\ next \in Nat /\ next <= c /\ \A p \in items : next <= p /\ p < c
  <2>1. CASE items = {}
    BY <1>0, <2>1
  <2>2. CASE items # {}
    <3>1. next \in items /\ \A y \in items : next <= y
      BY <1>8, <2>2
    <3>2. next < c /\ next \in Nat /\ next \in Cursor
      BY <1>0, <1>7, <3>1
    <3> HIDE DEF next
    <3>3. QED
      BY <1>0, <1>7, <3>1, <3>2
  <2>3. QED
    BY <2>1, <2>2
<1>10. ASSUME NEW p \in settled, p < c, full => next <= p PROVE p \in items
  <2>1. p \in Below(c) /\ p \in Nat
    BY <1>0, <1>1, <1>10
  <2>2. CASE ~full
    BY <1>4, <2>1, <2>2 DEF items
  <2>3. CASE full
    <3>1. /\ Min(rows) \in rows /\ \A y \in rows : Min(rows) <= y
          /\ items = rows \ {Min(rows)} /\ items # {}
      BY <1>5, <2>3
    <3>2. next \in items /\ next <= p
      BY <1>8, <1>10, <2>3, <3>1
    <3>3. p \in rows
      BY <1>3, <1>6, <2>1, <3>2
    <3>4. Min(rows) <= next /\ Min(rows) # next /\ Min(rows) \in Nat /\ next \in Nat
      BY <1>0, <1>1, <1>3, <1>9, <3>1, <3>2
    <3>5. p # Min(rows)
      BY <2>1, <3>2, <3>4
    <3>6. QED
      BY <3>1, <3>3, <3>5
  <2>4. QED
    BY <2>2, <2>3
<1> HIDE DEF next, pg
<1>11. pg \in Page /\ pg.items = items /\ pg.more = full /\ pg.next = next
  BY <1>2, <1>6, <1>7, <1>9 DEF Page
<1>12. Whole(c, pg, settled)
  BY <1>9, <1>10, <1>11 DEF Whole
<1>13. QED
  BY <1>12 DEF pg

-----------------------------------------------------------------------------
\* What readers, pages and loads are made of.
LEMMA GuestTypes ==
    ASSUME NEW x \in GuestState
    PROVE  /\ x.pc \in {"idle", "end", "join", "assemble", "recheck"} /\ x.cursor \in Cursor
           /\ x.page \in Page \cup {NoSheet} /\ x.shown \subseteq Post /\ x.answer \subseteq Post
           /\ x.since \subseteq Post
BY DEF GuestState, Reading

\* A cached page is told from none, a load under way from none.
LEMMA SheetTypes ==
    /\ NoSheet \notin Page /\ NoFlight \notin Flight
    /\ \A f \in Flight \cup {NoFlight} :
          /\ f # NoFlight <=> f \in Flight
          /\ f.pc \in {"none", "again", "load", "store"} /\ (f.pc = "none" <=> f = NoFlight)
          /\ f \in Flight => f.page \in Page \cup {NoSheet}
<1>1. NoSheet \notin Page
  BY DEF NoSheet, Page
<1>2. \A f \in Flight : f.pc \in {"again", "load", "store"} /\ f.page \in Page \cup {NoSheet}
  BY DEF Flight
<1>3. NoFlight.pc = "none"
  BY DEF NoFlight
<1>4. NoFlight \notin Flight
  BY <1>2, <1>3
<1>5. QED
  BY <1>1, <1>2, <1>3, <1>4

\* A video that is no longer published all along is asked for by no page and owed
\* to no reader.
LEMMA FewerSettled ==
    ASSUME NEW S, NEW T, T \subseteq S
    PROVE  /\ \A c, pg : Whole(c, pg, S) => Whole(c, pg, T)
           /\ \A x, now : Informed(x, now, S) => Informed(x, now, T)
<1>1. ASSUME NEW c, NEW pg, Whole(c, pg, S) PROVE Whole(c, pg, T)
  BY <1>1 DEF Whole
<1>2. ASSUME NEW x, NEW now, Informed(x, now, S) PROVE Informed(x, now, T)
  <2>1. x.pc \in {"assemble", "recheck"} => Whole(x.cursor, x.page, T)
    BY <1>1, <1>2 DEF Informed
  <2>2. QED
    BY <1>2, <2>1 DEF Informed
<1>3. QED
  BY <1>1, <1>2

\* The cache is empty at the start and nobody has been shown anything.
LEMMA PageInvInit == PageInit => PageInv
<1> SUFFICES ASSUME PageInit PROVE PageInv
  OBVIOUS
<1> DEFINE x == [pc |-> "idle", cursor |-> Top, page |-> NoSheet, shown |-> {},
                 answer |-> {}, since |-> {}]
<1>1. x \in GuestState
  BY CursorTypes DEF GuestState
<1>2. /\ x.pc = "idle" /\ x.cursor = Top /\ x.shown = {} /\ x.answer = {}
      /\ x.since = {} /\ guest = [g \in Guest |-> x]
  BY DEF PageInit
<1> HIDE DEF x
<1>3. PageTypeOK
  BY <1>1, <1>2, PageConstants DEF PageInit, PageTypeOK
<1>4. \A p \in settled : p \in Nat /\ p < Top
  BY CursorTypes DEF PageInit
<1>5. \A p \in settled : ~(Top <= p)
  BY <1>4, CursorTypes
<1>6. Informed(x, posted, settled)
  BY <1>2, <1>5 DEF Informed, Reading
<1>7. \A c \in Cursor : sheet[c] = NoSheet /\ flight[c].pc = "none"
  BY DEF PageInit, NoFlight
<1>8. QED
  BY <1>2, <1>3, <1>6, <1>7 DEF PageInv

\* An edit of a video leaves the pages as they are; it is no longer owed.
LEMMA PageEdit ==
    ASSUME PageInv, NEW v \in Post, Edit(v)
    PROVE  PageInv'
<1>t. /\ PageTypeOK /\ MaxEdits \in Nat /\ edits \in 0..MaxEdits
      /\ posted \subseteq Post /\ settled \subseteq posted
      /\ sheet \in [Cursor -> Page \cup {NoSheet}] /\ guest \in [Guest -> GuestState]
      /\ flight \in [Cursor -> Flight \cup {NoFlight}]
  BY PageConstants DEF PageInv, PageTypeOK
<1>1. /\ edits < MaxEdits /\ edits' = edits + 1 /\ settled' = settled \ {v}
      /\ posted' = IF v \in posted THEN posted \ {v} ELSE posted \cup {v}
      /\ guest' = [g \in Guest |-> [guest[g] EXCEPT !.since =
                       IF guest[g].pc \in Reading THEN @ \cup posted' ELSE @]]
      /\ UNCHANGED <<sheet, flight>>
  BY DEF Edit
<1>2. edits' \in 0..MaxEdits
  BY <1>t, <1>1
<1>3. posted' \subseteq Post /\ settled' \subseteq posted' /\ settled' \subseteq settled
  BY <1>t, <1>1
<1>4. ASSUME NEW g \in Guest
      PROVE  /\ guest'[g] \in GuestState /\ guest'[g].pc = guest[g].pc
             /\ guest'[g].cursor = guest[g].cursor
             /\ Informed(guest'[g], posted', settled')
  <2> DEFINE x == guest[g]
             n == IF x.pc \in Reading THEN x.since \cup posted' ELSE x.since
             y == [x EXCEPT !.since = n]
  <2>1. x \in GuestState /\ guest'[g] = y
    BY <1>t, <1>1
  <2>2. n \subseteq Post /\ x.since \subseteq n /\ (x.pc \in Reading => posted' \subseteq n)
    BY <1>3, <2>1, GuestTypes
  <2> HIDE DEF n
  <2>3. /\ y \in GuestState /\ y.since = n /\ y.pc = x.pc /\ y.cursor = x.cursor
        /\ y.page = x.page /\ y.shown = x.shown /\ y.answer = x.answer
    BY <2>1, <2>2 DEF GuestState
  <2> HIDE DEF y
  <2>4. Informed(x, posted, settled')
    BY <1>3, FewerSettled DEF PageInv
  <2>5. Informed(y, posted', settled')
    BY <2>2, <2>3, <2>4 DEF Informed
  <2>6. QED
    BY <2>1, <2>3, <2>5
<1>5. guest' \in [Guest -> GuestState]
  BY <1>1, <1>4
<1>6. PageTypeOK'
  BY <1>t, <1>1, <1>2, <1>3, <1>4, <1>5 DEF PageTypeOK
<1>7. \A c \in Cursor : sheet'[c] # NoSheet => Whole(c, sheet'[c], settled')
  BY <1>1, <1>3, FewerSettled DEF PageInv
<1>8. \A c \in Cursor : flight'[c].pc = "store" => Whole(c, flight'[c].page, settled')
  BY <1>1, <1>3, FewerSettled DEF PageInv
<1>9. QED
  BY <1>4, <1>6, <1>7, <1>8 DEF PageInv

\* One reader moves.
LEMMA PageReader ==
    ASSUME PageInv, NEW g \in Guest, NEW y \in GuestState, guest' = [guest EXCEPT ![g] = y],
           Informed(y, posted, settled), UNCHANGED <<posted, sheet, edits, settled>>,
           \/ UNCHANGED flight /\ (y.pc = "join" => flight[y.cursor] # NoFlight)
           \/ \E c \in Cursor :
                 /\ flight' = [flight EXCEPT ![c] = IF @ = NoFlight
                                  THEN [pc |-> "again", page |-> NoSheet] ELSE @]
                 /\ y.cursor = c
    PROVE  PageInv'
<1>t. /\ PageTypeOK /\ guest \in [Guest -> GuestState]
      /\ flight \in [Cursor -> Flight \cup {NoFlight}]
  BY DEF PageInv, PageTypeOK
<1>1. /\ guest'[g] = y /\ guest' \in [Guest -> GuestState]
      /\ \A h \in Guest : h # g => guest'[h] = guest[h]
  BY <1>t
<1>2. \A h \in Guest : Informed(guest'[h], posted', settled')
  BY <1>1 DEF PageInv
<1> DEFINE new == [pc |-> "again", page |-> NoSheet]
<1>3. new \in Flight /\ new.pc = "again" /\ new # NoFlight
  BY SheetTypes DEF Flight
<1> HIDE DEF new
<1>4. /\ flight' \in [Cursor -> Flight \cup {NoFlight}]
      /\ \A c \in Cursor : flight[c] # NoFlight => flight'[c] = flight[c]
      /\ \A c \in Cursor : flight'[c] = flight[c] \/ flight'[c] = new
      /\ y.pc = "join" => flight'[y.cursor] # NoFlight
  <2>1. CASE UNCHANGED flight /\ (y.pc = "join" => flight[y.cursor] # NoFlight)
    BY <1>t, <2>1
  <2>2. CASE \E c \in Cursor :
                 /\ flight' = [flight EXCEPT ![c] = IF @ = NoFlight
                                  THEN [pc |-> "again", page |-> NoSheet] ELSE @]
                 /\ y.cursor = c
    <3>1. PICK c \in Cursor : /\ flight' = [flight EXCEPT ![c] = IF @ = NoFlight THEN new ELSE @]
                              /\ y.cursor = c
      BY <2>2 DEF new
    <3>2. QED
      BY <1>t, <1>3, <3>1
  <2>3. QED
    BY <2>1, <2>2
<1>5. \A h \in Guest : guest'[h].pc = "join" => flight'[guest'[h].cursor] # NoFlight
  <2> SUFFICES ASSUME NEW h \in Guest, guest'[h].pc = "join"
               PROVE  flight'[guest'[h].cursor] # NoFlight
    OBVIOUS
  <2>1. CASE h = g
    BY <1>1, <1>4, <2>1
  <2>2. CASE h # g
    <3>1. guest'[h] = guest[h] /\ guest[h] \in GuestState
      BY <1>t, <1>1, <2>2
    <3>2. guest[h].cursor \in Cursor /\ flight[guest[h].cursor] # NoFlight
      BY <1>t, <3>1, GuestTypes DEF PageTypeOK
    <3>3. QED
      BY <1>4, <3>1, <3>2
  <2>3. QED
    BY <2>1, <2>2
<1>6. PageTypeOK'
  BY <1>t, <1>1, <1>4, <1>5 DEF PageTypeOK
<1>7. \A c \in Cursor : flight'[c].pc = "store" => Whole(c, flight'[c].page, settled')
  BY <1>3, <1>4 DEF PageInv
<1>8. QED
  BY <1>2, <1>6, <1>7 DEF PageInv

\* The load of a page lands, well or not: everyone who waits moves on.
LEMMA PageLands ==
    ASSUME PageInv, NEW c \in Cursor, flight' = [flight EXCEPT ![c] = NoFlight],
           NEW pc \in {"assemble", "idle"}, NEW pg \in Page \cup {NoSheet},
           pc = "assemble" => Whole(c, pg, settled),
           guest' = [g \in Guest |->
               IF guest[g].pc = "join" /\ guest[g].cursor = c
               THEN [guest[g] EXCEPT !.pc = pc,
                                     !.page = IF pc = "assemble" THEN pg ELSE @]
               ELSE guest[g]],
           sheet' = sheet \/ (pg \in Page /\ sheet' = [sheet EXCEPT ![c] = pg] /\ pc = "assemble"),
           UNCHANGED <<posted, edits, settled>>
    PROVE  PageInv'
<1>t. /\ PageTypeOK /\ guest \in [Guest -> GuestState]
      /\ flight \in [Cursor -> Flight \cup {NoFlight}] /\ sheet \in [Cursor -> Page \cup {NoSheet}]
  BY DEF PageInv, PageTypeOK
<1>1. /\ flight' \in [Cursor -> Flight \cup {NoFlight}] /\ flight'[c] = NoFlight
      /\ \A d \in Cursor : d # c => flight'[d] = flight[d]
  BY <1>t
<1>2. /\ sheet' \in [Cursor -> Page \cup {NoSheet}]
      /\ \A d \in Cursor : sheet'[d] # NoSheet => Whole(d, sheet'[d], settled')
  <2>1. CASE sheet' = sheet
    BY <1>t, <2>1 DEF PageInv
  <2>2. CASE pg \in Page /\ sheet' = [sheet EXCEPT ![c] = pg] /\ pc = "assemble"
    BY <1>t, <2>2 DEF PageInv
  <2>3. QED
    BY <2>1, <2>2
<1>3. ASSUME NEW g \in Guest
      PROVE  /\ guest'[g] \in GuestState /\ Informed(guest'[g], posted', settled')
             /\ guest'[g].pc = "join" => guest'[g] = guest[g] /\ guest[g].cursor # c
  <2> DEFINE x == guest[g]
             n == IF pc = "assemble" THEN pg ELSE x.page
             y == [x EXCEPT !.pc = pc, !.page = n]
  <2>0. x \in GuestState /\ Informed(x, posted, settled)
    BY <1>t DEF PageInv
  <2>1. CASE x.pc = "join" /\ x.cursor = c
    <3>1. guest'[g] = y
      BY <2>1
    <3>2. n \in Page \cup {NoSheet} /\ pc \in {"idle", "assemble"} /\ (pc = "assemble" => n = pg)
      BY <2>0, GuestTypes
    <3> HIDE DEF n
    <3>3. /\ y \in GuestState /\ y.pc = pc /\ y.page = n /\ y.cursor = x.cursor
          /\ y.since = x.since /\ y.shown = x.shown /\ y.answer = x.answer
      BY <2>0, <3>2 DEF GuestState, Reading
    <3> HIDE DEF y
    <3>4. y.pc \in {"assemble", "recheck"} => Whole(y.cursor, y.page, settled)
      BY <2>1, <3>2, <3>3
    <3>5. Informed(y, posted, settled)
      BY <2>0, <2>1, <3>2, <3>3, <3>4 DEF Informed, Reading
    <3>6. y.pc # "join"
      BY <3>2, <3>3
    <3>7. QED
      BY <3>1, <3>3, <3>5, <3>6
  <2>2. CASE ~(x.pc = "join" /\ x.cursor = c)
    <3>1. guest'[g] = x
      BY <2>2
    <3>2. QED
      BY <2>0, <2>2, <3>1
  <2>3. QED
    BY <2>1, <2>2
<1>4. guest' \in [Guest -> GuestState]
  BY <1>3
<1>5. ASSUME NEW g \in Guest, guest'[g].pc = "join" PROVE flight'[guest'[g].cursor] # NoFlight
  <2>1. guest'[g] = guest[g] /\ guest[g].cursor # c /\ guest[g] \in GuestState
    BY <1>t, <1>3, <1>5
  <2>2. guest[g].cursor \in Cursor /\ flight[guest[g].cursor] # NoFlight
    BY <1>t, <1>5, <2>1, GuestTypes DEF PageTypeOK
  <2>3. QED
    BY <1>1, <2>1, <2>2
<1>6. PageTypeOK'
  BY <1>t, <1>1, <1>2, <1>4, <1>5 DEF PageTypeOK
<1>7. \A d \in Cursor : flight'[d].pc = "store" => Whole(d, flight'[d].page, settled')
  BY <1>1, SheetTypes DEF PageInv, NoFlight
<1>8. QED
  BY <1>2, <1>3, <1>6, <1>7 DEF PageInv

\* The step of the invariant.
LEMMA PageInvNext == ASSUME PageInv, [PageNext]_pageVars PROVE PageInv'
<1>t. /\ PageTypeOK /\ guest \in [Guest -> GuestState]
      /\ flight \in [Cursor -> Flight \cup {NoFlight}] /\ sheet \in [Cursor -> Page \cup {NoSheet}]
      /\ settled \subseteq posted /\ posted \subseteq Post /\ Post \subseteq Nat
      /\ Cursor \subseteq Nat /\ Top \in Cursor /\ \A p \in Post : p < Top
  BY CursorTypes DEF PageInv, PageTypeOK
<1>g. ASSUME NEW g \in Guest
      PROVE  /\ guest[g] \in GuestState /\ guest[g].cursor \in Cursor
             /\ guest[g].pc \in {"idle", "end", "join", "assemble", "recheck"}
             /\ guest[g].page \in Page \cup {NoSheet} /\ guest[g].shown \subseteq Post
             /\ guest[g].answer \subseteq Post /\ guest[g].since \subseteq Post
             /\ Informed(guest[g], posted, settled)
  BY <1>t, GuestTypes DEF PageInv
<1>1. ASSUME NEW p \in Post, Edit(p) PROVE PageInv'
  BY <1>1, PageEdit
<1>2. ASSUME NEW c \in Cursor, SheetExpires(c) PROVE PageInv'
  <2>1. /\ sheet' = [sheet EXCEPT ![c] = NoSheet]
        /\ UNCHANGED <<posted, flight, guest, edits, settled>>
    BY <1>2 DEF SheetExpires
  <2>2. PageTypeOK'
    BY <1>t, <2>1 DEF PageTypeOK
  <2>3. \A d \in Cursor : sheet'[d] # NoSheet => Whole(d, sheet'[d], settled')
    BY <1>t, <2>1 DEF PageInv
  <2>4. QED
    BY <2>1, <2>2, <2>3 DEF PageInv
<1>3. ASSUME NEW c \in Cursor, NEW pg \in Page, Whole(c, pg, settled), Land(c, pg),
             sheet' = sheet \/ sheet' = [sheet EXCEPT ![c] = pg], UNCHANGED <<posted, edits, settled>>
      PROVE  PageInv'
  <2>1. flight' = [flight EXCEPT ![c] = NoFlight]
    BY <1>3 DEF Land
  <2>2. PICK pc : pc = "assemble"
    OBVIOUS
  <2>3. guest' = [g \in Guest |->
               IF guest[g].pc = "join" /\ guest[g].cursor = c
               THEN [guest[g] EXCEPT !.pc = pc, !.page = IF pc = "assemble" THEN pg ELSE @]
               ELSE guest[g]]
    BY <1>3, <2>2 DEF Land
  <2>4. pc \in {"assemble", "idle"} /\ pg \in Page \cup {NoSheet}
        /\ (pc = "assemble" => Whole(c, pg, settled))
        /\ (sheet' = sheet \/ (pg \in Page /\ sheet' = [sheet EXCEPT ![c] = pg] /\ pc = "assemble"))
    BY <1>3, <2>2
  <2>5. QED
    BY <1>3, <2>1, <2>3, <2>4, PageLands
<1>4. ASSUME NEW c \in Cursor, GetPageAgain(c) PROVE PageInv'
  <2>0. flight[c].pc = "again" /\ UNCHANGED <<posted, sheet, edits, settled>>
    BY <1>4 DEF GetPageAgain
  <2>1. CASE sheet[c] # NoSheet /\ Land(c, sheet[c])
    <3>1. PICK pg \in Page : pg = sheet[c]
      BY <1>t, <2>1
    <3>2. Whole(c, pg, settled)
      BY <2>1, <3>1 DEF PageInv
    <3>3. QED
      BY <1>3, <2>0, <2>1, <3>1, <3>2
  <2>2. CASE flight' = [flight EXCEPT ![c].pc = "load"] /\ UNCHANGED guest
    <3>1. flight[c] \in Flight
      BY <1>t, <2>0, SheetTypes
    <3>2. [flight[c] EXCEPT !.pc = "load"] \in Flight /\ [flight[c] EXCEPT !.pc = "load"].pc = "load"
      BY <3>1 DEF Flight
    <3>3. /\ flight' \in [Cursor -> Flight \cup {NoFlight}] /\ flight'[c] \in Flight
          /\ flight'[c].pc = "load" /\ \A d \in Cursor : d # c => flight'[d] = flight[d]
      BY <1>t, <2>2, <3>2
    <3>4. \A d \in Cursor : flight[d] # NoFlight => flight'[d] # NoFlight
      BY <3>3, SheetTypes
    <3>5. \A g \in Guest : guest'[g].pc = "join" => flight'[guest'[g].cursor] # NoFlight
      BY <1>t, <1>g, <2>2, <3>4 DEF PageTypeOK
    <3>6. PageTypeOK'
      BY <1>t, <2>0, <2>2, <3>3, <3>5 DEF PageTypeOK
    <3>7. \A d \in Cursor : flight'[d].pc = "store" => Whole(d, flight'[d].page, settled')
      BY <2>0, <3>3 DEF PageInv
    <3>8. QED
      BY <2>0, <2>2, <3>6, <3>7 DEF PageInv
  <2>3. QED
    BY <1>4, <2>1, <2>2 DEF GetPageAgain
<1>5. ASSUME NEW c \in Cursor, LoadPage(c) PROVE PageInv'
  <2>1. PICK pg : pg = PageFromRepo(c)
    OBVIOUS
  <2>2. Whole(c, pg, settled) /\ pg \in Page
    BY <1>t, <2>1, PageRead DEF Whole
  <2> DEFINE new == [pc |-> "store", page |-> pg]
  <2>3. /\ flight[c].pc = "load" /\ flight' = [flight EXCEPT ![c] = new]
        /\ UNCHANGED <<posted, sheet, guest, edits, settled>>
    BY <1>5, <2>1 DEF LoadPage
  <2>4. new \in Flight /\ new.page = pg /\ new # NoFlight
    BY <2>2, SheetTypes DEF Flight
  <2> HIDE DEF new
  <2>5. /\ flight' \in [Cursor -> Flight \cup {NoFlight}] /\ flight'[c] = new
        /\ \A d \in Cursor : d # c => flight'[d] = flight[d]
    BY <1>t, <2>3, <2>4
  <2>6. \A g \in Guest : guest'[g].pc = "join" => flight'[guest'[g].cursor] # NoFlight
    BY <1>t, <1>g, <2>3, <2>4, <2>5 DEF PageTypeOK
  <2>7. PageTypeOK'
    BY <1>t, <2>3, <2>5, <2>6 DEF PageTypeOK
  <2>8. \A d \in Cursor : flight'[d].pc = "store" => Whole(d, flight'[d].page, settled')
    BY <2>2, <2>3, <2>4, <2>5 DEF PageInv
  <2>9. QED
    BY <2>3, <2>7, <2>8 DEF PageInv
<1>6. ASSUME NEW c \in Cursor, LoadFails(c) PROVE PageInv'
  <2>1. /\ flight' = [flight EXCEPT ![c] = NoFlight] /\ UNCHANGED <<posted, sheet, edits, settled>>
    BY <1>6 DEF LoadFails
  <2>2. PICK pc : pc = "idle"
    OBVIOUS
  <2>3. \A g \in Guest : [guest[g] EXCEPT !.pc = "idle"]
            = [guest[g] EXCEPT !.pc = pc, !.page = IF pc = "assemble" THEN NoSheet ELSE @]
    BY <1>g, <2>2 DEF GuestState
  <2>4. guest' = [g \in Guest |->
               IF guest[g].pc = "join" /\ guest[g].cursor = c
               THEN [guest[g] EXCEPT !.pc = pc, !.page = IF pc = "assemble" THEN NoSheet ELSE @]
               ELSE guest[g]]
    BY <1>6, <2>3 DEF LoadFails
  <2>5. pc \in {"assemble", "idle"} /\ pc # "assemble" /\ NoSheet \in Page \cup {NoSheet}
        /\ sheet' = sheet
    BY <2>1, <2>2
  <2>6. QED
    BY <2>1, <2>4, <2>5, PageLands
<1>7. ASSUME NEW c \in Cursor, SetPage(c) PROVE PageInv'
  <2>1. PICK pg : pg = flight[c].page
    OBVIOUS
  <2>2. /\ flight[c].pc = "store" /\ Land(c, pg) /\ UNCHANGED <<posted, edits, settled>>
        /\ sheet' = sheet \/ sheet' = [sheet EXCEPT ![c] = pg]
    BY <1>7, <2>1 DEF SetPage
  <2>3. Whole(c, pg, settled) /\ pg \in Page
    BY <2>1, <2>2 DEF PageInv, Whole
  <2>4. QED
    BY <1>3, <2>2, <2>3
<1>8. ASSUME NEW g \in Guest, GetPage(g) PROVE PageInv'
  <2> DEFINE x == guest[g]
             c == x.cursor
             hit == [[x EXCEPT !.answer = {}, !.since = posted] EXCEPT !.pc = "assemble",
                                                                     !.page = sheet[c]]
             miss == [[x EXCEPT !.answer = {}, !.since = posted] EXCEPT !.pc = "join"]
  <2>1. x.pc = "idle" /\ UNCHANGED <<posted, sheet, edits, settled>>
    BY <1>8 DEF GetPage
  <2>2. CASE sheet[c] # NoSheet /\ guest' = [guest EXCEPT ![g] = hit] /\ UNCHANGED flight
    <3>1. sheet[c] \in Page /\ Whole(c, sheet[c], settled)
      BY <1>t, <1>g, <2>2 DEF PageInv
    <3>2. /\ hit \in GuestState /\ hit.pc = "assemble" /\ hit.page = sheet[c] /\ hit.cursor = c
          /\ hit.since = posted /\ hit.answer = {} /\ hit.shown = x.shown
      BY <1>t, <1>g, <3>1 DEF GuestState, Reading
    <3> HIDE DEF hit
    <3>3. Informed(hit, posted, settled)
      BY <1>g, <2>1, <3>1, <3>2 DEF Informed
    <3>4. hit.pc # "join"
      BY <3>2
    <3>5. QED
      BY <2>1, <2>2, <3>2, <3>3, <3>4, PageReader
  <2>3. CASE /\ guest' = [guest EXCEPT ![g] = miss]
             /\ flight' = [flight EXCEPT ![c] = IF @ = NoFlight
                               THEN [pc |-> "again", page |-> NoSheet] ELSE @]
    <3>1. /\ miss \in GuestState /\ miss.pc = "join" /\ miss.cursor = c
          /\ miss.since = posted /\ miss.answer = {} /\ miss.shown = x.shown
      BY <1>t, <1>g DEF GuestState, Reading
    <3> HIDE DEF miss
    <3>2. Informed(miss, posted, settled)
      BY <1>g, <2>1, <3>1 DEF Informed
    <3>3. PICK d \in Cursor : d = c
      BY <1>g
    <3>4. /\ miss.cursor = d
          /\ flight' = [flight EXCEPT ![d] = IF @ = NoFlight
                            THEN [pc |-> "again", page |-> NoSheet] ELSE @]
      BY <2>3, <3>1, <3>3
    <3>5. QED
      BY <2>1, <2>3, <3>1, <3>2, <3>4, PageReader
  <2>4. QED
    BY <1>8, <2>2, <2>3 DEF GetPage
<1>9. ASSUME NEW g \in Guest, AssembleFeedItems(g) PROVE PageInv'
  <2> DEFINE x == guest[g]
             ids == x.page.items
  <2>1. PICK cards \in SUBSET ids :
             guest' = [guest EXCEPT ![g].pc = "recheck",
                                    ![g].page.items = cards \cup BatchGetFeedCards(ids \ cards)]
    BY <1>9 DEF AssembleFeedItems, GetCards
  <2> DEFINE n == cards \cup ((ids \ cards) \cap posted)
             q == [x.page EXCEPT !.items = n]
             y == [x EXCEPT !.pc = "recheck", !.page = q]
  <2>2. x.pc = "assemble" /\ UNCHANGED <<posted, sheet, flight, edits, settled>>
    BY <1>9 DEF AssembleFeedItems
  <2>3. x \in GuestState /\ x.page \in Page /\ Whole(x.cursor, x.page, settled)
    BY <1>g, <2>2 DEF Informed, Whole
  <2>4. guest' = [guest EXCEPT ![g] = y]
    BY <1>t, <2>1, <2>3 DEF BatchGetFeedCards
  <2>5. ids \subseteq Post /\ n \subseteq ids /\ ids \cap posted \subseteq n
    BY <2>1, <2>3 DEF Page
  <2> HIDE DEF n
  <2>6. q \in Page /\ q.items = n /\ q.next = x.page.next /\ q.more = x.page.more
    BY <2>3, <2>5 DEF Page
  <2> HIDE DEF q
  <2>7. Whole(x.cursor, q, settled)
    BY <1>t, <2>3, <2>5, <2>6 DEF Whole
  <2>8. /\ y \in GuestState /\ y.pc = "recheck" /\ y.page = q /\ y.cursor = x.cursor
        /\ y.since = x.since /\ y.answer = x.answer /\ y.shown = x.shown
    BY <2>3, <2>6 DEF GuestState, Reading
  <2> HIDE DEF y
  <2>9. Informed(y, posted, settled)
    BY <1>g, <2>2, <2>7, <2>8 DEF Informed, Reading
  <2>10. y.pc # "join"
    BY <2>8
  <2>11. QED
    BY <2>2, <2>4, <2>8, <2>9, <2>10, PageReader
<1>10. ASSUME NEW g \in Guest, Show(g) PROVE PageInv'
  <2> DEFINE x == guest[g]
             pg == x.page
             visible == pg.items \cap posted
             pc == IF pg.more THEN "idle" ELSE "end"
             y == [x EXCEPT !.shown = x.shown \cup visible, !.answer = visible, !.pc = pc,
                            !.cursor = pg.next, !.page = NoSheet]
  <2>1. x.pc = "recheck" /\ UNCHANGED <<posted, sheet, flight, edits, settled>>
    BY <1>10 DEF Show
  <2>2. guest' = [guest EXCEPT ![g] = y]
    BY <1>t, <1>10 DEF Show, PublishedVideoIDs
  <2>3. x \in GuestState /\ pg \in Page /\ Whole(x.cursor, pg, settled)
    BY <1>g, <2>1 DEF Informed, Whole
  <2>4. /\ pg.items \subseteq Post /\ pg.next \in Cursor /\ pg.more \in BOOLEAN
        /\ visible \subseteq Post /\ pc \in {"idle", "end"} /\ (pc = "end" <=> ~pg.more)
        /\ visible \subseteq posted /\ x.cursor \in Nat /\ pg.next \in Nat
    BY <1>t, <1>g, <2>3 DEF Page
  <2> HIDE DEF pc
  <2>5. /\ y \in GuestState /\ y.pc = pc /\ y.shown = x.shown \cup visible /\ y.answer = visible
        /\ y.cursor = pg.next /\ y.since = x.since
    BY <1>g, <2>3, <2>4 DEF GuestState
  <2> HIDE DEF y
  <2>6. y.answer \subseteq y.since
    BY <1>g, <2>1, <2>4, <2>5 DEF Informed, Reading
  <2>7. ASSUME NEW p \in y.shown PROVE y.cursor <= p
    <3>1. p \in Nat
      BY <1>t, <1>g, <2>4, <2>5
    <3>2. CASE p \in x.shown
      <4>1. x.cursor <= p /\ pg.next <= x.cursor
        BY <1>g, <2>3, <3>2 DEF Informed, Whole
      <4>2. QED
        BY <2>4, <2>5, <3>1, <4>1
    <3>3. CASE p \in visible
      BY <2>3, <2>5, <3>3 DEF Whole
    <3>4. QED
      BY <2>5, <3>2, <3>3
  <2>8. ASSUME NEW p \in settled, y.pc = "end" \/ y.cursor <= p PROVE p \in y.shown
    <3>1. p \in Nat /\ p \in posted
      BY <1>t
    <3>2. CASE x.cursor <= p
      BY <1>g, <2>5, <3>2 DEF Informed
    <3>3. CASE ~(x.cursor <= p)
      <4>1. p < x.cursor /\ (pg.more => pg.next <= p)
        BY <2>4, <2>5, <2>8, <3>1, <3>3
      <4>2. p \in pg.items
        BY <2>3, <4>1 DEF Whole
      <4>3. QED
        BY <2>5, <3>1, <4>2
    <3>4. QED
      BY <3>2, <3>3
  <2>9. y.pc \notin Reading /\ y.pc \notin {"assemble", "recheck"} /\ y.pc # "join"
    BY <2>4, <2>5 DEF Reading
  <2>10. Informed(y, posted, settled)
    BY <2>6, <2>7, <2>8, <2>9 DEF Informed
  <2>11. QED
    BY <2>1, <2>2, <2>5, <2>9, <2>10, PageReader
<1>11. ASSUME NEW g \in Guest, ShowFails(g) PROVE PageInv'
  <2> DEFINE x == guest[g]
             y == [x EXCEPT !.pc = "idle", !.page = NoSheet]
  <2>1. /\ x.pc \in {"assemble", "recheck"} /\ UNCHANGED <<posted, sheet, flight, edits, settled>>
        /\ guest' = [guest EXCEPT ![g] = y]
    BY <1>t, <1>11 DEF ShowFails
  <2>2. /\ y \in GuestState /\ y.pc = "idle" /\ y.cursor = x.cursor /\ y.since = x.since
        /\ y.answer = x.answer /\ y.shown = x.shown
    BY <1>g DEF GuestState
  <2> HIDE DEF y
  <2>3. Informed(y, posted, settled)
    BY <1>g, <2>1, <2>2 DEF Informed, Reading
  <2>4. y.pc # "join"
    BY <2>2
  <2>5. QED
    BY <2>1, <2>2, <2>3, <2>4, PageReader
<1>12. ASSUME NEW g \in Guest, QueryFirst(g) PROVE PageInv'
  <2> DEFINE x == guest[g]
             y == [x EXCEPT !.pc = "idle", !.cursor = Top, !.shown = {}]
  <2>1. /\ UNCHANGED <<posted, sheet, flight, edits, settled>> /\ guest' = [guest EXCEPT ![g] = y]
    BY <1>t, <1>12 DEF QueryFirst
  <2>2. /\ y \in GuestState /\ y.pc = "idle" /\ y.cursor = Top /\ y.since = x.since
        /\ y.answer = x.answer /\ y.shown = {}
    BY <1>t, <1>g DEF GuestState
  <2> HIDE DEF y
  <2>3. \A p \in settled : ~(Top <= p)
    BY <1>t
  <2>4. Informed(y, posted, settled)
    BY <1>g, <2>2, <2>3 DEF Informed, Reading
  <2>5. y.pc # "join"
    BY <2>2
  <2>6. QED
    BY <2>1, <2>2, <2>4, <2>5, PageReader
<1>13. CASE UNCHANGED pageVars
  BY <1>13 DEF PageInv, PageTypeOK, pageVars
<1>14. QED
  BY <1>1, <1>2, <1>4, <1>5, <1>6, <1>7, <1>8, <1>9, <1>10, <1>11, <1>12, <1>13 DEF PageNext

\* The types of the timeline, and that nobody waits for a load nobody makes.
THEOREM PagesTyped == PageSpec => []PageTypeOK
<1>1. PageInv => PageTypeOK
  BY DEF PageInv
<1>2. QED
  BY <1>1, PageInvInit, PageInvNext, PTL DEF PageSpec

\* What a request shows was published at some time while that request ran,
\* whatever the caches hold (GetFeed).
THEOREM ModerationReaches == PageSpec => []ModerationApplies
<1>1. PageInv => ModerationApplies
  BY DEF PageInv, Informed, ModerationApplies
<1>2. QED
  BY <1>1, PageInvInit, PageInvNext, PTL DEF PageSpec

\* A reader who follows the cursors to the end is shown every video that was
\* published all along, and none twice (loadFeedPage, listPageFromRepo).
THEOREM TimelinesWhole == PageSpec => []TimelineWhole
<1>1. PageInv => TimelineWhole
  <2> SUFFICES ASSUME PageInv, NEW g \in Guest
               PROVE  /\ guest[g].pc \in {"assemble", "recheck"}
                            => guest[g].page.items \cap guest[g].shown = {}
                      /\ guest[g].pc = "end" => settled \subseteq guest[g].shown
    BY DEF TimelineWhole
  <2>1. /\ guest[g] \in GuestState /\ Informed(guest[g], posted, settled)
    BY DEF PageInv, PageTypeOK
  <2>2. guest[g].cursor \in Nat /\ guest[g].shown \subseteq Nat
    BY <2>1, GuestTypes, CursorTypes
  <2>3. ASSUME guest[g].pc \in {"assemble", "recheck"}, NEW p \in guest[g].page.items,
               p \in guest[g].shown
        PROVE  FALSE
    <3>1. p < guest[g].cursor /\ guest[g].cursor <= p /\ p \in Nat
      BY <2>1, <2>2, <2>3 DEF Informed, Whole
    <3>2. QED
      BY <2>2, <3>1
  <2>4. QED
    BY <2>1, <2>3 DEF Informed
<1>2. QED
  BY <1>1, PageInvInit, PageInvNext, PTL DEF PageSpec


-----------------------------------------------------------------------------
(***************************************************************************)
(* The following feed.  A follower's videos come from the fan-out or from  *)
(* the backfill: whoever the fan-out has passed is in a backfill that has  *)
(* yet to read, or has read the video.                                     *)
(***************************************************************************)
Shown == Min({InboxMax, BackfillMax})

Recent == Newest(clips, Shown)

\* The video is in the inbox, or the backfill will put it there.
Covered(v, c) ==
    \/ c \in inbox[v]
    \/ signup[v].pc \in {"count", "read"}
    \/ signup[v].pc = "fill" /\ c \in signup[v].todo

\* The fan-out has not come to the follower yet.
Ahead(v, c) == fanout # IdleFanout /\ fanout.clip = c /\ v > fanout.cursor

\* A lapsed inbox counts again while a backfill fills it.
Lapsed(v) == v \in lapsed /\ signup[v].pc # "fill"

\* A follower has the video, will be given it, or was promised nothing.
Served(v, c) == c \in unsent \/ Lapsed(v) \/ Covered(v, c) \/ Ahead(v, c)

\* An author who has always been small: the videos are pushed.
PushInv ==
    crossed = FALSE /\ ~IsBig(CountFollowers) =>
        \A v \in fans, c \in aired \cap Recent : Served(v, c)

\* An author who has always been big: the videos are pulled.
PullInv ==
    crossed = FALSE /\ IsBig(CountFollowers) =>
        /\ fanout = IdleFanout
        /\ \A c \in aired \cap Recent : c \in unsent \/ c \in outbox

FeedInv == FeedTypeOK /\ PushInv /\ PullInv

\* What Max chooses in a finite set.
LEMMA MaxIs ==
    ASSUME NEW S, S \subseteq Nat, S # {}, IsFiniteSet(S)
    PROVE  Max(S) \in S /\ \A y \in S : y <= Max(S)
<1>1. \E x \in S : \A y \in S : x >= y
  BY LargestExists
<1>2. Max(S) \in S /\ \A y \in S : Max(S) >= y
  BY <1>1 DEF Max
<1>3. QED
  BY <1>2

\* What is among the newest of a set is among the newest of a part of it.
LEMMA NewestKeeps ==
    ASSUME NEW T, T \subseteq Nat, IsFiniteSet(T), NEW S, S \subseteq T,
           NEW n \in Nat, NEW m \in Nat, n <= m, NEW x \in S, x \in Newest(T, n)
    PROVE  x \in Newest(S, m)
<1> DEFINE A == {y \in S : y > x}
           B == {y \in T : y > x}
<1>1. A \subseteq B /\ B \subseteq T
  OBVIOUS
<1>2. IsFiniteSet(B)
  BY <1>1, FS_Subset
<1>3. IsFiniteSet(A) /\ Cardinality(A) <= Cardinality(B)
  BY <1>1, <1>2, FS_Subset
<1>4. Cardinality(A) \in Nat /\ Cardinality(B) \in Nat
  BY <1>2, <1>3, FS_CardinalityType
<1>5. Cardinality(B) < n
  BY DEF Newest
<1>6. Cardinality(A) < m
  BY <1>3, <1>4, <1>5
<1>7. QED
  BY <1>6 DEF Newest

\* The videos the feed promises fit into an inbox and into a backfill.
LEMMA ShownTypes ==
    /\ Shown \in Nat /\ InboxMax \in Nat /\ BackfillMax \in Nat
    /\ Shown <= InboxMax /\ Shown <= BackfillMax
<1>1. {InboxMax, BackfillMax} \subseteq Nat /\ {InboxMax, BackfillMax} # {}
  BY FeedConstants
<1>2. Shown \in {InboxMax, BackfillMax} /\ \A y \in {InboxMax, BackfillMax} : Shown <= y
  BY <1>1, MinIs DEF Shown
<1>3. QED
  BY <1>1, <1>2

\* Adding to an index never drops a recent video (AddInboxItems, AddOutboxItem).
LEMMA AddKeeps ==
    ASSUME NEW P, P \subseteq Clip, NEW index, index \subseteq P, NEW d \in P
    PROVE  /\ AddItem(index, d) \subseteq index \cup {d}
           /\ \A x \in index \cup {d} : x \in Newest(P, Shown) => x \in AddItem(index, d)
<1>1. P \subseteq Nat /\ IsFiniteSet(P)
  BY FeedConstants, FS_Subset
<1>2. AddItem(index, d) \subseteq index \cup {d}
  BY DEF AddItem, Newest
<1>3. ASSUME NEW x \in index \cup {d}, x \in Newest(P, Shown)
      PROVE  x \in AddItem(index, d)
  <2>1. x \in Newest(index \cup {d}, InboxMax)
    BY <1>1, <1>3, ShownTypes, NewestKeeps
  <2>2. QED
    BY <2>1 DEF AddItem
<1>4. QED
  BY <1>2, <1>3

\* The first ids of a list: who is not in a batch comes after all of it, and then
\* the batch is full.
LEMMA BatchFull ==
    ASSUME NEW A, A \subseteq Nat, IsFiniteSet(A), NEW B \in Nat, NEW v \in A,
           NEW batch, batch = {u \in A : Cardinality({w \in A : w < u}) < B}, v \notin batch
    PROVE  /\ \A u \in batch : u < v
           /\ Cardinality(batch) >= B
<1>1. PICK R : R = {p \in A \X A : p[1] < p[2]}
  OBVIOUS
<1>2. \A i, j \in A : <<i, j>> \in R <=> i < j
  BY <1>1
<1>3. /\ \A i \in A : <<i, i>> \notin R
      /\ \A i, j, k \in A : <<i, j>> \in R /\ <<j, k>> \in R => <<i, k>> \in R
      /\ \A i, j \in A : i = j \/ <<i, j>> \in R \/ <<j, i>> \in R
  BY <1>2
<1>4. \A i \in A : {j \in A : <<j, i>> \in R} = {j \in A : j < i}
  BY <1>2
<1>5. batch = {i \in A : Cardinality({j \in A : <<j, i>> \in R}) < B}
  BY <1>4
<1>6. (\A u \in batch : <<u, v>> \in R) /\ Cardinality(batch) >= B
  BY <1>3, <1>5, FirstRowsFull
<1>7. QED
  BY <1>2, <1>5, <1>6

\* A follower above the cursor is in the batch, or above the next cursor
\* (ListFollowerIDs, NextCursor).
LEMMA BatchCovers ==
    ASSUME FeedTypeOK, NEW cursor \in Nat, NEW batch, batch = ListFollowerIDs(cursor)
    PROVE  /\ batch \subseteq fans
           /\ Cardinality(batch) < BatchSize => \A v \in fans : v > cursor => v \in batch
           /\ ~(Cardinality(batch) < BatchSize) =>
                 /\ NextCursor(batch) \in Nat
                 /\ \A v \in fans : v > cursor => v \in batch \/ v > NextCursor(batch)
<1> DEFINE above == {v \in fans : v > cursor}
<1>1. above \subseteq fans /\ fans \subseteq Viewer /\ above \subseteq Nat /\ above \subseteq Viewer
  BY FeedConstants DEF FeedTypeOK
<1>2. IsFiniteSet(above)
  BY <1>1, FeedConstants, FS_Subset
<1>3. batch = {v \in above : Cardinality({w \in above : w < v}) < BatchSize}
  BY DEF ListFollowerIDs
<1>4. BatchSize \in Nat /\ BatchSize # 0
  BY FeedConstants
<1>5. batch \subseteq above
  BY <1>3
<1>6. IsFiniteSet(batch) /\ Cardinality(batch) \in Nat
  BY <1>2, <1>5, FS_Subset, FS_CardinalityType
<1>7. ASSUME NEW v \in fans, v > cursor, v \notin batch
      PROVE  /\ \A u \in batch : u < v
             /\ Cardinality(batch) >= BatchSize
  <2>1. v \in above
    BY <1>7
  <2> HIDE DEF above
  <2>2. QED
    BY <1>1, <1>2, <1>3, <1>4, <1>7, <2>1, BatchFull
<1>8. ASSUME ~(Cardinality(batch) < BatchSize)
      PROVE  NextCursor(batch) \in batch
  <2>1. batch # {}
    BY <1>4, <1>6, <1>8, FS_EmptySet
  <2>2. batch \subseteq Nat
    BY <1>1, <1>5
  <2>3. QED
    BY <1>6, <2>1, <2>2, MaxIs DEF NextCursor
<1>9. QED
  BY <1>1, <1>4, <1>5, <1>6, <1>7, <1>8

\* What the fan-out and a request have in hand.
LEMMA FeedTypes ==
    ASSUME FeedTypeOK
    PROVE  /\ fans \subseteq Viewer /\ clips \subseteq Clip /\ aired \subseteq clips
           /\ unsent \subseteq clips /\ outbox \subseteq clips
           /\ clips \subseteq Nat /\ IsFiniteSet(clips)
           /\ fanout # IdleFanout =>
                 /\ fanout \in [pc: {"list"}, clip: clips, cursor: Nat]
                 /\ fanout.pc = "list" /\ fanout.clip \in clips /\ fanout.cursor \in Nat
           /\ fanout.pc = "list" => fanout # IdleFanout
           /\ \A v \in Viewer :
                 /\ inbox[v] \subseteq clips
                 /\ signup[v] \in [pc: {"idle", "count", "read", "fill"}, todo: SUBSET clips]
                 /\ signup[v].pc \in {"idle", "count", "read", "fill"}
                 /\ signup[v].todo \subseteq clips
<1>1. /\ fans \subseteq Viewer /\ clips \subseteq Clip /\ aired \subseteq clips
      /\ unsent \subseteq clips /\ outbox \subseteq clips
  BY DEF FeedTypeOK
<1>2. clips \subseteq Nat /\ IsFiniteSet(clips)
  BY <1>1, FeedConstants, FS_Subset
<1>3. fanout # IdleFanout =>
                 /\ fanout \in [pc: {"list"}, clip: clips, cursor: Nat]
                 /\ fanout.pc = "list" /\ fanout.clip \in clips /\ fanout.cursor \in Nat
  BY DEF FeedTypeOK
<1>4. fanout.pc = "list" => fanout # IdleFanout
  BY DEF IdleFanout
<1>5. ASSUME NEW v \in Viewer
      PROVE  /\ inbox[v] \subseteq clips
             /\ signup[v] \in [pc: {"idle", "count", "read", "fill"}, todo: SUBSET clips]
  BY DEF FeedTypeOK
<1>6. QED
  BY <1>1, <1>2, <1>3, <1>4, <1>5

\* The steps keep the types.
LEMMA FeedTypesNext == ASSUME FeedTypeOK, [FeedNext]_feedVars PROVE FeedTypeOK'
<1>t. /\ fans \subseteq Viewer /\ clips \subseteq Clip /\ aired \subseteq clips
      /\ unsent \subseteq clips /\ outbox \subseteq clips
      /\ fanout # IdleFanout =>
            /\ fanout \in [pc: {"list"}, clip: clips, cursor: Nat]
            /\ fanout.pc = "list" /\ fanout.clip \in clips /\ fanout.cursor \in Nat
      /\ fanout.pc = "list" => fanout # IdleFanout
      /\ \A v \in Viewer :
            /\ inbox[v] \subseteq clips
            /\ signup[v] \in [pc: {"idle", "count", "read", "fill"}, todo: SUBSET clips]
            /\ signup[v].pc \in {"idle", "count", "read", "fill"}
            /\ signup[v].todo \subseteq clips
  BY FeedTypes
<1>m. MaxUpsets \in Nat
  BY FeedConstants
<1>u. ASSUME Upset \/ UNCHANGED upsets PROVE upsets' \in 0..MaxUpsets
  BY <1>m, <1>u DEF Upset, FeedTypeOK
<1>1. ASSUME NEW c \in Clip, Release(c) PROVE FeedTypeOK'
  BY <1>1 DEF Release, FeedTypeOK
<1>2. ASSUME NEW c \in Clip, Withdraw(c) PROVE FeedTypeOK'
  BY <1>2, <1>u DEF Withdraw, FeedTypeOK
<1>3. ASSUME NEW c \in Clip, Republish(c) PROVE FeedTypeOK'
  <2>1. upsets' \in 0..MaxUpsets
    BY <1>3, <1>u DEF Republish
  <2>2. QED
    BY <1>3, <2>1 DEF Republish, FeedTypeOK
<1>4. ASSUME NEW c \in Clip, EventObsolete(c) PROVE FeedTypeOK'
  BY <1>4 DEF EventObsolete, FeedTypeOK
<1>5. ASSUME NEW c \in Clip, FanoutCount(c) PROVE FeedTypeOK'
  <2>1. c \in clips /\ unsent' \subseteq clips
    BY <1>5, <1>t DEF FanoutCount
  <2>2. AddItem(outbox, c) \subseteq clips
    BY <1>t, <2>1, AddKeeps
  <2>3. [pc |-> "list", clip |-> c, cursor |-> 0] \in [pc: {"list"}, clip: clips, cursor: Nat]
    BY <2>1
  <2>4. fanout' \in [pc: {"list"}, clip: clips, cursor: Nat] \cup {IdleFanout} /\ outbox' \subseteq clips
    BY <1>5, <1>t, <2>2, <2>3 DEF FanoutCount
  <2>5. QED
    BY <1>5, <2>1, <2>4 DEF FanoutCount, FeedTypeOK
<1>6. ASSUME FanoutBatch PROVE FeedTypeOK'
  <2> DEFINE batch == ListFollowerIDs(fanout.cursor)
  <2>1. /\ fanout \in [pc: {"list"}, clip: clips, cursor: Nat]
        /\ fanout.clip \in clips /\ fanout.cursor \in Nat
    BY <1>6, <1>t DEF FanoutBatch
  <2>2. ~(Cardinality(batch) < BatchSize) => NextCursor(batch) \in Nat
    BY <2>1, BatchCovers
  <2>3. \A v \in Viewer : AddItem(inbox[v], fanout.clip) \subseteq clips
    BY <1>t, <2>1, AddKeeps
  <2> HIDE DEF batch
  <2>4. inbox' = [v \in Viewer |->
           IF v \in batch THEN AddItem(inbox[v], fanout.clip) ELSE inbox[v]]
    BY <1>6 DEF FanoutBatch, batch
  <2>5. inbox' \in [Viewer -> SUBSET clips]
    BY <1>t, <2>3, <2>4
  <2>6. fanout' = IF Cardinality(batch) < BatchSize
                 THEN IdleFanout ELSE [fanout EXCEPT !.cursor = NextCursor(batch)]
    BY <1>6 DEF FanoutBatch, batch
  <2>7. fanout' \in [pc: {"list"}, clip: clips, cursor: Nat] \cup {IdleFanout}
    BY <2>1, <2>2, <2>6
  <2>8. QED
    BY <1>6, <2>5, <2>7 DEF FanoutBatch, FeedTypeOK
<1>7. ASSUME FanoutFails PROVE FeedTypeOK'
  <2>1. upsets' \in 0..MaxUpsets /\ fanout.clip \in clips
    BY <1>7, <1>u, <1>t DEF FanoutFails
  <2>2. QED
    BY <1>7, <2>1 DEF FanoutFails, FeedTypeOK
<1>s. ASSUME NEW new \in SUBSET Viewer, SetFans(new)
      PROVE  fans' \in SUBSET Viewer /\ crossed' \in BOOLEAN /\ upsets' \in 0..MaxUpsets
  <2>1. fans' \in SUBSET Viewer
    BY <1>s DEF SetFans
  <2>2. crossed' \in BOOLEAN
    BY <1>s, Zenon DEF SetFans
  <2>3. upsets' \in 0..MaxUpsets
    BY <1>s, <1>u DEF SetFans
  <2>4. QED
    BY <2>1, <2>2, <2>3
<1>8. ASSUME NEW v \in Viewer, FollowCommits(v) PROVE FeedTypeOK'
  <2>1. SetFans(fans \cup {v}) /\ fans \cup {v} \in SUBSET Viewer
    BY <1>8, <1>t DEF FollowCommits
  <2>2. fans' \in SUBSET Viewer /\ crossed' \in BOOLEAN /\ upsets' \in 0..MaxUpsets
    BY <1>s, <2>1
  <2>3. signup' \in [Viewer -> [pc: {"idle", "count", "read", "fill"}, todo: SUBSET clips]]
    BY <1>8, <1>t DEF FollowCommits, FeedTypeOK
  <2>4. QED
    BY <1>8, <2>2, <2>3 DEF FollowCommits, FeedTypeOK
<1>9. ASSUME NEW v \in Viewer, UnfollowCommits(v) PROVE FeedTypeOK'
  <2>1. SetFans(fans \ {v}) /\ fans \ {v} \in SUBSET Viewer
    BY <1>9, <1>t DEF UnfollowCommits
  <2>2. fans' \in SUBSET Viewer /\ crossed' \in BOOLEAN /\ upsets' \in 0..MaxUpsets
    BY <1>s, <2>1
  <2>3. QED
    BY <1>9, <2>2 DEF UnfollowCommits, FeedTypeOK
<1>10. ASSUME NEW v \in Viewer, BackfillCount(v) PROVE FeedTypeOK'
  <2>3. signup' \in [Viewer -> [pc: {"idle", "count", "read", "fill"}, todo: SUBSET clips]]
    BY <1>10, <1>t DEF BackfillCount, FeedTypeOK
  <2>4. QED
    BY <1>10, <2>3 DEF BackfillCount, FeedTypeOK
<1>11. ASSUME NEW v \in Viewer, BackfillRead(v) PROVE FeedTypeOK'
  <2>1. Newest(aired, BackfillMax) \subseteq clips
    BY <1>t DEF Newest
  <2>3. signup' \in [Viewer -> [pc: {"idle", "count", "read", "fill"}, todo: SUBSET clips]]
    BY <1>11, <1>t, <2>1 DEF BackfillRead, FeedTypeOK
  <2>4. QED
    BY <1>11, <2>3 DEF BackfillRead, FeedTypeOK
<1>12. ASSUME NEW v \in Viewer, BackfillAdd(v) PROVE FeedTypeOK'
  <2>1. CASE signup[v].todo = {}
    <3>1. signup' \in [Viewer -> [pc: {"idle", "count", "read", "fill"}, todo: SUBSET clips]]
      BY <1>12, <1>t, <2>1 DEF BackfillAdd, FeedTypeOK
    <3>2. QED
      BY <1>12, <2>1, <3>1 DEF BackfillAdd, FeedTypeOK
  <2>2. CASE signup[v].todo # {}
    <3>1. signup[v].todo \subseteq Nat /\ IsFiniteSet(signup[v].todo)
      BY <1>t, FeedTypes, FS_Subset
    <3>2. PICK d \in clips : d = Max(signup[v].todo)
      BY <1>t, <2>2, <3>1, MaxIs
    <3>3. AddItem(inbox[v], d) \subseteq clips
      BY <1>t, <3>2, AddKeeps
    <3>4. inbox' = [inbox EXCEPT ![v] = AddItem(inbox[v], d)]
      BY <1>12, <2>2, <3>2 DEF BackfillAdd
    <3>5. inbox' \in [Viewer -> SUBSET clips]
      BY <3>3, <3>4 DEF FeedTypeOK
    <3>6. signup' \in [Viewer -> [pc: {"idle", "count", "read", "fill"}, todo: SUBSET clips]]
      BY <1>12, <1>t, <2>2 DEF BackfillAdd, FeedTypeOK
    <3>7. QED
      BY <1>12, <2>2, <3>5, <3>6 DEF BackfillAdd, FeedTypeOK
  <2>3. QED
    BY <2>1, <2>2
<1>13. ASSUME NEW v \in Viewer, BackfillFails(v) PROVE FeedTypeOK'
  <2>1. upsets' \in 0..MaxUpsets
    BY <1>13, <1>u DEF BackfillFails
  <2>3. signup' \in [Viewer -> [pc: {"idle", "count", "read", "fill"}, todo: SUBSET clips]]
    BY <1>13, <1>t DEF BackfillFails, FeedTypeOK
  <2>4. QED
    BY <1>13, <2>1, <2>3 DEF BackfillFails, FeedTypeOK
<1>14. ASSUME NEW v \in Viewer, InboxExpires(v) PROVE FeedTypeOK'
  <2>1. upsets' \in 0..MaxUpsets
    BY <1>14, <1>u DEF InboxExpires
  <2>2. QED
    BY <1>14, <2>1 DEF InboxExpires, FeedTypeOK
<1>15. CASE UNCHANGED feedVars
  BY <1>15 DEF feedVars, FeedTypeOK
<1>16. QED
  BY <1>1, <1>2, <1>3, <1>4, <1>5, <1>6, <1>7, <1>8, <1>9, <1>10, <1>11, <1>12, <1>13, <1>14,
     <1>15 DEF FeedNext

\* The feed begins in its invariant.
LEMMA FeedInvInit == FeedInit => FeedInv
<1> SUFFICES ASSUME FeedInit PROVE FeedInv
  OBVIOUS
<1>1. MaxUpsets \in Nat
  BY FeedConstants
<1>2. FeedTypeOK
  <2>1. signup \in [Viewer -> [pc: {"idle", "count", "read", "fill"}, todo: SUBSET clips]]
    BY DEF FeedInit
  <2>2. inbox \in [Viewer -> SUBSET clips]
    BY DEF FeedInit
  <2>3. upsets \in 0..MaxUpsets
    BY <1>1 DEF FeedInit
  <2>4. crossed \in BOOLEAN
    BY DEF FeedInit
  <2>5. QED
    BY <2>1, <2>2, <2>3, <2>4 DEF FeedInit, FeedTypeOK
<1>3. aired = {} /\ fanout = IdleFanout
  BY DEF FeedInit
<1>4. PushInv /\ PullInv
  BY <1>3 DEF PushInv, PullInv
<1>5. QED
  BY <1>2, <1>4 DEF FeedInv

\* While nobody comes or goes and nothing new is published, it is enough that the
\* videos still in question stay where they are.
LEMMA FeedQuiet ==
    ASSUME FeedInv, FeedTypeOK', UNCHANGED <<crowd, fans, clips, crossed>>,
           IsBig(CountFollowers) /\ crossed = FALSE /\ fanout = IdleFanout => fanout' = IdleFanout,
           \A c \in aired' \cap Recent :
              \/ c \in unsent'
              \/ /\ c \in aired
                 /\ IsBig(CountFollowers) /\ crossed = FALSE =>
                       (c \in unsent \cup outbox => c \in unsent' \cup outbox')
                 /\ ~IsBig(CountFollowers) /\ crossed = FALSE =>
                       \A v \in fans : Served(v, c) => Served(v, c)'
    PROVE  FeedInv'
<1>1. Recent' = Recent /\ IsBig(CountFollowers)' = IsBig(CountFollowers)
  BY DEF Recent, IsBig, CountFollowers
<1>2. ASSUME crossed' = FALSE, ~IsBig(CountFollowers)',
             NEW v \in fans', NEW c \in aired' \cap Recent'
      PROVE  Served(v, c)'
  <2>1. crossed = FALSE /\ ~IsBig(CountFollowers) /\ v \in fans /\ c \in aired' \cap Recent
    BY <1>1, <1>2
  <2>2. CASE c \in unsent'
    BY <2>2 DEF Served
  <2>3. CASE c \in aired /\ (Served(v, c) => Served(v, c)')
    <3>1. Served(v, c)
      BY <2>1, <2>3 DEF FeedInv, PushInv
    <3>2. QED
      BY <2>3, <3>1
  <2>4. QED
    BY <2>1, <2>2, <2>3
<1>3. PushInv'
  BY <1>2 DEF PushInv
<1>4. ASSUME crossed' = FALSE, IsBig(CountFollowers)'
      PROVE  fanout' = IdleFanout /\ \A c \in aired' \cap Recent' : c \in unsent' \/ c \in outbox'
  <2>1. crossed = FALSE /\ IsBig(CountFollowers)
    BY <1>1, <1>4
  <2>2. fanout = IdleFanout /\ \A c \in aired \cap Recent : c \in unsent \/ c \in outbox
    BY <2>1 DEF FeedInv, PullInv
  <2>3. QED
    BY <1>1, <2>1, <2>2
<1>5. PullInv'
  BY <1>4 DEF PullInv
<1>6. QED
  BY <1>3, <1>5 DEF FeedInv

\* A follow or an unfollow: unless the author changes side after publishing,
\* only the one who came has to be served.
LEMMA FeedAudience ==
    ASSUME FeedInv, FeedTypeOK', NEW new \in SUBSET Viewer, SetFans(new),
           UNCHANGED <<crowd, clips, aired, unsent, fanout, inbox, outbox, lapsed>>,
           \A v \in new, c \in aired : Served(v, c)' \/ (v \in fans /\ (Served(v, c) => Served(v, c)'))
    PROVE  FeedInv'
<1>t. aired \subseteq clips /\ (fanout # IdleFanout => fanout.clip \in clips)
  BY FeedTypes DEF FeedInv
<1>1. Recent' = Recent /\ fans' = new
  BY DEF Recent, SetFans
<1>2. CASE clips = {}
  <2>1. aired' = {} /\ fanout' = IdleFanout
    BY <1>t, <1>2
  <2>2. QED
    BY <2>1 DEF FeedInv, PushInv, PullInv
<1>3. CASE clips # {}
  <2>1. CASE crossed' # FALSE
    BY <2>1 DEF FeedInv, PushInv, PullInv
  <2>2. CASE crossed' = FALSE
    <3>1. crossed' = (crossed \/ Crossing(new)) /\ crossed \in BOOLEAN
      BY DEF SetFans, FeedInv, FeedTypeOK
    <3>2. crossed = FALSE /\ ~Crossing(new)
      BY <2>2, <3>1, Zenon
    <3>3. IsBig(crowd + Cardinality(new)) = IsBig(CountFollowers)
      BY <1>3, <3>2 DEF Crossing
    <3>4. IsBig(CountFollowers)' = IsBig(crowd + Cardinality(new))
      BY <1>1 DEF IsBig, CountFollowers
    <3>5. IsBig(CountFollowers)' = IsBig(CountFollowers)
      BY <3>3, <3>4
    <3>6. PushInv'
      <4>1. SUFFICES ASSUME ~IsBig(CountFollowers)', NEW v \in new, NEW c \in aired \cap Recent
                     PROVE  Served(v, c)'
        BY <1>1 DEF PushInv
      <4>2. ~IsBig(CountFollowers)
        BY <3>5, <4>1
      <4>3. v \in fans => Served(v, c)
        BY <3>2, <4>2, <4>1 DEF FeedInv, PushInv
      <4>4. QED
        BY <4>1, <4>3
    <3>7. PullInv'
      <4>1. SUFFICES ASSUME IsBig(CountFollowers)'
                     PROVE  fanout' = IdleFanout /\ \A c \in aired' \cap Recent' : c \in unsent' \/ c \in outbox'
        BY DEF PullInv
      <4>2. IsBig(CountFollowers)
        BY <3>5, <4>1
      <4>3. fanout = IdleFanout /\ \A c \in aired \cap Recent : c \in unsent \/ c \in outbox
        BY <3>2, <4>2 DEF FeedInv, PullInv
      <4>4. QED
        BY <1>1, <4>3
    <3>8. QED
      BY <3>6, <3>7 DEF FeedInv
  <2>3. QED
    BY <2>1, <2>2
<1>4. QED
  BY <1>2, <1>3

\* The steps of publication, moderation and the fan-out keep the invariant.
LEMMA FanoutInvNext ==
    ASSUME FeedInv, FeedTypeOK',
           \/ \E c \in Clip : Release(c) \/ Withdraw(c) \/ Republish(c) \/ EventObsolete(c)
                             \/ FanoutCount(c)
           \/ FanoutBatch \/ FanoutFails
    PROVE  FeedInv'
<1>t. /\ FeedTypeOK /\ fans \subseteq Viewer /\ clips \subseteq Clip /\ aired \subseteq clips
      /\ unsent \subseteq clips /\ outbox \subseteq clips
      /\ fanout # IdleFanout =>
            /\ fanout \in [pc: {"list"}, clip: clips, cursor: Nat]
            /\ fanout.pc = "list" /\ fanout.clip \in clips /\ fanout.cursor \in Nat
      /\ fanout.pc = "list" => fanout # IdleFanout
      /\ \A v \in Viewer : inbox[v] \subseteq clips
  BY FeedTypes DEF FeedInv
<1>1. ASSUME NEW d \in Clip, Release(d) PROVE FeedInv'
  <2>1. /\ clips' = clips \cup {d} /\ aired' = aired \cup {d} /\ unsent' = unsent \cup {d}
        /\ UNCHANGED <<crowd, fans, fanout, inbox, outbox, signup, crossed, lapsed>>
    BY <1>1 DEF Release
  <2>2. IsBig(CountFollowers)' = IsBig(CountFollowers)
    BY <2>1 DEF IsBig, CountFollowers
  <2>3. ASSUME NEW c \in aired' \cap Recent', c # d PROVE c \in aired \cap Recent
    <3>0. clips' \subseteq Clip /\ Clip \subseteq Nat /\ IsFiniteSet(Clip)
      BY <1>t, <2>1, FeedConstants
    <3>1. clips' \subseteq Nat /\ IsFiniteSet(clips')
      BY <3>0, FS_Subset
    <3>2. c \in aired /\ c \in clips /\ clips \subseteq clips' /\ c \in Newest(clips', Shown)
      BY <1>t, <2>1, <2>3 DEF Recent
    <3>3. Shown \in Nat /\ Shown <= Shown
      BY ShownTypes
    <3>4. c \in Newest(clips, Shown)
      BY <3>1, <3>2, <3>3, NewestKeeps
    <3>5. QED
      BY <3>2, <3>4 DEF Recent
  <2>4. \A v, c : Served(v, c) => Served(v, c)'
    BY <2>1 DEF Served, Lapsed, Covered, Ahead
  <2>5. \A v : Served(v, d)'
    BY <2>1 DEF Served
  <2>6. ASSUME crossed' = FALSE, ~IsBig(CountFollowers)',
               NEW v \in fans', NEW c \in aired' \cap Recent'
        PROVE  Served(v, c)'
    <3>1. CASE c = d
      BY <2>5, <3>1
    <3>2. CASE c # d
      <4>1. crossed = FALSE /\ ~IsBig(CountFollowers) /\ v \in fans /\ c \in aired \cap Recent
        BY <2>1, <2>2, <2>3, <2>6, <3>2
      <4>2. QED
        BY <2>4, <4>1 DEF FeedInv, PushInv
    <3>3. QED
      BY <3>1, <3>2
  <2>7. ASSUME crossed' = FALSE, IsBig(CountFollowers)'
        PROVE  fanout' = IdleFanout /\ \A c \in aired' \cap Recent' : c \in unsent' \/ c \in outbox'
    <3>1. crossed = FALSE /\ IsBig(CountFollowers)
      BY <2>1, <2>2, <2>7
    <3>2. fanout = IdleFanout /\ \A c \in aired \cap Recent : c \in unsent \/ c \in outbox
      BY <3>1 DEF FeedInv, PullInv
    <3>3. QED
      BY <2>1, <2>3, <3>2
  <2>8. PushInv'
    BY <2>6 DEF PushInv
  <2>9. PullInv'
    BY <2>7 DEF PullInv
  <2>10. QED
    BY <2>8, <2>9 DEF FeedInv
<1>2. ASSUME NEW d \in Clip, Withdraw(d) PROVE FeedInv'
  <2>1. /\ aired' = aired \ {d}
        /\ UNCHANGED <<crowd, fans, clips, unsent, fanout, inbox, outbox, signup, crossed, lapsed>>
    BY <1>2 DEF Withdraw
  <2>2. \A v, c : Served(v, c) => Served(v, c)'
    BY <2>1 DEF Served, Lapsed, Covered, Ahead
  <2>3. QED
    BY <2>1, <2>2, FeedQuiet
<1>3. ASSUME NEW d \in Clip, Republish(d) PROVE FeedInv'
  <2>1. /\ aired' = aired \cup {d} /\ unsent' = unsent \cup {d}
        /\ UNCHANGED <<crowd, fans, clips, fanout, inbox, outbox, signup, crossed, lapsed>>
    BY <1>3 DEF Republish
  <2>2. \A v, c : Served(v, c) => Served(v, c)'
    BY <2>1 DEF Served, Lapsed, Covered, Ahead
  <2>3. QED
    BY <2>1, <2>2, FeedQuiet
<1>4. ASSUME NEW d \in Clip, EventObsolete(d) PROVE FeedInv'
  <2>1. /\ d \notin aired /\ unsent' = unsent \ {d}
        /\ UNCHANGED <<crowd, fans, clips, aired, fanout, inbox, outbox, signup, crossed, lapsed>>
    BY <1>4 DEF EventObsolete
  <2>2. \A v, c : c # d => (Served(v, c) => Served(v, c)')
    BY <2>1 DEF Served, Lapsed, Covered, Ahead
  <2>3. \A c \in aired : c # d
    BY <2>1
  <2>4. QED
    BY <2>1, <2>2, <2>3, FeedQuiet
<1>5. ASSUME NEW d \in Clip, FanoutCount(d) PROVE FeedInv'
  <2>1. /\ fanout = IdleFanout /\ d \in unsent /\ d \in clips /\ unsent' = unsent \ {d}
        /\ UNCHANGED <<crowd, fans, clips, aired, inbox, signup, crossed, lapsed>>
    BY <1>5, <1>t DEF FanoutCount
  <2>2. CASE IsBig(CountFollowers)
    <3>1. outbox' = AddItem(outbox, d) /\ fanout' = fanout
      BY <1>5, <2>2 DEF FanoutCount
    <3>2. \A c \in Recent : c \in outbox \cup {d} => c \in outbox'
      BY <1>t, <2>1, <3>1, AddKeeps DEF Recent
    <3>3. \A c \in Recent : c \in unsent \cup outbox => c \in unsent' \cup outbox'
      BY <2>1, <3>2
    <3>4. QED
      BY <2>1, <2>2, <3>1, <3>3, FeedQuiet
  <2>3. CASE ~IsBig(CountFollowers)
    <3>1. fanout' = [pc |-> "list", clip |-> d, cursor |-> 0]
      BY <1>5, <2>3 DEF FanoutCount
    <3>2. fanout' # IdleFanout /\ fanout'.clip = d /\ fanout'.cursor = 0
      BY <3>1 DEF IdleFanout
    <3>3. \A v \in fans : v > 0
      BY <1>t, FeedConstants
    <3>4. \A v \in fans : Ahead(v, d)'
      BY <3>2, <3>3 DEF Ahead
    <3>5. ASSUME NEW v \in fans, NEW c, Served(v, c) PROVE Served(v, c)'
      <4>1. CASE c = d
        BY <3>4, <4>1 DEF Served
      <4>2. CASE c # d
        BY <2>1, <3>5, <4>2 DEF Served, Lapsed, Covered, Ahead
      <4>3. QED
        BY <4>1, <4>2
    <3>6. QED
      BY <2>1, <2>3, <3>5, FeedQuiet
  <2>4. QED
    BY <2>2, <2>3
<1>6. ASSUME FanoutBatch PROVE FeedInv'
  <2>1. PICK batch : batch = ListFollowerIDs(fanout.cursor)
    OBVIOUS
  <2>2. /\ fanout.pc = "list" /\ fanout # IdleFanout
        /\ fanout \in [pc: {"list"}, clip: clips, cursor: Nat]
        /\ fanout.clip \in clips /\ fanout.cursor \in Nat
        /\ UNCHANGED <<crowd, fans, clips, aired, unsent, outbox, signup, crossed, lapsed>>
    BY <1>6, <1>t DEF FanoutBatch
  <2>3. /\ inbox' = [v \in Viewer |->
               IF v \in batch THEN AddItem(inbox[v], fanout.clip) ELSE inbox[v]]
        /\ fanout' = IF Cardinality(batch) < BatchSize
                     THEN IdleFanout ELSE [fanout EXCEPT !.cursor = NextCursor(batch)]
    BY <1>6, <2>1 DEF FanoutBatch
  <2>4. /\ Cardinality(batch) < BatchSize => \A v \in fans : v > fanout.cursor => v \in batch
        /\ ~(Cardinality(batch) < BatchSize) =>
              \A v \in fans : v > fanout.cursor => v \in batch \/ v > NextCursor(batch)
    BY <1>t, <2>1, <2>2, BatchCovers
  <2>5. ASSUME NEW v \in fans, NEW c \in Recent
        PROVE  /\ c \in inbox[v] => c \in inbox'[v]
               /\ v \in batch /\ c = fanout.clip => c \in inbox'[v]
    <3>1. \A x \in inbox[v] \cup {fanout.clip} : x \in Recent => x \in AddItem(inbox[v], fanout.clip)
      BY <1>t, <2>2, AddKeeps DEF Recent
    <3>2. inbox'[v] = IF v \in batch THEN AddItem(inbox[v], fanout.clip) ELSE inbox[v]
      BY <1>t, <2>3
    <3>3. QED
      BY <3>1, <3>2
  <2>6. ASSUME NEW v \in fans, NEW c \in Recent, Served(v, c) PROVE Served(v, c)'
    <3>1. CASE c \in unsent \/ Lapsed(v)
      BY <2>2, <3>1 DEF Served, Lapsed
    <3>2. CASE Covered(v, c)
      <4>1. Covered(v, c)'
        BY <2>2, <2>5, <3>2 DEF Covered
      <4>2. QED
        BY <4>1 DEF Served
    <3>3. CASE Ahead(v, c)
      <4>1. c = fanout.clip /\ v > fanout.cursor
        BY <3>3 DEF Ahead
      <4>2. CASE v \in batch
        <5>1. c \in inbox'[v]
          BY <2>5, <4>1, <4>2
        <5>2. QED
          BY <5>1 DEF Served, Covered
      <4>3. CASE v \notin batch
        <5>1. ~(Cardinality(batch) < BatchSize) /\ v > NextCursor(batch)
          BY <2>4, <4>1, <4>3
        <5>2. fanout' = [fanout EXCEPT !.cursor = NextCursor(batch)]
          BY <2>3, <5>1
        <5>3. fanout'.pc = "list" /\ fanout'.clip = fanout.clip /\ fanout'.cursor = NextCursor(batch)
          BY <2>2, <5>2
        <5>4. fanout' # IdleFanout
          BY <5>3 DEF IdleFanout
        <5>5. QED
          BY <4>1, <5>1, <5>3, <5>4 DEF Served, Ahead
      <4>4. QED
        BY <4>2, <4>3
    <3>4. QED
      BY <2>6, <3>1, <3>2, <3>3 DEF Served
  <2>7. QED
    BY <2>2, <2>6, FeedQuiet
<1>7. ASSUME FanoutFails PROVE FeedInv'
  <2>1. /\ fanout # IdleFanout /\ fanout' = IdleFanout /\ unsent' = unsent \cup {fanout.clip}
        /\ UNCHANGED <<crowd, fans, clips, aired, inbox, outbox, signup, crossed, lapsed>>
    BY <1>7 DEF FanoutFails
  <2>2. \A v, c : Served(v, c) => Served(v, c)'
    BY <2>1 DEF Served, Lapsed, Covered, Ahead
  <2>3. QED
    BY <2>1, <2>2, FeedQuiet
<1>8. QED
  BY <1>1, <1>2, <1>3, <1>4, <1>5, <1>6, <1>7

\* The steps of a follow, an unfollow, a backfill and of time keep the invariant.
LEMMA BackfillInvNext ==
    ASSUME FeedInv, FeedTypeOK', NEW v \in Viewer,
           \/ FollowCommits(v) \/ UnfollowCommits(v)
           \/ BackfillCount(v) \/ BackfillRead(v) \/ BackfillAdd(v) \/ BackfillFails(v)
           \/ InboxExpires(v)
    PROVE  FeedInv'
<1>t. /\ FeedTypeOK /\ fans \subseteq Viewer /\ clips \subseteq Clip /\ aired \subseteq clips
      /\ clips \subseteq Nat /\ IsFiniteSet(clips)
      /\ \A w \in Viewer :
            /\ inbox[w] \subseteq clips
            /\ signup[w] \in [pc: {"idle", "count", "read", "fill"}, todo: SUBSET clips]
            /\ signup[w].todo \subseteq clips
  BY FeedTypes DEF FeedInv
<1>s. /\ signup \in [Viewer -> [pc: {"idle", "count", "read", "fill"}, todo: SUBSET clips]]
      /\ inbox \in [Viewer -> SUBSET clips]
  BY <1>t DEF FeedTypeOK
<1>o. ASSUME NEW w, NEW c, UNCHANGED <<unsent, fanout>>, inbox'[w] = inbox[w],
             signup'[w] = signup[w], w \in lapsed' <=> w \in lapsed, Served(w, c)
      PROVE  Served(w, c)'
  BY <1>o DEF Served, Lapsed, Covered, Ahead
<1>1. CASE FollowCommits(v)
  <2>1. /\ signup[v].pc = "idle" /\ SetFans(fans \cup {v})
        /\ signup' = [signup EXCEPT ![v].pc = "count"]
        /\ UNCHANGED <<crowd, clips, aired, unsent, fanout, inbox, outbox, lapsed>>
    BY <1>1 DEF FollowCommits
  <2>2. signup'[v].pc = "count" /\ \A w \in Viewer : w # v => signup'[w] = signup[w]
    BY <1>s, <2>1
  <2>3. \A c : Served(v, c)'
    BY <2>2 DEF Served, Covered
  <2>4. \A w \in Viewer, c \in aired : w # v => (Served(w, c) => Served(w, c)')
    BY <1>o, <2>1, <2>2
  <2>5. \A w \in fans \cup {v}, c \in aired :
            Served(w, c)' \/ (w \in fans /\ (Served(w, c) => Served(w, c)'))
    BY <1>t, <2>3, <2>4
  <2>6. fans \cup {v} \in SUBSET Viewer
    BY <1>t
  <2>7. QED
    BY <2>1, <2>5, <2>6, FeedAudience
<1>2. CASE UnfollowCommits(v)
  <2>1. /\ SetFans(fans \ {v})
        /\ UNCHANGED <<crowd, clips, aired, unsent, fanout, inbox, outbox, signup, lapsed>>
    BY <1>2 DEF UnfollowCommits
  <2>2. \A w \in fans \ {v}, c \in aired :
            Served(w, c)' \/ (w \in fans /\ (Served(w, c) => Served(w, c)'))
    BY <1>o, <2>1
  <2>3. fans \ {v} \in SUBSET Viewer
    BY <1>t
  <2>4. QED
    BY <2>1, <2>2, <2>3, FeedAudience
<1>3. CASE BackfillCount(v)
  <2>1. /\ signup[v].pc = "count"
        /\ signup' = [signup EXCEPT ![v].pc = IF IsBig(CountFollowers) THEN "idle" ELSE "read"]
        /\ UNCHANGED <<crowd, fans, clips, aired, unsent, fanout, inbox, outbox, crossed, lapsed>>
    BY <1>3 DEF BackfillCount
  <2>2. CASE IsBig(CountFollowers)
    BY <2>1, <2>2, FeedQuiet
  <2>3. CASE ~IsBig(CountFollowers)
    <3>1. signup'[v].pc = "read" /\ \A w \in Viewer : w # v => signup'[w] = signup[w]
      BY <1>s, <2>1, <2>3
    <3>2. \A c : Served(v, c)'
      BY <3>1 DEF Served, Covered
    <3>3. \A w \in Viewer, c \in aired : Served(w, c) => Served(w, c)'
      BY <1>o, <2>1, <3>1, <3>2
    <3>4. \A w \in fans, c \in aired : Served(w, c) => Served(w, c)'
      BY <1>t, <3>3
    <3>5. QED
      BY <2>1, <2>3, <3>4, FeedQuiet
  <2>4. QED
    BY <2>2, <2>3
<1>4. CASE BackfillRead(v)
  <2>1. /\ signup' = [signup EXCEPT ![v] = [pc |-> "fill", todo |-> Newest(aired, BackfillMax)]]
        /\ UNCHANGED <<crowd, fans, clips, aired, unsent, fanout, inbox, outbox, crossed, lapsed>>
    BY <1>4 DEF BackfillRead
  <2>2. /\ signup'[v].pc = "fill" /\ signup'[v].todo = Newest(aired, BackfillMax)
        /\ \A w \in Viewer : w # v => signup'[w] = signup[w]
    BY <1>s, <2>1
  <2>3. ASSUME NEW c \in aired \cap Recent PROVE Served(v, c)'
    <3>1. c \in aired /\ c \in Newest(clips, Shown)
      BY <2>3 DEF Recent
    <3>2. c \in Newest(aired, BackfillMax)
      BY <1>t, <3>1, ShownTypes, NewestKeeps
    <3>3. QED
      BY <2>2, <3>2 DEF Served, Covered
  <2>4. \A w \in Viewer, c \in aired \cap Recent : Served(w, c) => Served(w, c)'
    BY <1>o, <2>1, <2>2, <2>3
  <2>5. \A w \in fans, c \in aired \cap Recent : Served(w, c) => Served(w, c)'
    BY <1>t, <2>4
  <2>6. QED
    BY <2>1, <2>5, FeedQuiet
<1>5. CASE BackfillAdd(v)
  <2>1. /\ signup[v].pc = "fill"
        /\ UNCHANGED <<crowd, fans, clips, aired, unsent, fanout, outbox, crossed>>
    BY <1>5 DEF BackfillAdd
  <2>2. CASE signup[v].todo = {}
    <3>1. /\ signup' = [signup EXCEPT ![v].pc = "idle"] /\ lapsed' = lapsed \ {v} /\ inbox' = inbox
      BY <1>5, <2>2 DEF BackfillAdd
    <3>2. /\ signup'[v].pc = "idle" /\ \A w \in Viewer : w # v => signup'[w] = signup[w]
      BY <1>s, <3>1
    <3>3. ASSUME NEW c, Served(v, c) PROVE Served(v, c)'
      <4>1. c \in unsent \/ c \in inbox[v] \/ Ahead(v, c)
        BY <2>1, <2>2, <3>3 DEF Served, Lapsed, Covered
      <4>2. QED
        BY <2>1, <3>1, <4>1 DEF Served, Covered, Ahead
    <3>4. \A w \in Viewer, c \in aired : Served(w, c) => Served(w, c)'
      BY <1>o, <2>1, <3>1, <3>2, <3>3
    <3>5. \A w \in fans, c \in aired : Served(w, c) => Served(w, c)'
      BY <1>t, <3>4
    <3>6. QED
      BY <2>1, <3>5, FeedQuiet
  <2>3. CASE signup[v].todo # {}
    <3>0. signup[v].todo \subseteq Nat /\ IsFiniteSet(signup[v].todo)
      BY <1>t, FS_Subset
    <3>1. PICK d \in clips : d = Max(signup[v].todo)
      BY <1>t, <2>3, <3>0, MaxIs
    <3>2. /\ inbox' = [inbox EXCEPT ![v] = AddItem(inbox[v], d)]
          /\ signup' = [signup EXCEPT ![v].todo = signup[v].todo \ {d}]
          /\ lapsed' = lapsed
      BY <1>5, <2>3, <3>1 DEF BackfillAdd
    <3>3. /\ signup'[v].pc = "fill" /\ signup'[v].todo = signup[v].todo \ {d}
          /\ \A w \in Viewer : w # v => signup'[w] = signup[w] /\ inbox'[w] = inbox[w]
          /\ inbox'[v] = AddItem(inbox[v], d)
      BY <1>s, <2>1, <3>2
    <3>4. \A c \in inbox[v] \cup {d} : c \in Recent => c \in inbox'[v]
      BY <1>t, <3>1, <3>3, AddKeeps DEF Recent
    <3>5. ASSUME NEW c \in Recent, Served(v, c) PROVE Served(v, c)'
      <4>1. c \in unsent \/ c \in inbox[v] \/ c \in signup[v].todo \/ Ahead(v, c)
        BY <2>1, <3>5 DEF Served, Lapsed, Covered
      <4>2. CASE c \in unsent \/ Ahead(v, c)
        BY <2>1, <4>2 DEF Served, Ahead
      <4>3. CASE c \in inbox[v] \cup signup[v].todo
        <5>1. c \in inbox'[v] \/ c \in signup'[v].todo
          BY <3>3, <3>4, <4>3
        <5>2. QED
          BY <3>3, <5>1 DEF Served, Covered
      <4>4. QED
        BY <4>1, <4>2, <4>3
    <3>6. \A w \in Viewer, c \in Recent : Served(w, c) => Served(w, c)'
      BY <1>o, <2>1, <3>2, <3>3, <3>5
    <3>7. \A w \in fans, c \in Recent : Served(w, c) => Served(w, c)'
      BY <1>t, <3>6
    <3>8. QED
      BY <2>1, <3>7, FeedQuiet
  <2>4. QED
    BY <2>2, <2>3
<1>6. CASE BackfillFails(v)
  <2>1. /\ signup' = [signup EXCEPT ![v] = [pc |-> "idle", todo |-> {}]]
        /\ lapsed' = lapsed \cup {v}
        /\ UNCHANGED <<crowd, fans, clips, aired, unsent, fanout, inbox, outbox, crossed>>
    BY <1>6 DEF BackfillFails
  <2>2. signup'[v].pc = "idle" /\ \A w \in Viewer : w # v => signup'[w] = signup[w]
    BY <1>s, <2>1
  <2>3. \A c : Served(v, c)'
    BY <2>1, <2>2 DEF Served, Lapsed
  <2>4. \A w \in Viewer, c \in aired : Served(w, c) => Served(w, c)'
    BY <1>o, <2>1, <2>2, <2>3
  <2>5. \A w \in fans, c \in aired : Served(w, c) => Served(w, c)'
    BY <1>t, <2>4
  <2>6. QED
    BY <2>1, <2>5, FeedQuiet
<1>7. CASE InboxExpires(v)
  <2>1. /\ signup[v].pc # "fill" /\ inbox' = [inbox EXCEPT ![v] = {}] /\ lapsed' = lapsed \cup {v}
        /\ UNCHANGED <<crowd, fans, clips, aired, unsent, fanout, outbox, signup, crossed>>
    BY <1>7 DEF InboxExpires
  <2>2. \A w \in Viewer : w # v => inbox'[w] = inbox[w]
    BY <1>s, <2>1
  <2>3. \A c : Served(v, c)'
    BY <2>1 DEF Served, Lapsed
  <2>4. \A w \in Viewer, c \in aired : Served(w, c) => Served(w, c)'
    BY <1>o, <2>1, <2>2, <2>3
  <2>5. \A w \in fans, c \in aired : Served(w, c) => Served(w, c)'
    BY <1>t, <2>4
  <2>6. QED
    BY <2>1, <2>5, FeedQuiet
<1>8. QED
  BY <1>1, <1>2, <1>3, <1>4, <1>5, <1>6, <1>7

\* Every step of the following feed keeps the invariant.
LEMMA FeedInvNext == ASSUME FeedInv, [FeedNext]_feedVars PROVE FeedInv'
<1>1. FeedTypeOK'
  BY FeedTypesNext DEF FeedInv
<1>2. CASE UNCHANGED feedVars
  <2>1. UNCHANGED <<crowd, fans, clips, aired, unsent, fanout, inbox, outbox, signup, crossed, lapsed>>
    BY <1>2 DEF feedVars
  <2>2. \A v, c : Served(v, c) => Served(v, c)'
    BY <2>1 DEF Served, Lapsed, Covered, Ahead
  <2>3. QED
    BY <1>1, <2>1, <2>2, FeedQuiet
<1>3. CASE \E v \in Viewer :
          \/ FollowCommits(v) \/ UnfollowCommits(v)
          \/ BackfillCount(v) \/ BackfillRead(v) \/ BackfillAdd(v) \/ BackfillFails(v)
          \/ InboxExpires(v)
  BY <1>1, <1>3, BackfillInvNext
<1>4. CASE \/ \E c \in Clip : Release(c) \/ Withdraw(c) \/ Republish(c) \/ EventObsolete(c)
                             \/ FanoutCount(c)
           \/ FanoutBatch \/ FanoutFails
  BY <1>1, <1>4, FanoutInvNext
<1>5. QED
  BY <1>2, <1>3, <1>4 DEF FeedNext

\* The types of the following feed.
THEOREM FollowingTyped == FeedSpec => []FeedTypeOK
<1>1. FeedInv => FeedTypeOK
  BY DEF FeedInv
<1>2. QED
  BY <1>1, FeedInvInit, FeedInvNext, PTL DEF FeedSpec

\* Nobody is missed between the fan-out and the backfill, however many followers,
\* batches and videos there are (HandleVideoPublished, setFollow, listFollowingItems).
THEOREM NobodyIsMissed == FeedSpec => []NobodyMissed
<1>1. FeedInv => NobodyMissed
  <2> SUFFICES ASSUME FeedInv, NEW v \in fans, NEW c \in aired,
                      c \notin unsent, ~(fanout # IdleFanout /\ fanout.clip = c),
                      signup[v].pc = "idle", v \notin lapsed, ~crossed,
                      c \in Newest(clips, Min({InboxMax, BackfillMax}))
               PROVE  c \in FollowingItems(v)
    BY DEF NobodyMissed
  <2>1. crossed = FALSE
    BY Zenon DEF FeedInv, FeedTypeOK
  <2>2. c \in aired \cap Recent
    BY DEF Recent, Shown
  <2>3. CASE IsBig(CountFollowers)
    <3>1. c \in outbox
      BY <2>1, <2>2, <2>3 DEF FeedInv, PullInv
    <3>2. c \in IndexPage(v)
      BY <2>3, <3>1 DEF IndexPage, PulledOutbox
    <3>3. QED
      BY <3>2 DEF FollowingItems
  <2>4. CASE ~IsBig(CountFollowers)
    <3>1. Served(v, c)
      BY <2>1, <2>2, <2>4 DEF FeedInv, PushInv
    <3>2. c \in inbox[v]
      BY <3>1 DEF Served, Lapsed, Covered, Ahead
    <3>3. c \in IndexPage(v)
      BY <3>2 DEF IndexPage
    <3>4. QED
      BY <3>3 DEF FollowingItems
  <2>5. QED
    BY <2>3, <2>4
<1>2. QED
  BY <1>1, FeedInvInit, FeedInvNext, PTL DEF FeedSpec

(***************************************************************************)
(* The hot ranking.                                                        *)
(***************************************************************************)

Scores == UNION {[S -> Int] : S \in SUBSET Song}

WindowState == {w \in [pc: {"raw", "cached"}, scores: Scores] : DOMAIN w.scores # {}}

HotRows ==
    /\ minute \in Minute
    /\ bucket \in [Minute -> Scores]
    /\ window \in [Minute -> WindowState \cup {NoWindow}]
    /\ browser \in [Browser -> BrowserState]
    /\ heat \in 0..MaxHeat
    /\ outages \in 0..MaxOutages
    /\ builds \in [Minute -> SUBSET Scores]
    /\ \A m \in Minute : IsFiniteSet(builds[m])

\* How many rank above a video.
Place(f, s) == Cardinality({t \in DOMAIN f : Higher(f, t, s)})

\* A window has the scores it was built from, or those of them that are positive.
BuiltInv ==
    \A m \in Minute : window[m] # NoWindow =>
        \E f \in builds[m] : window[m].scores \in {f, Positive(f)}

\* What a reader has been shown of a window that was built once are its first
\* places, in their order, up to the offset of the cursor.
ShownInv(x) ==
    /\ x.source = "none" => x.seen = <<>> /\ x.offset = 0
    /\ x.pc = "repo" => x.source # "window"
    /\ x.source = "window" => builds[x.end] # {} /\ Len(x.seen) = x.offset
    /\ x.source = "window" =>
          \A f \in builds[x.end] : builds[x.end] = {f} =>
              \A i \in 1..Len(x.seen) : x.seen[i] \in DOMAIN f /\ Place(f, x.seen[i]) = i - 1

HotInv == HotRows /\ BuiltInv /\ \A b \in Browser : ShownInv(browser[b])

\* Scores are a function from videos to numbers.
LEMMA ScoresAre ==
    ASSUME NEW f
    PROVE  f \in Scores <=> IsScores(f)
<1>1. ASSUME f \in Scores PROVE IsScores(f)
  <2>1. PICK S \in SUBSET Song : f \in [S -> Int]
    BY <1>1 DEF Scores
  <2>2. DOMAIN f = S
    BY <2>1
  <2>3. QED
    BY <2>1, <2>2 DEF IsScores
<1>2. ASSUME IsScores(f) PROVE f \in Scores
  <2>1. PICK S \in SUBSET Song : S = DOMAIN f
    BY <1>2 DEF IsScores
  <2>2. f \in [S -> Int]
    BY <1>2, <2>1 DEF IsScores
  <2>3. QED
    BY <2>2 DEF Scores
<1>3. QED
  BY <1>1, <1>2

\* Scores, one by one.
LEMMA ScoreTypes ==
    ASSUME NEW f \in Scores
    PROVE  /\ DOMAIN f \subseteq Song /\ IsFiniteSet(DOMAIN f)
           /\ \A s \in DOMAIN f : s \in Nat /\ f[s] \in Int
<1>1. IsScores(f)
  BY ScoresAre
<1>2. DOMAIN f \subseteq Song /\ \A s \in DOMAIN f : f[s] \in Int
  BY <1>1 DEF IsScores
<1>3. QED
  BY <1>2, HotConstants, FS_Subset

\* Scores add up to scores.
LEMMA PlusTyped ==
    ASSUME NEW f \in Scores, NEW g \in Scores
    PROVE  /\ Plus(f, g) \in Scores
           /\ DOMAIN Plus(f, g) = DOMAIN f \cup DOMAIN g
<1>1. /\ DOMAIN f \subseteq Song /\ DOMAIN g \subseteq Song
      /\ \A s \in DOMAIN f : f[s] \in Int
      /\ \A s \in DOMAIN g : g[s] \in Int
  BY ScoreTypes
<1>2. PICK S \in SUBSET Song : S = DOMAIN f \cup DOMAIN g
  BY <1>1
<1>3. Plus(f, g) = [s \in S |-> (IF s \in DOMAIN f THEN f[s] ELSE 0)
                                + (IF s \in DOMAIN g THEN g[s] ELSE 0)]
  BY <1>2 DEF Plus
<1>4. \A s \in S : (IF s \in DOMAIN f THEN f[s] ELSE 0)
                     + (IF s \in DOMAIN g THEN g[s] ELSE 0) \in Int
  BY <1>1
<1>5. Plus(f, g) \in [S -> Int] /\ DOMAIN Plus(f, g) = S
  BY <1>3, <1>4
<1>6. QED
  BY <1>2, <1>5 DEF Scores

\* The sum of some minutes, over what it begins with.
LEMMA SumTyped ==
    ASSUME NEW T, NEW base \in T, NEW S, IsFiniteSet(S),
           \A m \in S : \A f \in T : Plus(bucket[m], f) \in T
    PROVE  FoldSet(LAMBDA m, f : Plus(bucket[m], f), base, S) \in T
<1> DEFINE one(s) == CHOOSE x \in s : TRUE
           body(F) == [s \in SUBSET S |-> IF s = {} THEN base
                                          ELSE Plus(bucket[one(s)], F[s \ {one(s)}])]
           G == CHOOSE F : F = body(F)
<1>1. FoldSet(LAMBDA m, f : Plus(bucket[m], f), base, S) = G[S]
  BY DEF FoldSet, MapThenFoldSet
<1>2. PICK pick : pick = [s \in SUBSET S |-> one(s)]
  OBVIOUS
<1>3. \A s \in SUBSET S : pick[s] = one(s) /\ (s # {} => pick[s] \in s)
  BY <1>2
<1> HIDE DEF one
<1>4. PICK step : step = [p \in S \X T |-> Plus(bucket[p[1]], p[2])]
  OBVIOUS
<1>5. step \in [S \X T -> T] /\ \A m \in S, f \in T : step[<<m, f>>] = Plus(bucket[m], f)
  BY <1>4
<1>p. Picks(pick, S)
  BY <1>3 DEF Picks
<1>0. PICK W \in [SUBSET S -> T] : FoldsBy(W, base, step, pick, S)
  BY <1>p, <1>5, FoldExists
<1>6. /\ W \in [SUBSET S -> T] /\ W[{}] = base
      /\ \A s \in SUBSET S : s # {} => W[s] = step[<<pick[s], W[s \ {pick[s]}]>>]
  BY <1>0 DEF FoldsBy
<1>7. W = body(W)
  <2>1. ASSUME NEW s \in SUBSET S
        PROVE  W[s] = IF s = {} THEN base ELSE Plus(bucket[one(s)], W[s \ {one(s)}])
    <3>1. CASE s = {}
      BY <1>6, <3>1
    <3>2. CASE s # {}
      <4>1. PICK x \in S : x = one(s) /\ x = pick[s]
        BY <1>3, <3>2
      <4>2. W[s \ {x}] \in T
        BY <1>6
      <4>3. W[s] = step[<<x, W[s \ {x}]>>]
        BY <1>6, <3>2, <4>1
      <4>4. step[<<x, W[s \ {x}]>>] = Plus(bucket[x], W[s \ {x}])
        BY <1>5, <4>2
      <4>5. QED
        BY <3>2, <4>1, <4>3, <4>4
    <3>3. QED
      BY <3>1, <3>2
  <2>2. W = [s \in SUBSET S |-> W[s]]
    BY <1>6
  <2>3. QED
    BY <2>1, <2>2
<1>8. G = body(G)
  <2> HIDE DEF body
  <2>1. QED
    BY <1>7
<1>9. \A s \in SUBSET S : G[s] = IF s = {} THEN base ELSE Plus(bucket[one(s)], G[s \ {one(s)}])
  <2> HIDE DEF G
  <2>1. QED
    BY <1>8
<1> HIDE DEF G, body
<1>10. PICK Good : Good = {s \in SUBSET S : G[s] \in T}
  OBVIOUS
<1>11. {} \in Good
  BY <1>9, <1>10
<1>12. ASSUME NEW s \in SUBSET S, s # {}, s \ {pick[s]} \in Good PROVE s \in Good
  <2>1. PICK x \in S : x = one(s) /\ x = pick[s]
    BY <1>3, <1>12
  <2>2. G[s \ {x}] \in T
    BY <1>10, <1>12, <2>1
  <2>3. G[s] = Plus(bucket[x], G[s \ {x}])
    BY <1>9, <1>12, <2>1
  <2>4. QED
    BY <1>10, <2>2, <2>3
<1>13. S \in Good
  <2>1. Grows(Good, pick, S)
    BY <1>11, <1>12 DEF Grows
  <2>2. QED
    BY <1>p, <2>1, EverySubset
<1>14. G[S] \in T
  BY <1>10, <1>13
<1>15. QED
  BY <1>1, <1>14, Zenon

\* The window of a minute is the sum of scores, and MySQL counts every video.
LEMMA SumsTyped ==
    ASSUME bucket \in [Minute -> Scores]
    PROVE  /\ \A end \in Minute : Union(end) \in Scores
           /\ HotScore \in [Song -> Int]
<1>1. IsFiniteSet(Minute)
  BY HotConstants, FS_Interval DEF Minute
<1>2. NoScores \in Scores
  <2>1. IsScores(NoScores)
    BY DEF IsScores, NoScores
  <2>2. QED
    BY <2>1, ScoresAre
<1>3. ASSUME NEW end \in Minute PROVE Union(end) \in Scores
  <2>1. PICK S : S = {m \in Minute : m <= end /\ m > end - WindowSpan}
    OBVIOUS
  <2>2. IsFiniteSet(S) /\ S \subseteq Minute
    BY <1>1, <2>1, FS_Subset
  <2>3. \A m \in S : \A f \in Scores : Plus(bucket[m], f) \in Scores
    BY <2>2, PlusTyped
  <2>4. FoldSet(LAMBDA m, f : Plus(bucket[m], f), NoScores, S) \in Scores
    BY <1>2, <2>2, <2>3, SumTyped, Zenon
  <2>5. QED
    BY <2>1, <2>4, Zenon DEF Union
<1>4. HotScore \in [Song -> Int]
  <2>1. PICK T : T = [Song -> Int]
    OBVIOUS
  <2>2. \A f \in T : f \in Scores /\ DOMAIN f = Song
    BY <2>1 DEF Scores
  <2>3. PICK zero : zero = [s \in Song |-> 0]
    OBVIOUS
  <2>4. zero \in T
    BY <2>1, <2>3
  <2>5. ASSUME NEW m \in Minute, NEW f \in T PROVE Plus(bucket[m], f) \in T
    <3>1. bucket[m] \in Scores /\ f \in Scores /\ DOMAIN f = Song
      BY <2>2
    <3>2. DOMAIN bucket[m] \subseteq Song
      BY <3>1, ScoreTypes
    <3>3. PICK g : g = Plus(bucket[m], f)
      OBVIOUS
    <3>4. g \in Scores /\ DOMAIN g = Song
      BY <3>1, <3>2, <3>3, PlusTyped
    <3>5. g \in [Song -> Int]
      BY <3>4, ScoresAre DEF IsScores
    <3>6. QED
      BY <2>1, <3>3, <3>5
  <2>6. FoldSet(LAMBDA m, f : Plus(bucket[m], f), zero, Minute) \in T
    BY <1>1, <2>4, <2>5, SumTyped, Zenon
  <2>7. QED
    BY <2>1, <2>3, <2>6, Zenon DEF HotScore
<1>5. QED
  BY <1>3, <1>4

\* Each video of a set stands at its place.
Placed(r, S, f) ==
    /\ Len(r) = Cardinality(S) /\ Cardinality(S) \in Nat
    /\ \A i \in 1..Cardinality(S) : r[i] \in S /\ Standing(S, f, r[i]) = i - 1

InOrder(S, f) == [i \in 1..Cardinality(S) |-> CHOOSE s \in S : Standing(S, f, s) = i - 1]

\* What is put in order is a sequence, with everyone at its place.
LEMMA InOrderIs ==
    ASSUME NEW S, NEW f, Scored(S, f)
    PROVE  InOrder(S, f) \in Seq(S) /\ Placed(InOrder(S, f), S, f)
<1>1. S \subseteq Nat /\ IsFiniteSet(S) /\ Cardinality(S) \in Nat
  BY FS_CardinalityType DEF Scored
<1>2. PICK n \in Nat : n = Cardinality(S)
  BY <1>1
<1>3. \A k \in Nat : k < n => \E s \in S : Standing(S, f, s) = k
  BY <1>2, PlacesTaken
<1>4. PICK r : r = [i \in 1..n |-> CHOOSE s \in S : Standing(S, f, s) = i - 1]
  OBVIOUS
<1>5. \A i \in 1..n : r[i] \in S /\ Standing(S, f, r[i]) = i - 1
  <2>1. ASSUME NEW i \in 1..n PROVE r[i] \in S /\ Standing(S, f, r[i]) = i - 1
    <3>1. i - 1 \in Nat /\ i - 1 < n
      OBVIOUS
    <3>2. \E s \in S : Standing(S, f, s) = i - 1
      BY <1>3, <3>1
    <3>3. r[i] = CHOOSE s \in S : Standing(S, f, s) = i - 1
      BY <1>4
    <3>4. QED
      BY <3>2, <3>3
  <2>2. QED
    BY <2>1
<1>6. r \in [1..n -> S]
  BY <1>4, <1>5
<1>7. r \in Seq(S) /\ Len(r) = n
  BY <1>2, <1>6
<1>8. InOrder(S, f) = r
  BY <1>2, <1>4 DEF InOrder
<1>9. Placed(r, S, f)
  BY <1>1, <1>2, <1>5, <1>7 DEF Placed
<1>10. QED
  BY <1>7, <1>8, <1>9

\* A ranking is a sequence in which each video has its place.
LEMMA RankedIs ==
    ASSUME NEW S, S \subseteq Song, NEW f, \A s \in S : f[s] \in Int
    PROVE  Ranked(S, f) \in Seq(S) /\ Placed(Ranked(S, f), S, f)
<1>1. Scored(S, f)
  BY HotConstants, FS_Subset DEF Scored
<1>2. Ranked(S, f) = InOrder(S, f)
  BY DEF Ranked, Higher, InOrder, Standing
<1>3. QED
  BY <1>1, <1>2, InOrderIs

\* What is positive ranks as high among the positive as among all.
LEMMA PositivePlaces ==
    ASSUME NEW f \in Scores
    PROVE  /\ Positive(f) \in Scores
           /\ Positive(Positive(f)) = Positive(f)
           /\ \A s \in DOMAIN Positive(f) :
                 s \in DOMAIN f /\ Place(Positive(f), s) = Place(f, s)
<1>1. PICK g : g = Positive(f)
  OBVIOUS
<1>2. PICK D : D = {t \in DOMAIN f : f[t] > 0}
  OBVIOUS
<1>3. DOMAIN f \subseteq Song /\ \A s \in DOMAIN f : s \in Nat /\ f[s] \in Int
  BY ScoreTypes
<1>4. g = [s \in D |-> f[s]] /\ D \subseteq DOMAIN f /\ \A s \in D : f[s] > 0
  BY <1>1, <1>2 DEF Positive
<1>5. g \in Scores
  <2>1. g \in [D -> Int] /\ D \in SUBSET Song
    BY <1>3, <1>4
  <2>2. QED
    BY <2>1 DEF Scores
<1>6. Positive(g) = g
  <2>1. {t \in DOMAIN g : g[t] > 0} = D
    BY <1>4
  <2>2. Positive(g) = [s \in D |-> g[s]]
    BY <2>1 DEF Positive
  <2>3. QED
    BY <1>4, <2>2
<1>7. ASSUME NEW s \in D PROVE Place(g, s) = Place(f, s)
  <2>1. ASSUME NEW t PROVE t \in D /\ Higher(g, t, s) <=> t \in DOMAIN f /\ Higher(f, t, s)
    <3>1. CASE t \in D
      BY <1>3, <1>4, <3>1 DEF Higher
    <3>2. CASE t \in DOMAIN f /\ t \notin D
      <4>1. ~(f[t] > 0) /\ f[t] \in Int /\ f[s] > 0 /\ f[s] \in Int
        BY <1>2, <1>3, <1>4, <3>2
      <4>2. QED
        BY <3>2, <4>1 DEF Higher
    <3>3. CASE t \notin DOMAIN f
      BY <1>4, <3>3
    <3>4. QED
      BY <3>1, <3>2, <3>3
  <2>2. {t \in DOMAIN g : Higher(g, t, s)} = {t \in DOMAIN f : Higher(f, t, s)}
    BY <1>4, <2>1
  <2>3. QED
    BY <2>2 DEF Place
<1>8. QED
  BY <1>1, <1>4, <1>5, <1>6, <1>7

\* What a reader is made of.
LEMMA BrowserTypes ==
    ASSUME NEW x \in BrowserState
    PROVE  /\ x.pc \in {"idle", "union", "trim", "range", "repo", "done"}
           /\ x.source \in {"none", "window", "mysql"} /\ x.end \in Minute /\ x.offset \in Nat
           /\ x.below \in Seq(Int) /\ x.seen \in Seq(Song) /\ Len(x.seen) \in Nat
BY LenProperties DEF BrowserState

\* A window is read as scores with a member.
LEMMA WindowTypes ==
    ASSUME NEW w \in WindowState \cup {NoWindow}, w # NoWindow
    PROVE  w \in WindowState /\ w.scores \in Scores /\ DOMAIN w.scores # {}
BY DEF WindowState

\* What is stored under a window's key.
LEMMA KeyedTyped ==
    ASSUME NEW pc \in {"raw", "cached"}, NEW f \in Scores
    PROVE  /\ Keyed(pc, f) \in WindowState \cup {NoWindow}
           /\ Keyed(pc, f) # NoWindow => Keyed(pc, f).scores = f
BY DEF Keyed, WindowState

\* The invariant holds when nobody has read.
LEMMA HotInvInit == HotInit => HotInv
<1> SUFFICES ASSUME HotInit PROVE HotInv
  OBVIOUS
<1>1. NoScores \in Scores /\ [s \in Song |-> 1] \in Scores
  <2>1. IsScores(NoScores) /\ IsScores([s \in Song |-> 1])
    BY DEF IsScores, NoScores
  <2>2. QED
    BY <2>1, ScoresAre
<1>2. minute \in Minute /\ 0 \in Minute
  BY HotConstants DEF HotInit, Minute
<1>3. bucket \in [Minute -> Scores]
  <2>1. PICK first \in Scores : bucket = [m \in Minute |-> IF m = 0 THEN first ELSE NoScores]
    BY <1>1 DEF HotInit
  <2>2. QED
    BY <1>1, <2>1
<1>4. window = [m \in Minute |-> NoWindow] /\ builds = [m \in Minute |-> {}]
      /\ browser = [b \in Browser |-> IdleBrowser]
  BY DEF HotInit
<1>5. IdleBrowser \in BrowserState
  BY <1>2, EmptySeq DEF IdleBrowser, BrowserState
<1>6. HotRows
  BY <1>2, <1>3, <1>4, <1>5, FS_EmptySet, HotConstants DEF HotRows, HotInit
<1>7. BuiltInv
  BY <1>4 DEF BuiltInv
<1>8. ShownInv(IdleBrowser)
  BY DEF ShownInv, IdleBrowser
<1>9. QED
  BY <1>4, <1>6, <1>7, <1>8 DEF HotInv

\* A step of one reader that keeps windows and buckets.
LEMMA ReaderMoves ==
    ASSUME HotInv, NEW b \in Browser, NEW x \in BrowserState, ShownInv(x),
           browser' = [browser EXCEPT ![b] = x],
           UNCHANGED <<minute, bucket, window, heat, builds>>, outages' \in 0..MaxOutages
    PROVE  HotInv'
<1>1. browser \in [Browser -> BrowserState] /\ HotRows
  BY DEF HotInv, HotRows
<1>2. browser' \in [Browser -> BrowserState]
  BY <1>1
<1>3. HotRows'
  BY <1>1, <1>2 DEF HotRows
<1>4. BuiltInv'
  BY DEF HotInv, BuiltInv
<1>5. ASSUME NEW c \in Browser PROVE ShownInv(browser[c])'
  <2>1. PICK y : y = browser'[c] /\ ShownInv(y)
    BY <1>1 DEF HotInv
  <2>2. QED
    BY <2>1 DEF ShownInv
<1>6. QED
  BY <1>3, <1>4, <1>5 DEF HotInv

\* A step that writes a window, and may record what it was built from.
LEMMA WindowMoves ==
    ASSUME HotInv, NEW end \in Minute, NEW w \in WindowState \cup {NoWindow},
           NEW new, new \subseteq Scores, IsFiniteSet(new),
           window' = [window EXCEPT ![end] = w],
           builds' = [builds EXCEPT ![end] = @ \cup new],
           w # NoWindow => \E f \in builds[end] \cup new : w.scores \in {f, Positive(f)},
           browser' \in [Browser -> BrowserState],
           \A c \in Browser : browser'[c] = browser[c] \/ ShownInv(browser'[c]),
           UNCHANGED <<minute, bucket, heat, outages>>
    PROVE  HotInv'
<1>1. HotRows /\ window \in [Minute -> WindowState \cup {NoWindow}]
      /\ builds \in [Minute -> SUBSET Scores]
  BY DEF HotInv, HotRows
<1>2. window' \in [Minute -> WindowState \cup {NoWindow}] /\ builds' \in [Minute -> SUBSET Scores]
  BY <1>1
<1>3. /\ window'[end] = w /\ builds'[end] = builds[end] \cup new
      /\ \A m \in Minute \ {end} : window'[m] = window[m] /\ builds'[m] = builds[m]
  BY <1>1
<1>4. \A m \in Minute : IsFiniteSet(builds'[m])
  <2>1. ASSUME NEW m \in Minute PROVE IsFiniteSet(builds'[m])
    <3>1. IsFiniteSet(builds[m])
      BY <1>1 DEF HotRows
    <3>2. CASE m = end
      <4>1. IsFiniteSet(builds[end] \cup new)
        BY <3>1, <3>2, FS_Union
      <4>2. QED
        BY <1>3, <3>2, <4>1
    <3>3. CASE m # end
      BY <1>3, <3>1, <3>3
    <3>4. QED
      BY <3>2, <3>3
  <2>2. QED
    BY <2>1
<1>5. HotRows'
  BY <1>1, <1>2, <1>4 DEF HotRows
<1>6. BuiltInv'
  <2>1. ASSUME NEW m \in Minute, window'[m] # NoWindow
        PROVE  \E f \in builds'[m] : window'[m].scores \in {f, Positive(f)}
    <3>1. CASE m = end
      BY <1>3, <2>1, <3>1
    <3>2. CASE m # end
      BY <1>3, <2>1, <3>2 DEF HotInv, BuiltInv
    <3>3. QED
      BY <3>1, <3>2
  <2>2. QED
    BY <2>1 DEF BuiltInv
<1>7. ASSUME NEW c \in Browser PROVE ShownInv(browser[c])'
  <2>1. PICK y : y = browser'[c] /\ ShownInv(y) /\ y \in BrowserState
    BY DEF HotInv
  <2>2. y.end \in Minute
    BY <2>1, BrowserTypes
  <2>3. PICK old, now : old = builds[y.end] /\ now = builds'[y.end] /\ old \subseteq now
    BY <1>3, <2>2
  <2>4. \A f \in now : now = {f} /\ old # {} => f \in old /\ old = {f}
    BY <2>3
  <2>5. QED
    BY <2>1, <2>3, <2>4 DEF ShownInv
<1>8. QED
  BY <1>5, <1>6, <1>7 DEF HotInv

\* A reader x who was old has turned a page of a ranking.
Turns(b, ranked, offset, source, old, x) ==
    /\ old \in BrowserState /\ ranked \in Seq(Song) /\ offset \in Nat
    /\ source \in {"window", "mysql"} /\ old = browser[b]
    /\ x = Turn(b, ranked, offset, source)

Turned(ranked, offset, source, old, x) ==
    /\ x \in BrowserState
    /\ x.pc \in {"idle", "done"} /\ x.end = old.end /\ x.below = old.below
    /\ x.source = IF old.source = "none" THEN source ELSE old.source
    /\ x.offset \in Nat /\ Len(x.seen) \in Nat
    /\ x.offset - offset = Len(x.seen) - Len(old.seen)
    /\ \A i \in 1..Len(x.seen) :
          \/ i <= Len(old.seen) /\ x.seen[i] = old.seen[i]
          \/ /\ i > Len(old.seen) /\ offset + i - Len(old.seen) \in 1..Len(ranked)
             /\ x.seen[i] = ranked[offset + i - Len(old.seen)]

\* A page continues what was shown with the places behind the offset.
LEMMA TurnIs ==
    ASSUME NEW b, NEW ranked, NEW offset, NEW source, NEW old, NEW x,
           Turns(b, ranked, offset, source, old, x)
    PROVE  Turned(ranked, offset, source, old, x)
<1>0. /\ old \in BrowserState /\ ranked \in Seq(Song) /\ offset \in Nat
      /\ source \in {"window", "mysql"} /\ old = browser[b]
      /\ x = Turn(b, ranked, offset, source)
  BY DEF Turns
<1>1. /\ Len(ranked) \in Nat /\ HotLimit \in Nat \ {0}
      /\ old.seen \in Seq(Song) /\ Len(old.seen) \in Nat
      /\ \A i \in 1..Len(ranked) : ranked[i] \in Song
  BY <1>0, LenProperties, ElementOfSeq, HotConstants, BrowserTypes
<1>2. PICK upto : upto = Min({offset + HotLimit, Len(ranked)})
  OBVIOUS
<1>3. upto \in Nat /\ upto <= Len(ranked)
  <2>1. PICK T : T = {offset + HotLimit, Len(ranked)}
    OBVIOUS
  <2>2. T \subseteq Nat /\ T # {} /\ Len(ranked) \in T
    BY <1>0, <1>1, <2>1
  <2>3. Min(T) \in T /\ \A y \in T : Min(T) <= y
    BY <1>0, <2>2, MinIs
  <2>4. QED
    BY <1>0, <1>2, <2>1, <2>2, <2>3
<1>4. PICK cut : cut = SubSeq(ranked, offset + 1, upto)
  OBVIOUS
<1>5. /\ cut \in Seq(Song)
      /\ Len(cut) = IF offset + 1 <= upto THEN upto - offset ELSE 0
      /\ \A i \in 1..Len(cut) : cut[i] = ranked[offset + i] /\ offset + i \in 1..Len(ranked)
  <2>1. \A i \in (offset + 1)..upto : ranked[i] \in Song
    BY <1>0, <1>1, <1>3
  <2>2. /\ cut \in Seq(Song)
        /\ Len(cut) = IF offset + 1 <= upto THEN upto - (offset + 1) + 1 ELSE 0
        /\ \A i \in 1..(upto - (offset + 1) + 1) : cut[i] = ranked[offset + 1 + i - 1]
    BY <1>0, <1>3, <1>4, <2>1, SubSeqProperties
  <2>3. QED
    BY <1>0, <1>3, <2>2
<1>6. Len(cut) \in Nat
  BY <1>0, <1>5, LenProperties
<1>7. PICK seen : seen = old.seen \o cut
  OBVIOUS
<1>8. /\ seen \in Seq(Song) /\ Len(seen) = Len(old.seen) + Len(cut)
      /\ \A i \in 1..(Len(old.seen) + Len(cut)) :
            seen[i] = IF i <= Len(old.seen) THEN old.seen[i] ELSE cut[i - Len(old.seen)]
  <2>1. PICK a \in Seq(Song) : a = old.seen
    BY <1>0, <1>1
  <2>2. PICK k \in Seq(Song) : k = cut
    BY <1>0, <1>5
  <2>3. /\ a \o k \in Seq(Song) /\ Len(a \o k) = Len(a) + Len(k)
        /\ \A i \in 1..(Len(a) + Len(k)) :
              (a \o k)[i] = IF i <= Len(a) THEN a[i] ELSE k[i - Len(a)]
    BY ConcatProperties
  <2>4. QED
    BY <1>0, <1>7, <2>1, <2>2, <2>3
<1>9. PICK pc \in {"idle", "done"} : pc = IF Len(ranked) > offset + HotLimit THEN "idle" ELSE "done"
  OBVIOUS
<1>10. x = [old EXCEPT !.pc = pc, !.source = IF @ = "none" THEN source ELSE @,
                       !.seen = seen, !.offset = offset + Len(cut)]
  BY <1>0, <1>2, <1>4, <1>7, <1>9 DEF Turn
<1>11. /\ x \in BrowserState
       /\ x.pc \in {"idle", "done"} /\ x.end = old.end /\ x.below = old.below
       /\ x.source = IF old.source = "none" THEN source ELSE old.source
       /\ x.seen = seen /\ x.offset = offset + Len(cut)
  <2>1. old \in BrowserState
    BY <1>0
  <2>2. offset + Len(cut) \in Nat
    BY <1>0, <1>6
  <2>3. QED
    BY <1>0, <1>8, <1>10, <2>1, <2>2 DEF BrowserState
<1>12. ASSUME NEW i \in 1..Len(seen), ~(i <= Len(old.seen))
       PROVE  /\ offset + i - Len(old.seen) \in 1..Len(ranked)
              /\ seen[i] = ranked[offset + i - Len(old.seen)]
  <2>1. PICK j \in 1..Len(cut) : j = i - Len(old.seen)
    BY <1>0, <1>1, <1>6, <1>8, <1>12
  <2>2. seen[i] = cut[j]
    BY <1>0, <1>1, <1>6, <1>8, <1>12, <2>1
  <2>3. offset + j = offset + i - Len(old.seen)
    BY <1>0, <1>1, <2>1
  <2>4. QED
    BY <1>0, <1>5, <2>2, <2>3
<1>13. \A i \in 1..Len(seen) : i <= Len(old.seen) => seen[i] = old.seen[i]
  BY <1>0, <1>1, <1>6, <1>8
<1>14. x.offset \in Nat /\ Len(x.seen) \in Nat /\ x.offset - offset = Len(x.seen) - Len(old.seen)
  BY <1>0, <1>1, <1>6, <1>8, <1>11
<1>15. ASSUME NEW i \in 1..Len(x.seen)
       PROVE  \/ i <= Len(old.seen) /\ x.seen[i] = old.seen[i]
              \/ /\ i > Len(old.seen) /\ offset + i - Len(old.seen) \in 1..Len(ranked)
                 /\ x.seen[i] = ranked[offset + i - Len(old.seen)]
  <2>1. i \in 1..Len(seen) /\ x.seen = seen
    BY <1>0, <1>11
  <2>2. CASE i <= Len(old.seen)
    BY <1>0, <1>13, <2>1, <2>2
  <2>3. CASE ~(i <= Len(old.seen))
    <3>1. i > Len(old.seen)
      BY <1>0, <1>1, <2>3
    <3>2. QED
      BY <1>0, <1>12, <2>1, <2>3, <3>1
  <2>4. QED
    BY <1>0, <2>2, <2>3
<1>16. QED
  BY <1>11, <1>14, <1>15 DEF Turned

\* Readers step by step.
LEMMA HotReaders ==
    ASSUME HotInv, NEW b \in Browser, AskHot(b) \/ HotRange(b) \/ HotFails(b) \/ HotRepo(b)
    PROVE  HotInv'
<1>t. /\ HotRows /\ browser \in [Browser -> BrowserState] /\ minute \in Minute
      /\ window \in [Minute -> WindowState \cup {NoWindow}]
      /\ bucket \in [Minute -> Scores] /\ builds \in [Minute -> SUBSET Scores]
      /\ outages \in 0..MaxOutages /\ MaxOutages \in Nat
  BY HotConstants DEF HotInv, HotRows
<1>0. PICK old \in BrowserState : old = browser[b]
  BY <1>t
<1>o. /\ ShownInv(old)
      /\ old.pc \in {"idle", "union", "trim", "range", "repo", "done"}
      /\ old.source \in {"none", "window", "mysql"} /\ old.end \in Minute /\ old.offset \in Nat
      /\ old.below \in Seq(Int) /\ old.seen \in Seq(Song) /\ Len(old.seen) \in Nat
  BY <1>0, BrowserTypes DEF HotInv
<1>1. CASE AskHot(b)
  <2>1. PICK end \in Minute : end = WindowEnd(b)
    BY <1>t, <1>0, <1>o DEF WindowEnd
  <2>2. PICK pc \in {"repo", "union", "range"} :
           /\ browser' = [browser EXCEPT ![b].end = end, ![b].pc = pc]
           /\ pc = "repo" => old.source = "mysql"
    BY <1>0, <1>1, <2>1 DEF AskHot
  <2>3. PICK x : x = [old EXCEPT !.end = end, !.pc = pc]
    OBVIOUS
  <2>4. x \in BrowserState
    BY <1>0, <2>3 DEF BrowserState
  <2>5. /\ x.source = old.source /\ x.seen = old.seen /\ x.offset = old.offset
        /\ x.pc = pc /\ x.end = end
    BY <1>0, <2>3 DEF BrowserState
  <2>6. browser' = [browser EXCEPT ![b] = x]
    BY <1>t, <1>0, <2>2, <2>3
  <2>7. x.source = "window" => x.end = old.end
    BY <1>0, <2>1, <2>5 DEF WindowEnd
  <2>8. ShownInv(x)
    BY <1>o, <2>2, <2>5, <2>7 DEF ShownInv
  <2>9. QED
    BY <1>1, <1>t, <2>4, <2>6, <2>8, ReaderMoves DEF AskHot
<1>2. CASE HotFails(b)
  <2>1. PICK pc \in {"repo", "idle"} :
           browser' = [browser EXCEPT ![b].pc = pc] /\ (pc = "repo" => old.source = "none")
    BY <1>0, <1>2 DEF HotFails, MayFallBack
  <2>2. PICK x : x = [old EXCEPT !.pc = pc]
    OBVIOUS
  <2>3. x \in BrowserState
    BY <1>0, <2>2 DEF BrowserState
  <2>4. /\ x.source = old.source /\ x.seen = old.seen /\ x.offset = old.offset
        /\ x.pc = pc /\ x.end = old.end
    BY <1>0, <2>2 DEF BrowserState
  <2>5. browser' = [browser EXCEPT ![b] = x]
    BY <1>t, <1>0, <2>1, <2>2
  <2>6. ShownInv(x)
    BY <1>o, <2>1, <2>4 DEF ShownInv
  <2>7. outages' \in 0..MaxOutages
    BY <1>t, <1>2 DEF HotFails
  <2>8. QED
    BY <1>2, <2>3, <2>5, <2>6, <2>7, ReaderMoves DEF HotFails
<1>3. CASE HotRepo(b)
  <2>1. PICK score \in [Song -> Int] : score = HotScore
    BY <1>t, SumsTyped
  <2>2. PICK under : under = {s \in Song : old.below = <<>> \/ score[s] < old.below[1]
                                \/ (score[s] = old.below[1] /\ s < old.below[2])}
    OBVIOUS
  <2>3. PICK ranked : ranked = Ranked(under, score)
    OBVIOUS
  <2>4. ranked = ListHotPage(score, old.below)
    BY <2>2, <2>3 DEF ListHotPage
  <2>5. ranked \in Seq(Song) /\ Len(ranked) \in Nat
    <3>1. under \subseteq Song /\ \A s \in under : score[s] \in Int
      BY <2>2
    <3>2. ranked \in Seq(under)
      BY <2>3, <3>1, RankedIs
    <3>3. QED
      BY <3>1, <3>2, SeqMonotonic, LenProperties
  <2>6. PICK cut : cut = SubSeq(ranked, 1, Min({HotLimit, Len(ranked)}))
    OBVIOUS
  <2>7. cut = <<>> \/ Last(cut) \in Song
    <3>1. PICK T : T = {HotLimit, Len(ranked)}
      OBVIOUS
    <3>2. T \subseteq Nat /\ T # {} /\ Len(ranked) \in T
      BY <2>5, <3>1, HotConstants
    <3>3. PICK n \in Nat : n = Min(T) /\ n <= Len(ranked)
      BY <3>2, MinIs
    <3>4. \A i \in 1..n : ranked[i] \in Song
      BY <2>5, <3>3, ElementOfSeq
    <3>5. cut \in Seq(Song)
      <4>1. cut = SubSeq(ranked, 1, n)
        BY <2>6, <3>1, <3>3
      <4>2. PICK k \in Nat : k = 1
        OBVIOUS
      <4>3. SubSeq(ranked, k, n) \in Seq(Song)
        BY <3>4, <4>2, SubSeqProperties
      <4>4. QED
        BY <4>1, <4>2, <4>3
    <3>6. CASE cut # <<>>
      <4>1. Len(cut) \in Nat \ {0}
        BY <3>5, <3>6, EmptySeq
      <4>2. cut[Len(cut)] \in Song
        BY <3>5, <4>1, ElementOfSeq
      <4>3. QED
        BY <4>2 DEF Last
    <3>7. QED
      BY <3>6
  <2>8. PICK y : y = Turn(b, ranked, 0, "mysql")
    OBVIOUS
  <2>9. /\ y \in BrowserState /\ y.pc \in {"idle", "done"} /\ y.below = old.below
        /\ y.source = IF old.source = "none" THEN "mysql" ELSE old.source
    <3>1. Turns(b, ranked, 0, "mysql", old, y)
      BY <1>0, <2>5, <2>8 DEF Turns
    <3>2. Turned(ranked, 0, "mysql", old, y)
      BY <3>1, TurnIs
    <3>3. QED
      BY <3>2 DEF Turned
  <2>10. PICK below : below = IF cut = <<>> THEN old.below ELSE <<score[Last(cut)], Last(cut)>>
    OBVIOUS
  <2>11. below \in Seq(Int)
    <3>1. CASE cut = <<>>
      BY <1>o, <2>10, <3>1
    <3>2. CASE cut # <<>>
      <4>1. PICK s \in Song : s = Last(cut)
        BY <2>7, <3>2
      <4>2. score[s] \in Int /\ s \in Int
        BY HotConstants
      <4>3. <<score[s], s>> \in Seq(Int)
        BY <4>2
      <4>4. QED
        BY <2>10, <3>2, <4>1, <4>3
    <3>3. QED
      BY <3>1, <3>2
  <2>12. PICK x : x = [y EXCEPT !.below = below, !.offset = 0]
    OBVIOUS
  <2>13. x \in BrowserState /\ x.source = y.source /\ x.pc = y.pc
    BY <2>9, <2>11, <2>12 DEF BrowserState
  <2>14. old.source # "window"
    BY <1>0, <1>3, <1>o DEF HotRepo, ShownInv
  <2>15. ShownInv(x)
    <3>1. x.source = "mysql"
      BY <1>o, <2>9, <2>13, <2>14
    <3>2. QED
      BY <3>1 DEF ShownInv
  <2>16. browser' = [browser EXCEPT ![b] = x]
    BY <1>3, <1>0, <2>1, <2>4, <2>6, <2>8, <2>9, <2>10, <2>12 DEF HotRepo
  <2>17. QED
    BY <1>3, <1>t, <2>13, <2>15, <2>16, ReaderMoves DEF HotRepo
<1>4. CASE HotRange(b)
  <2>1. PICK w \in WindowState \cup {NoWindow} : w = window[old.end]
    BY <1>t, <1>o
  <2>2. PICK ranked : ranked = IF w = NoWindow THEN <<>> ELSE Ranked(DOMAIN w.scores, w.scores)
    OBVIOUS
  <2>3. ASSUME w # NoWindow
        PROVE  \E f \in builds[old.end] :
                  /\ f \in Scores
                  /\ \A i \in 1..Len(ranked) :
                        ranked[i] \in DOMAIN f /\ Place(f, ranked[i]) = i - 1
    <3>1. PICK f \in builds[old.end] : w.scores \in {f, Positive(f)}
      BY <1>o, <2>1, <2>3 DEF HotInv, BuiltInv
    <3>2. f \in Scores
      BY <1>t, <1>o, <3>1
    <3>3. PICK g \in Scores : g = w.scores
      BY <2>3, WindowTypes
    <3>4. DOMAIN g \subseteq Song /\ \A s \in DOMAIN g : g[s] \in Int
      BY ScoreTypes
    <3>5. ranked = Ranked(DOMAIN g, g)
      BY <2>2, <2>3, <3>3
    <3>6. \A i \in 1..Len(ranked) : ranked[i] \in DOMAIN g /\ Place(g, ranked[i]) = i - 1
      <4>1. PICK D : D = DOMAIN g
        OBVIOUS
      <4>2. /\ Len(ranked) = Cardinality(D)
            /\ \A i \in 1..Cardinality(D) :
                  /\ ranked[i] \in D
                  /\ Cardinality({t \in D : Higher(g, t, ranked[i])}) = i - 1
        <5>1. D \subseteq Song /\ \A s \in D : g[s] \in Int
          BY <3>4, <4>1
        <5>2. Placed(Ranked(D, g), D, g)
          BY <5>1, RankedIs
        <5>3. Placed(ranked, D, g)
          BY <3>5, <4>1, <5>2
        <5>4. QED
          BY <5>3 DEF Placed, Standing, Higher
      <4>3. QED
        BY <4>1, <4>2 DEF Place
    <3>7. \A s \in DOMAIN g : s \in DOMAIN f /\ Place(g, s) = Place(f, s)
      BY <3>1, <3>2, <3>3, PositivePlaces
    <3>8. QED
      BY <3>2, <3>6, <3>7
  <2>4. ranked \in Seq(Song) /\ Len(ranked) \in Nat /\ (w = NoWindow => Len(ranked) = 0)
    <3>1. CASE w = NoWindow
      BY <2>2, <3>1, EmptySeq
    <3>2. CASE w # NoWindow
      <4>1. PICK g \in Scores : g = w.scores
        BY <3>2, WindowTypes
      <4>2. DOMAIN g \subseteq Song /\ \A s \in DOMAIN g : g[s] \in Int
        BY ScoreTypes
      <4>3. ranked = Ranked(DOMAIN g, g)
        BY <2>2, <3>2, <4>1
      <4>4. ranked \in Seq(DOMAIN g)
        BY <4>2, <4>3, RankedIs
      <4>5. QED
        BY <3>2, <4>2, <4>4, SeqMonotonic, LenProperties
    <3>3. QED
      BY <3>1, <3>2
  <2>5. CASE ranked = <<>> /\ old.source = "none"
    <3>1. PICK x : x = [old EXCEPT !.pc = "repo"]
      OBVIOUS
    <3>2. x \in BrowserState
      BY <1>0, <3>1 DEF BrowserState
    <3>3. /\ x.source = old.source /\ x.seen = old.seen /\ x.offset = old.offset
          /\ x.end = old.end
      BY <1>0, <3>1 DEF BrowserState
    <3>4. browser' = [browser EXCEPT ![b] = x]
      BY <1>4, <1>0, <2>1, <2>2, <2>5, <3>1 DEF HotRange, MayFallBack
    <3>5. ShownInv(x)
      BY <1>o, <2>5, <3>3 DEF ShownInv
    <3>6. QED
      BY <1>4, <1>t, <3>2, <3>4, <3>5, ReaderMoves DEF HotRange
  <2>6. CASE ~(ranked = <<>> /\ old.source = "none")
    <3>1. PICK x : x = Turn(b, ranked, old.offset, "window")
      OBVIOUS
    <3>2. /\ x \in BrowserState
          /\ x.pc \in {"idle", "done"} /\ x.end = old.end
          /\ x.source = IF old.source = "none" THEN "window" ELSE old.source
          /\ x.offset \in Nat /\ Len(x.seen) \in Nat
          /\ x.offset - old.offset = Len(x.seen) - Len(old.seen)
          /\ \A i \in 1..Len(x.seen) :
                \/ i <= Len(old.seen) /\ x.seen[i] = old.seen[i]
                \/ /\ i > Len(old.seen) /\ old.offset + i - Len(old.seen) \in 1..Len(ranked)
                   /\ x.seen[i] = ranked[old.offset + i - Len(old.seen)]
      <4>1. PICK k \in Nat : k = old.offset
        BY <1>o
      <4>2. Turns(b, ranked, k, "window", old, x)
        BY <1>0, <2>4, <3>1, <4>1 DEF Turns
      <4>3. Turned(ranked, k, "window", old, x)
        BY <4>2, TurnIs
      <4>4. QED
        BY <4>1, <4>3 DEF Turned
    <3>3. browser' = [browser EXCEPT ![b] = x]
      BY <1>4, <1>0, <2>1, <2>2, <2>6, <3>1 DEF HotRange, MayFallBack
    <3>4. CASE old.source = "mysql"
      <4>1. ShownInv(x)
        BY <3>2, <3>4 DEF ShownInv
      <4>2. QED
        BY <1>4, <1>t, <3>2, <3>3, <4>1, ReaderMoves DEF HotRange
    <3>5. CASE old.source # "mysql"
      <4>1. Len(old.seen) = old.offset
        <5>1. CASE old.source = "none"
          BY <1>o, <5>1, EmptySeq DEF ShownInv
        <5>2. CASE old.source = "window"
          BY <1>o, <5>2 DEF ShownInv
        <5>3. QED
          BY <1>o, <3>5, <5>1, <5>2
      <4>2. Len(x.seen) = x.offset
        BY <1>o, <3>2, <4>1
      <4>3. builds[x.end] # {}
        <5>1. CASE old.source = "window"
          BY <1>o, <3>2, <5>1 DEF ShownInv
        <5>2. CASE old.source = "none"
          <6>1. w # NoWindow
            BY <2>2, <2>6, <5>2
          <6>2. QED
            BY <2>3, <3>2, <6>1
        <5>3. QED
          BY <1>o, <3>5, <5>1, <5>2
      <4>4. ASSUME NEW f, builds[old.end] = {f}, NEW i \in 1..Len(x.seen)
            PROVE  x.seen[i] \in DOMAIN f /\ Place(f, x.seen[i]) = i - 1
        <5>1. CASE i <= Len(old.seen)
          <6>1. old.source = "window"
            <7>1. CASE old.source = "none"
              <8>1. Len(old.seen) = 0
                BY <1>o, <7>1, EmptySeq DEF ShownInv
              <8>2. QED
                BY <4>4, <5>1, <8>1
            <7>2. QED
              BY <1>o, <3>5, <7>1
          <6>2. i \in 1..Len(old.seen) /\ x.seen[i] = old.seen[i]
            BY <1>o, <3>2, <5>1
          <6>3. QED
            BY <1>o, <4>4, <6>1, <6>2 DEF ShownInv
        <5>2. CASE ~(i <= Len(old.seen))
          <6>1. old.offset + i - Len(old.seen) = i
            BY <1>o, <4>1
          <6>2. i \in 1..Len(ranked) /\ x.seen[i] = ranked[i]
            BY <3>2, <5>2, <6>1
          <6>3. w # NoWindow
            BY <2>4, <6>2
          <6>4. QED
            BY <2>3, <4>4, <6>2, <6>3
        <5>3. QED
          BY <5>1, <5>2
      <4>5. x.source = "window" /\ x.pc # "repo"
        BY <1>o, <3>2, <3>5
      <4>6. ShownInv(x)
        BY <3>2, <4>2, <4>3, <4>4, <4>5 DEF ShownInv
      <4>7. QED
        BY <1>4, <1>t, <3>2, <3>3, <4>6, ReaderMoves DEF HotRange
    <3>6. QED
      BY <3>4, <3>5
  <2>7. QED
    BY <2>5, <2>6
<1>5. QED
  BY <1>1, <1>2, <1>3, <1>4

\* A reader who has made a call of rebuildHotWindow.
LEMMA ReaderCalls ==
    ASSUME HotInv, NEW b \in Browser, NEW pc \in {"trim", "range"},
           browser' = [browser EXCEPT ![b].pc = pc]
    PROVE  /\ browser' \in [Browser -> BrowserState]
           /\ \A c \in Browser : browser'[c] = browser[c] \/ ShownInv(browser'[c])
<1>1. browser \in [Browser -> BrowserState]
  BY DEF HotInv, HotRows
<1>2. PICK old \in BrowserState : old = browser[b] /\ ShownInv(old)
  BY <1>1 DEF HotInv
<1>3. PICK x : x = [old EXCEPT !.pc = pc]
  OBVIOUS
<1>4. x \in BrowserState
  BY <1>2, <1>3 DEF BrowserState
<1>5. /\ x.source = old.source /\ x.seen = old.seen /\ x.offset = old.offset
      /\ x.pc = pc /\ x.end = old.end
  BY <1>2, <1>3 DEF BrowserState
<1>6. browser' = [browser EXCEPT ![b] = x]
  BY <1>1, <1>2, <1>3
<1>7. ShownInv(x)
  BY <1>2, <1>5 DEF ShownInv
<1>8. QED
  BY <1>1, <1>4, <1>6, <1>7

\* The calls that write a window, and the end of its TTL.
LEMMA HotWriters ==
    ASSUME HotInv
    PROVE  /\ \A b \in Browser : HotUnion(b) \/ HotTrim(b) => HotInv'
           /\ \A m \in Minute : WindowExpires(m) => HotInv'
<1>t. /\ HotRows /\ browser \in [Browser -> BrowserState]
      /\ window \in [Minute -> WindowState \cup {NoWindow}]
      /\ bucket \in [Minute -> Scores] /\ builds \in [Minute -> SUBSET Scores]
  BY DEF HotInv, HotRows
<1>e. {} \subseteq Scores /\ IsFiniteSet({})
  BY FS_EmptySet
<1>1. ASSUME NEW b \in Browser, HotUnion(b) PROVE HotInv'
  <2>1. PICK end \in Minute : end = browser[b].end
    BY <1>t, BrowserTypes
  <2>2. PICK f \in Scores : f = Union(end)
    BY <1>t, SumsTyped
  <2>3. PICK w : w = Keyed("raw", f)
    OBVIOUS
  <2>4. w \in WindowState \cup {NoWindow} /\ (w # NoWindow => w.scores = f)
    BY <2>3, KeyedTyped
  <2>5. PICK new : new = {f}
    OBVIOUS
  <2>6. new \subseteq Scores /\ IsFiniteSet(new) /\ f \in new
    BY <2>5, FS_Singleton
  <2>7. /\ window' = [window EXCEPT ![end] = w]
        /\ builds' = [builds EXCEPT ![end] = @ \cup new]
        /\ browser' = [browser EXCEPT ![b].pc = "trim"]
        /\ UNCHANGED <<minute, bucket, heat, outages>>
    BY <1>1, <2>1, <2>2, <2>3, <2>5 DEF HotUnion
  <2>8. w # NoWindow => \E g \in builds[end] \cup new : w.scores \in {g, Positive(g)}
    BY <2>4, <2>6
  <2>9. /\ browser' \in [Browser -> BrowserState]
        /\ \A c \in Browser : browser'[c] = browser[c] \/ ShownInv(browser'[c])
    BY <2>7, ReaderCalls
  <2>10. QED
    BY <2>4, <2>6, <2>7, <2>8, <2>9, WindowMoves
<1>2. ASSUME NEW b \in Browser, HotTrim(b) PROVE HotInv'
  <2>1. PICK end \in Minute : end = browser[b].end
    BY <1>t, BrowserTypes
  <2>2. PICK w : w = IF window[end] = NoWindow THEN NoWindow
                     ELSE Keyed("cached", Positive(window[end].scores))
    OBVIOUS
  <2>3. w \in WindowState \cup {NoWindow}
        /\ (w # NoWindow => \E g \in builds[end] \cup {} : w.scores \in {g, Positive(g)})
    <3>1. CASE window[end] = NoWindow
      BY <2>2, <3>1
    <3>2. CASE window[end] # NoWindow
      <4>1. PICK old \in WindowState : old = window[end]
        BY <1>t, <3>2, WindowTypes
      <4>2. PICK g \in Scores : g = old.scores
        BY <4>1 DEF WindowState
      <4>3. PICK f \in builds[end] : g \in {f, Positive(f)}
        BY <3>2, <4>1, <4>2 DEF HotInv, BuiltInv
      <4>4. f \in Scores
        BY <1>t, <4>3
      <4>5. Positive(g) = Positive(f) /\ Positive(g) \in Scores
        BY <4>3, <4>4, PositivePlaces
      <4>6. PICK h \in Scores : h = Positive(g)
        BY <4>5
      <4>7. w = Keyed("cached", h)
        BY <2>2, <3>2, <4>1, <4>2, <4>6
      <4>8. w \in WindowState \cup {NoWindow} /\ (w # NoWindow => w.scores = h)
        BY <4>7, KeyedTyped
      <4>9. QED
        BY <4>3, <4>5, <4>6, <4>8
    <3>3. QED
      BY <3>1, <3>2
  <2>4. /\ window' = [window EXCEPT ![end] = w]
        /\ browser' = [browser EXCEPT ![b].pc = "range"]
        /\ UNCHANGED <<minute, bucket, heat, outages, builds>>
    BY <1>2, <2>1, <2>2 DEF HotTrim
  <2>5. builds' = [builds EXCEPT ![end] = @ \cup {}]
    BY <1>t, <2>4
  <2>6. /\ browser' \in [Browser -> BrowserState]
        /\ \A c \in Browser : browser'[c] = browser[c] \/ ShownInv(browser'[c])
    BY <2>4, ReaderCalls
  <2>7. QED
    BY <1>e, <2>3, <2>4, <2>5, <2>6, WindowMoves
<1>3. ASSUME NEW m \in Minute, WindowExpires(m) PROVE HotInv'
  <2>1. PICK w : w = NoWindow
    OBVIOUS
  <2>2. /\ window' = [window EXCEPT ![m] = w]
        /\ UNCHANGED <<minute, bucket, browser, heat, outages, builds>>
    BY <1>3, <2>1 DEF WindowExpires
  <2>3. builds' = [builds EXCEPT ![m] = @ \cup {}]
    BY <1>t, <2>2
  <2>4. w \in WindowState \cup {NoWindow}
        /\ (w # NoWindow => \E g \in builds[m] \cup {} : w.scores \in {g, Positive(g)})
    BY <2>1
  <2>5. /\ browser' \in [Browser -> BrowserState]
        /\ \A c \in Browser : browser'[c] = browser[c] \/ ShownInv(browser'[c])
    BY <1>t, <2>2
  <2>6. QED
    BY <1>e, <2>2, <2>3, <2>4, <2>5, WindowMoves
<1>4. QED
  BY <1>1, <1>2, <1>3

\* What a step that touches neither windows nor readers keeps.
LEMMA HotKeeps ==
    ASSUME HotInv, UNCHANGED <<window, browser, builds>>,
           minute' \in Minute, bucket' \in [Minute -> Scores], heat' \in 0..MaxHeat,
           outages' \in 0..MaxOutages
    PROVE  HotInv'
<1>1. HotRows'
  BY DEF HotInv, HotRows
<1>2. BuiltInv'
  BY DEF HotInv, BuiltInv
<1>3. ASSUME NEW c \in Browser PROVE ShownInv(browser[c])'
  <2>1. PICK y : y = browser[c] /\ y = browser'[c] /\ ShownInv(y)
    BY DEF HotInv
  <2>2. QED
    BY <2>1 DEF ShownInv
<1>4. QED
  BY <1>1, <1>2, <1>3 DEF HotInv

\* The invariant holds after every step.
LEMMA HotInvNext == HotInv /\ [HotNext]_hotVars => HotInv'
<1> SUFFICES ASSUME HotInv, [HotNext]_hotVars PROVE HotInv'
  OBVIOUS
<1>t. /\ minute \in Minute /\ bucket \in [Minute -> Scores] /\ heat \in 0..MaxHeat
      /\ outages \in 0..MaxOutages /\ {LastMinute, MaxHeat, MaxOutages} \subseteq Nat
  BY HotConstants DEF HotInv, HotRows
<1>1. ASSUME NEW s \in Song, NEW delta \in {1, -1}, AddHotScore(s, delta) PROVE HotInv'
  <2>1. PICK one : one = [t \in {s} |-> delta]
    OBVIOUS
  <2>2. one \in Scores
    BY <2>1 DEF Scores
  <2>3. PICK sum \in Scores : sum = Plus(bucket[minute], one)
    BY <1>t, <2>2, PlusTyped
  <2>4. bucket' = [bucket EXCEPT ![minute] = sum]
    BY <1>1, <2>1, <2>3 DEF AddHotScore
  <2>5. bucket' \in [Minute -> Scores]
    BY <1>t, <2>4
  <2>6. heat' \in 0..MaxHeat
    BY <1>1, <1>t DEF AddHotScore
  <2>7. QED
    BY <1>1, <1>t, <2>5, <2>6, HotKeeps DEF AddHotScore
<1>2. CASE NextMinute
  <2>1. minute' \in Minute
    BY <1>2, <1>t DEF NextMinute, Minute
  <2>2. QED
    BY <1>2, <1>t, <2>1, HotKeeps DEF NextMinute
<1>3. CASE \E m \in Minute : WindowExpires(m)
  BY <1>3, HotWriters
<1>4. ASSUME NEW b \in Browser, HotUnion(b) \/ HotTrim(b) PROVE HotInv'
  BY <1>4, HotWriters
<1>5. ASSUME NEW b \in Browser, AskHot(b) \/ HotRange(b) \/ HotFails(b) \/ HotRepo(b)
      PROVE  HotInv'
  BY <1>5, HotReaders
<1>6. CASE UNCHANGED hotVars
  BY <1>6, <1>t, HotKeeps DEF hotVars
<1>7. QED
  BY <1>1, <1>2, <1>3, <1>4, <1>5, <1>6 DEF HotNext

\* The types are a part of it.
LEMMA HotInvTypes == HotInv => HotTypeOK
<1> SUFFICES ASSUME HotInv PROVE HotTypeOK
  OBVIOUS
<1>1. HotRows
  BY DEF HotInv
<1>2. ASSUME NEW m \in Minute PROVE IsScores(bucket[m])
  BY <1>1, ScoresAre DEF HotRows
<1>3. ASSUME NEW m \in Minute PROVE window[m] = NoWindow \/ IsWindow(window[m])
  <2>1. PICK w \in WindowState \cup {NoWindow} : w = window[m]
    BY <1>1 DEF HotRows
  <2>2. CASE w # NoWindow
    <3>1. w.scores \in Scores /\ w.pc \in {"raw", "cached"} /\ DOMAIN w.scores # {}
      BY <2>2 DEF WindowState
    <3>2. IsScores(w.scores)
      BY <3>1, ScoresAre
    <3>3. QED
      BY <2>1, <3>1, <3>2 DEF IsWindow
  <2>3. QED
    BY <2>1, <2>2
<1>4. ASSUME NEW m \in Minute
      PROVE  IsFiniteSet(builds[m]) /\ \A f \in builds[m] : IsScores(f)
  <2>1. IsFiniteSet(builds[m]) /\ builds[m] \subseteq Scores
    BY <1>1 DEF HotRows
  <2>2. QED
    BY <2>1, ScoresAre
<1>5. QED
  BY <1>1, <1>2, <1>3, <1>4 DEF HotRows, HotTypeOK

\* And so is what a reader is promised.
LEMMA HotInvShows == HotInv => HotNoRepeat
<1> SUFFICES ASSUME HotInv, NEW b \in Browser, browser[b].source = "window",
                    Cardinality(builds[browser[b].end]) <= 1
             PROVE  IsInjective(browser[b].seen)
  BY DEF HotNoRepeat
<1>1. PICK x \in BrowserState : x = browser[b] /\ ShownInv(x)
  BY DEF HotInv, HotRows
<1>2. x.end \in Minute /\ x.seen \in Seq(Song) /\ Len(x.seen) \in Nat
  BY BrowserTypes
<1>3. PICK B : B = builds[x.end]
  OBVIOUS
<1>4. IsFiniteSet(B) /\ B # {} /\ Cardinality(B) <= 1
  BY <1>1, <1>2, <1>3 DEF HotInv, HotRows, ShownInv
<1>5. PICK f : B = {f}
  <2>1. Cardinality(B) \in Nat /\ Cardinality(B) # 0
    BY <1>4, FS_CardinalityType, FS_EmptySet
  <2>2. Cardinality(B) = 1
    BY <1>4, <2>1
  <2>3. QED
    BY <1>4, <2>2, FS_Singleton
<1>6. \A i \in 1..Len(x.seen) : Place(f, x.seen[i]) = i - 1
  BY <1>1, <1>3, <1>5 DEF ShownInv
<1>7. PICK seen \in Seq(Song) : seen = x.seen
  BY <1>2
<1>8. DOMAIN seen = 1..Len(seen)
  BY LenProperties
<1>9. \A i, j \in 1..Len(seen) : seen[i] = seen[j] => i = j
  BY <1>2, <1>6, <1>7
<1>10. IsInjective(seen)
  BY <1>8, <1>9 DEF IsInjective
<1>11. QED
  BY <1>1, <1>7, <1>10

\* The hot ranking keeps its types: minute buckets and windows hold scores of
\* videos, readers hold cursors and what they were shown (HotStrategy.List,
\* rebuildHotWindow, AddHotScore).
THEOREM HotTyped == HotSpec => []HotTypeOK
<1>1. HotInit => HotInv
  BY HotInvInit
<1>2. HotInv /\ [HotNext]_hotVars => HotInv'
  BY HotInvNext
<1>3. HotInv => HotTypeOK
  BY HotInvTypes
<1>4. QED
  BY <1>1, <1>2, <1>3, PTL DEF HotSpec

\* A reader who pages through a window that was built from one set of scores is
\* shown no video twice, whatever is built, trimmed, dropped or fails around it
\* (HotStrategy.List, listPageFromHotWindow, rebuildHotWindow).
THEOREM HotShowsOnce == HotSpec => []HotNoRepeat
<1>1. HotInit => HotInv
  BY HotInvInit
<1>2. HotInv /\ [HotNext]_hotVars => HotInv'
  BY HotInvNext
<1>3. HotInv => HotNoRepeat
  BY HotInvShows
<1>4. QED
  BY <1>1, <1>2, <1>3, PTL DEF HotSpec

(***************************************************************************)
(* Recommendations.                                                        *)
(***************************************************************************)

\* Candidates are sorted into a sequence.
LEMMA SortedIs ==
    ASSUME NEW S, S \subseteq Movie, NEW rank, \A m \in S : rank[m] \in Int
    PROVE  SortCandidates(S, rank) \in Seq(S) /\ Placed(SortCandidates(S, rank), S, rank)
<1>1. Scored(S, rank)
  BY DiscoveryConstants, FS_Subset DEF Scored
<1>2. SortCandidates(S, rank) = InOrder(S, rank)
  BY DEF SortCandidates, Above, InOrder, Standing
<1>3. QED
  BY <1>1, <1>2, InOrderIs

\* A score is within its bound.
LEMMA RanksBounded ==
    ASSUME NEW similarity \in Measure, NEW hot \in Measure
    PROVE  \A m \in Movie : RankCandidates(similarity, hot)[m] \in 0..ScoreBound
<1>1. PICK top \in Nat : top = Max(Movie) /\ \A m \in Movie : m \in Nat /\ m <= top
  <2>1. Movie \subseteq Nat /\ Movie # {} /\ IsFiniteSet(Movie)
    BY DiscoveryConstants
  <2>2. Max(Movie) \in Movie /\ \A m \in Movie : m <= Max(Movie)
    BY <2>1, MaxIs
  <2>3. QED
    BY <2>1, <2>2
<1>2. PICK most \in Nat : most = MaxMeasure
  BY DiscoveryConstants
<1>3. \A m \in Movie : similarity[m] \in 0..most /\ hot[m] \in 0..most
  BY <1>2, DiscoveryConstants
<1>4. ScoreBound = 18 * most + 7 * top
  BY <1>1, <1>2 DEF ScoreBound
<1>5. SUFFICES ASSUME NEW m \in Movie
               PROVE  RankCandidates(similarity, hot)[m] \in 0..ScoreBound
  OBVIOUS
<1>6. PICK like \in 0..most : like = LoadVideoVector(m, similarity)
  BY <1>3 DEF LoadVideoVector
<1>7. PICK warm \in 0..most : warm = hot[m]
  BY <1>3
<1>8. RankCandidates(similarity, hot)[m] = RankScore(like, warm, m, LoadUserInterestVector)
  BY <1>6, <1>7 DEF RankCandidates
<1>9. m \in Nat /\ m <= top
  BY <1>1
<1>10. 14 * like + 4 * warm + 2 * m \in 0..(18 * most + 7 * top)
  BY <1>9
<1>11. 13 * warm + 7 * m \in 0..(18 * most + 7 * top)
  BY <1>9
<1>12. QED
  BY <1>4, <1>8, <1>10, <1>11 DEF RankScore

\* The bound of a score is a number.
LEMMA BoundIs == ScoreBound \in Nat
<1>1. Movie \subseteq Nat /\ Movie # {} /\ IsFiniteSet(Movie) /\ MaxMeasure \in Nat
  BY DiscoveryConstants
<1>2. Max(Movie) \in Nat
  BY <1>1, MaxIs
<1>3. QED
  BY <1>1, <1>2 DEF ScoreBound

\* What an answer is: a cut of the ranking, and a cursor.
Answer ==
    {a \in [cut: Seq(Movie), cursor: [rank: 0..ScoreBound, id: Movie \cup {0}]] : IsInjective(a.cut)}

\* A request finds one.
LEMMA RecommendTyped ==
    ASSUME live \subseteq Movie, NEW similarity \in Measure, NEW hot \in Measure,
           NEW limit \in RecLimit
    PROVE  Recommend(similarity, hot, limit) \in Answer
<1>1. PICK rank : rank = RankCandidates(similarity, hot)
  OBVIOUS
<1>2. \A m \in Movie : rank[m] \in 0..ScoreBound /\ rank[m] \in Int
  BY <1>1, RanksBounded, BoundIs
<1>3. PICK pool : pool = ListCandidatePool(hot, CandidatePoolLimit(limit))
  OBVIOUS
<1>4. pool \subseteq Movie
  BY <1>3 DEF ListCandidatePool
<1>5. PICK S : S = {m \in pool : PastPick(m, rank, picks.cursor)}
  OBVIOUS
<1>6. S \subseteq Movie
  BY <1>4, <1>5
<1>7. PICK ranked : ranked = SortCandidates(S, rank)
  OBVIOUS
<1>8. ranked \in Seq(Movie) /\ Len(ranked) \in Nat
  <2>1. ranked \in Seq(S)
    BY <1>2, <1>6, <1>7, SortedIs
  <2>2. ranked \in Seq(Movie)
    BY <1>6, <2>1, SeqMonotonic
  <2>3. QED
    BY <2>2, LenProperties
<1>r. \A i, j \in 1..Len(ranked) : ranked[i] = ranked[j] => i = j
  <2>1. Placed(ranked, S, rank)
    BY <1>2, <1>6, <1>7, SortedIs
  <2>2. \A i \in 1..Len(ranked) : Standing(S, rank, ranked[i]) = i - 1
    BY <2>1 DEF Placed
  <2>3. QED
    BY <1>8, <2>2
<1>9. limit \in Nat \ {0}
  BY DiscoveryConstants
<1>10. PICK n \in Nat : n = Min({limit, Len(ranked)}) /\ n <= Len(ranked)
                        /\ n \in {limit, Len(ranked)}
  <2>1. PICK T : T = {limit, Len(ranked)}
    OBVIOUS
  <2>2. T \subseteq Nat /\ T # {} /\ Len(ranked) \in T
    BY <1>8, <1>9, <2>1
  <2>3. Min(T) \in T /\ \A y \in T : Min(T) <= y
    BY <2>2, MinIs
  <2>4. QED
    BY <1>8, <1>9, <2>1, <2>2, <2>3
<1>11. PICK cut : cut = SubSeq(ranked, 1, n)
  OBVIOUS
<1>12. cut \in Seq(Movie) /\ Len(cut) = n /\ \A i \in 1..n : cut[i] = ranked[i]
  <2>1. PICK k \in Nat : k = 1
    OBVIOUS
  <2>2. \A i \in k..n : ranked[i] \in Movie
    BY <1>8, <1>10, <2>1, ElementOfSeq
  <2>3. /\ SubSeq(ranked, k, n) \in Seq(Movie)
        /\ Len(SubSeq(ranked, k, n)) = IF k <= n THEN n - k + 1 ELSE 0
        /\ \A i \in 1..(n - k + 1) : SubSeq(ranked, k, n)[i] = ranked[k + i - 1]
    BY <2>2, SubSeqProperties
  <2>4. cut \in Seq(Movie) /\ Len(cut) = n
    BY <1>11, <2>1, <2>3
  <2>5. \A i \in 1..n : cut[i] = ranked[i]
    BY <1>11, <2>1, <2>3
  <2>6. QED
    BY <2>4, <2>5
<1>i. IsInjective(cut)
  <2>1. DOMAIN cut = 1..n
    BY <1>12, LenProperties
  <2>2. \A i, j \in 1..n : cut[i] = cut[j] => i = j
    <3>1. \A i \in 1..n : i \in 1..Len(ranked)
      BY <1>8, <1>10
    <3>2. \A i \in 1..n : cut[i] = ranked[i]
      BY <1>12
    <3>3. QED
      BY <1>r, <3>1, <3>2
  <2>3. QED
    BY <2>1, <2>2 DEF IsInjective
<1>13. ASSUME ~(Len(ranked) <= limit) PROVE Last(cut) \in Movie
  <2>1. n \in 1..Len(cut)
    BY <1>8, <1>9, <1>10, <1>12, <1>13
  <2>2. cut[n] \in Movie
    BY <1>12, <2>1, ElementOfSeq
  <2>3. QED
    BY <1>12, <2>2 DEF Last
<1>14. PICK cursor : cursor = IF Len(ranked) <= limit THEN NoCursor
                              ELSE [rank |-> rank[Last(cut)], id |-> Last(cut)]
  OBVIOUS
<1>15. cursor \in [rank: 0..ScoreBound, id: Movie \cup {0}]
  <2>1. CASE Len(ranked) <= limit
    BY <1>14, <2>1, BoundIs DEF NoCursor
  <2>2. CASE ~(Len(ranked) <= limit)
    <3>1. PICK m \in Movie : m = Last(cut)
      BY <1>13, <2>2
    <3>2. cursor = [rank |-> rank[m], id |-> m]
      BY <1>14, <2>2, <3>1
    <3>3. QED
      BY <1>2, <3>2
  <2>3. QED
    BY <2>1, <2>2
<1>16. Recommend(similarity, hot, limit) = [cut |-> cut, cursor |-> cursor]
  BY <1>1, <1>3, <1>5, <1>7, <1>10, <1>11, <1>14 DEF Recommend
<1>17. QED
  BY <1>12, <1>15, <1>16, <1>i DEF Answer

\* The types, and that a page has no video twice.
DiscoveryInv ==
    /\ makerOf \in [Movie -> Maker]
    /\ live \subseteq Movie /\ vectored \subseteq Movie
    /\ exposed \subseteq Movie /\ viewed \subseteq Movie
    /\ picks \in Answer

\* It holds at first.
LEMMA PicksInit == DiscoveryInit => DiscoveryInv
<1> SUFFICES ASSUME DiscoveryInit PROVE DiscoveryInv
  OBVIOUS
<1>1. NoCursor \in [rank: 0..ScoreBound, id: Movie \cup {0}]
  BY BoundIs DEF NoCursor
<1>2. PICK none \in Seq(Movie) : none = <<>> /\ IsInjective(none)
  <2>1. PICK none \in Seq(Movie) : none = <<>>
    BY EmptySeq
  <2>2. DOMAIN none = {}
    BY <2>1
  <2>3. QED
    BY <2>1, <2>2 DEF IsInjective
<1>3. picks = [cut |-> none, cursor |-> NoCursor]
  BY <1>2 DEF DiscoveryInit
<1>4. picks \in Answer
  BY <1>1, <1>2, <1>3 DEF Answer
<1>5. QED
  BY <1>4 DEF DiscoveryInit, DiscoveryInv

\* And after every step.
LEMMA PicksNext == DiscoveryInv /\ [DiscoveryNext]_discoveryVars => DiscoveryInv'
<1> SUFFICES ASSUME DiscoveryInv, [DiscoveryNext]_discoveryVars PROVE DiscoveryInv'
  OBVIOUS
<1>1. /\ makerOf \in [Movie -> Maker] /\ live \subseteq Movie /\ vectored \subseteq Movie
      /\ exposed \subseteq Movie /\ viewed \subseteq Movie /\ picks \in Answer
  BY DEF DiscoveryInv
<1>2. /\ makerOf' = makerOf /\ vectored' = vectored
      /\ live' \subseteq Movie /\ exposed' \subseteq Movie /\ viewed' \subseteq Movie
      /\ picks' \in Answer
  <2>1. ASSUME NEW limit \in RecLimit, ListPicks(limit)
        PROVE  picks' \in Answer /\ UNCHANGED <<makerOf, live, vectored, exposed, viewed>>
    <3>1. PICK similarity \in Measure, hot \in Measure :
             picks' = Recommend(similarity, hot, limit)
      BY <2>1 DEF ListPicks
    <3>2. QED
      BY <1>1, <2>1, <3>1, RecommendTyped DEF ListPicks
  <2>2. ASSUME NEW m \in Movie, NEW type \in EventType, RecordViewEvent(m, type)
        PROVE  /\ exposed' \subseteq Movie /\ viewed' \subseteq Movie
               /\ UNCHANGED <<makerOf, live, vectored, picks>>
    BY <1>1, <2>2 DEF RecordViewEvent, SaveViewEvent
  <2>3. ASSUME NEW m \in Movie, ExposureAges(m) \/ InterestAges(m) \/ ModerateMovie(m)
        PROVE  /\ live' \subseteq Movie /\ exposed' \subseteq Movie /\ viewed' \subseteq Movie
               /\ UNCHANGED <<makerOf, vectored, picks>>
    BY <1>1, <2>3 DEF ExposureAges, InterestAges, ModerateMovie
  <2>4. CASE UNCHANGED discoveryVars
    BY <1>1, <2>4 DEF discoveryVars
  <2>5. QED
    BY <1>1, <2>1, <2>2, <2>3, <2>4 DEF DiscoveryNext
<1>3. QED
  BY <1>1, <1>2 DEF DiscoveryInv

\* The types are a part of it.
LEMMA PicksInvTypes == DiscoveryInv => DiscoveryTypeOK
BY DEF DiscoveryInv, DiscoveryTypeOK, Answer

\* The recommendations keep their types: a page is a sequence of videos, and its
\* cursor a score within its bound (Service.Recommend, SaveViewEvent).
THEOREM PicksTyped == DiscoverySpec => []DiscoveryTypeOK
BY PicksInit, PicksNext, PicksInvTypes, PTL DEF DiscoverySpec

-----------------------------------------------------------------------------
(* Interleaving by author.                                                 *)

\* The largest of the first numbers.
LEMMA MaxOfFirst ==
    ASSUME NEW i \in Nat \ {0}
    PROVE  Max(1..i) = i /\ (1..i) \ {i} = 1..(i - 1)
<1>1. PICK S : S = 1..i
  OBVIOUS
<1>2. S \subseteq Nat /\ S # {} /\ IsFiniteSet(S) /\ i \in S
  <2>1. IsFiniteSet(S)
    BY <1>1, FS_Interval
  <2>2. i \in S /\ S \subseteq Nat
    BY <1>1
  <2>3. QED
    BY <2>1, <2>2
<1>3. Max(S) \in S /\ \A y \in S : y <= Max(S)
  BY <1>2, MaxIs
<1>4. Max(S) = i
  BY <1>1, <1>2, <1>3
<1>5. (1..i) \ {i} = 1..(i - 1)
  OBVIOUS
<1>6. QED
  BY <1>1, <1>4, <1>5

\* What G makes of a set it makes of its largest element and of the others.
FromTheLargest(G, base, step, n) ==
    \A s \in SUBSET (1..n) : G[s] = IF s = {} THEN base ELSE step[<<Max(s), G[s \ {Max(s)}]>>]

\* A walk over the first n numbers exists.
LEMMA WalkExists ==
    ASSUME NEW n \in Nat, NEW T, NEW base \in T, NEW step \in [(1..n) \X T -> T]
    PROVE  \E W \in [SUBSET (1..n) -> T] : FromTheLargest(W, base, step, n)
<1>1. PICK S : S = 1..n
  OBVIOUS
<1>2. S \subseteq Nat /\ IsFiniteSet(S)
  BY <1>1, FS_Interval
<1>3. PICK pick : pick = [s \in SUBSET S |-> Max(s)]
  OBVIOUS
<1>4. \A s \in SUBSET S : s # {} => Max(s) \in s
  <2>1. \A s \in SUBSET S : s \subseteq Nat /\ IsFiniteSet(s)
    BY <1>2, FS_Subset
  <2>2. QED
    BY <2>1, MaxIs
<1>5. Picks(pick, S)
  BY <1>3, <1>4 DEF Picks
<1>6. PICK W \in [SUBSET S -> T] : FoldsBy(W, base, step, pick, S)
  BY <1>1, <1>2, <1>5, FoldExists
<1>7. \A s \in SUBSET S : W[s] = IF s = {} THEN base ELSE step[<<Max(s), W[s \ {Max(s)}]>>]
  BY <1>3, <1>6 DEF FoldsBy
<1>8. QED
  BY <1>1, <1>6, <1>7 DEF FromTheLargest

\* G makes of the first numbers what step makes of the last of them and of what G
\* makes of the others.
ByPrefixes(G, T, base, step, n) ==
    /\ n \in Nat /\ base \in T /\ step \in [(1..n) \X T -> T] /\ G[{}] = base
    /\ \A i \in 1..n : G[1..(i - 1)] \in T => G[1..i] = step[<<i, G[1..(i - 1)]>>]

Walks(w, T, base, step, n) ==
    /\ w \in [0..n -> T]
    /\ w[0] = base
    /\ \A i \in 1..n : w[i] = step[<<i, w[i - 1]>>]

\* Such a G goes through the numbers one by one.
LEMMA WalkSteps ==
    ASSUME NEW G, NEW T, NEW base, NEW step, NEW n, ByPrefixes(G, T, base, step, n)
    PROVE  \E w : Walks(w, T, base, step, n) /\ w[n] = G[1..n]
<1>0. n \in Nat /\ base \in T /\ step \in [(1..n) \X T -> T]
  BY DEF ByPrefixes
<1>1. PICK w : w = [i \in 0..n |-> G[1..i]]
  OBVIOUS
<1>2. w[0] = base
  <2>1. 1..0 = {}
    OBVIOUS
  <2>2. w[0] = G[{}]
    BY <1>0, <1>1, <2>1
  <2>3. QED
    BY <1>0, <2>2 DEF ByPrefixes
<1>3. ASSUME NEW i \in 1..n, w[i - 1] \in T PROVE w[i] = step[<<i, w[i - 1]>>]
  <2>1. w[i] = G[1..i] /\ w[i - 1] = G[1..(i - 1)]
    BY <1>0, <1>1
  <2>2. QED
    BY <1>0, <1>3, <2>1 DEF ByPrefixes
<1>4. PICK Good : Good = {i \in Nat : i <= n => w[i] \in T}
  OBVIOUS
<1>5. 0 \in Good
  BY <1>0, <1>2, <1>4
<1>6. ASSUME NEW i \in Nat, i \in Good PROVE i + 1 \in Good
  <2>1. SUFFICES ASSUME i + 1 <= n PROVE w[i + 1] \in T
    BY <1>0, <1>4
  <2>2. w[i] \in T
    BY <1>0, <1>4, <1>6, <2>1
  <2>3. PICK j \in 1..n : j = i + 1 /\ j - 1 = i
    BY <1>0, <2>1
  <2>4. w[j] = step[<<j, w[i]>>]
    BY <1>0, <1>3, <2>2, <2>3
  <2>5. QED
    BY <1>0, <2>2, <2>3, <2>4
<1>7. \A i \in Nat : i \in Good
  BY <1>0, <1>5, <1>6, Upwards
<1>8. w \in [0..n -> T]
  <2>1. \A i \in 0..n : w[i] \in T
    BY <1>0, <1>4, <1>7
  <2>2. QED
    BY <1>0, <1>1, <2>1
<1>9. w[n] = G[1..n]
  BY <1>0, <1>1
<1>10. \A i \in 1..n : w[i] = step[<<i, w[i - 1]>>]
  BY <1>0, <1>3, <1>8
<1>11. Walks(w, T, base, step, n)
  BY <1>0, <1>2, <1>8, <1>10 DEF Walks
<1>12. QED
  BY <1>0, <1>9, <1>11

\* What a pass keeps: what was placed, and what was held back.
Placing == [out: Seq(Movie), delayed: Seq(Movie)]

PlaceOne(acc, m) ==
    IF acc.out # <<>> /\ makerOf[Last(acc.out)] = makerOf[m]
    THEN [acc EXCEPT !.delayed = Append(@, m)]
    ELSE [acc EXCEPT !.out = Append(@, m)]

\* A candidate is placed or held back.
LEMMA PlaceOneTyped ==
    ASSUME NEW acc \in Placing, NEW m \in Movie
    PROVE  PlaceOne(acc, m) \in Placing
<1>1. PICK out \in Seq(Movie), delayed \in Seq(Movie) : out = acc.out /\ delayed = acc.delayed
  BY DEF Placing
<1>2. Append(out, m) \in Seq(Movie) /\ Append(delayed, m) \in Seq(Movie)
  BY AppendProperties
<1>3. QED
  BY <1>1, <1>2 DEF PlaceOne, Placing

\* The states of a pass, candidate by candidate.
Passes(w, out, candidates) ==
    /\ w \in [0..Len(candidates) -> Placing]
    /\ w[0] = [out |-> out, delayed |-> <<>>]
    /\ \A i \in 1..Len(candidates) : w[i] = PlaceOne(w[i - 1], candidates[i])

\* A pass goes from left to right.
LEMMA PassIs ==
    ASSUME NEW out \in Seq(Movie), NEW candidates \in Seq(Movie)
    PROVE  \E w : Passes(w, out, candidates) /\ Pass(out, candidates) = w[Len(candidates)]
<1>1. PICK n \in Nat : n = Len(candidates) /\ DOMAIN candidates = 1..n
  BY LenProperties
<1>2. PICK base : base = [out |-> out, delayed |-> <<>>]
  OBVIOUS
<1>3. base \in Placing
  BY <1>2, EmptySeq DEF Placing
<1> DEFINE S == DOMAIN candidates
           body(F) == [s \in SUBSET S |->
                         IF s = {} THEN base
                         ELSE PlaceOne(F[s \ {Max(s)}], candidates[Max(s)])]
           G == CHOOSE F : F = body(F)
<1>4. Pass(out, candidates) = G[S]
  BY <1>2 DEF Pass, FoldLeft, MapThenFoldSet, PlaceOne
<1>5. PICK step : step = [p \in (1..n) \X Placing |-> PlaceOne(p[2], candidates[p[1]])]
  OBVIOUS
<1>6. \A i \in 1..n : candidates[i] \in Movie
  BY <1>1, ElementOfSeq
<1>7. step \in [(1..n) \X Placing -> Placing]
  BY <1>5, <1>6, PlaceOneTyped
<1>8. \A i \in 1..n, acc \in Placing : step[<<i, acc>>] = PlaceOne(acc, candidates[i])
  BY <1>5
<1>9. PICK W \in [SUBSET (1..n) -> Placing] : FromTheLargest(W, base, step, n)
  BY <1>3, <1>7, WalkExists
<1>m. \A s \in SUBSET (1..n) : s # {} => Max(s) \in 1..n
  <2>1. IsFiniteSet(1..n) /\ 1..n \subseteq Nat
    BY FS_Interval
  <2>2. \A s \in SUBSET (1..n) : s \subseteq Nat /\ IsFiniteSet(s)
    BY <2>1, FS_Subset
  <2>3. QED
    BY <2>2, MaxIs
<1>10. W = body(W)
  <2>1. ASSUME NEW s \in SUBSET (1..n)
        PROVE  W[s] = IF s = {} THEN base ELSE PlaceOne(W[s \ {Max(s)}], candidates[Max(s)])
    <3>1. CASE s = {}
      BY <1>9, <3>1 DEF FromTheLargest
    <3>2. CASE s # {}
      <4>1. PICK x \in 1..n : x = Max(s)
        BY <1>m, <3>2
      <4>2. PICK acc \in Placing : acc = W[s \ {x}]
        BY <1>9
      <4>3. W[s] = step[<<x, acc>>]
        BY <1>9, <3>2, <4>1, <4>2 DEF FromTheLargest
      <4>4. QED
        BY <1>8, <3>2, <4>1, <4>2, <4>3
    <3>3. QED
      BY <3>1, <3>2
  <2>2. W = [s \in SUBSET (1..n) |-> W[s]]
    BY <1>9
  <2>3. QED
    BY <1>1, <2>1, <2>2
<1>11. G = body(G)
  <2> HIDE DEF body
  <2>1. QED
    BY <1>10
<1>12. \A s \in SUBSET (1..n) :
          G[s] = IF s = {} THEN base ELSE PlaceOne(G[s \ {Max(s)}], candidates[Max(s)])
  <2> HIDE DEF G
  <2>1. QED
    BY <1>1, <1>11
<1> HIDE DEF G, body
<1>13. ByPrefixes(G, Placing, base, step, n)
  <2>1. G[{}] = base
    BY <1>12
  <2>2. ASSUME NEW i \in 1..n, G[1..(i - 1)] \in Placing
        PROVE  G[1..i] = step[<<i, G[1..(i - 1)]>>]
    <3>1. PICK s : s = 1..i
      OBVIOUS
    <3>2. s \in SUBSET (1..n) /\ s # {}
      <4>1. i \in s /\ \A j \in s : j \in 1..n
        BY <3>1
      <4>2. QED
        BY <4>1
    <3>3. Max(s) = i /\ s \ {Max(s)} = 1..(i - 1)
      BY <3>1, MaxOfFirst
    <3>4. G[s] = PlaceOne(G[1..(i - 1)], candidates[i])
      BY <1>12, <3>2, <3>3
    <3>5. QED
      BY <1>8, <2>2, <3>1, <3>4
  <2>3. QED
    BY <1>3, <1>7, <2>1, <2>2 DEF ByPrefixes
<1>14. PICK w : Walks(w, Placing, base, step, n) /\ w[n] = G[1..n]
  BY <1>13, WalkSteps
<1>15. w \in [0..n -> Placing] /\ w[0] = base
  BY <1>14 DEF Walks
<1>16. ASSUME NEW i \in 1..n PROVE w[i] = PlaceOne(w[i - 1], candidates[i])
  <2>1. i - 1 \in 0..n
    OBVIOUS
  <2>2. w[i - 1] \in Placing
    BY <1>15, <2>1
  <2>3. w[i] = step[<<i, w[i - 1]>>]
    BY <1>14 DEF Walks
  <2>4. QED
    BY <1>8, <2>2, <2>3
<1>17. Passes(w, out, candidates)
  BY <1>1, <1>2, <1>15, <1>16 DEF Passes
<1>18. QED
  BY <1>1, <1>4, <1>14, <1>17

\* No author follows himself.
Spread(s) == \A k \in 1..(Len(s) - 1) : makerOf[s[k]] # makerOf[s[k + 1]]

\* One more at the end of a sequence.
LEMMA AppendIs ==
    ASSUME NEW s \in Seq(Movie), NEW m \in Movie
    PROVE  /\ Append(s, m) \in Seq(Movie)
           /\ Len(s) \in Nat /\ Len(Append(s, m)) = Len(s) + 1 /\ Append(s, m) # <<>>
           /\ \A i \in 1..Len(s) : Append(s, m)[i] = s[i]
           /\ Append(s, m)[Len(s) + 1] = m
           /\ ToSet(Append(s, m)) = ToSet(s) \cup {m}
<1>1. PICK t \in Seq(Movie) : t = Append(s, m)
  BY AppendProperties
<1>2. /\ Len(s) \in Nat /\ Len(t) = Len(s) + 1 /\ t # <<>>
      /\ \A i \in 1..Len(s) : t[i] = s[i]
      /\ t[Len(s) + 1] = m
  BY <1>1, AppendProperties, LenProperties
<1>3. DOMAIN s = 1..Len(s) /\ DOMAIN t = 1..(Len(s) + 1)
  BY <1>2, LenProperties
<1>4. PICK n \in Nat : n = Len(s)
  BY <1>2
<1>5. {t[i] : i \in 1..(n + 1)} = {s[i] : i \in 1..n} \cup {m}
  <2>1. ASSUME NEW i \in 1..(n + 1) PROVE t[i] \in {s[j] : j \in 1..n} \cup {m}
    <3>1. CASE i = n + 1
      BY <1>2, <1>4, <3>1
    <3>2. CASE i # n + 1
      <4>1. i \in 1..n
        BY <3>2
      <4>2. QED
        BY <1>2, <1>4, <4>1
    <3>3. QED
      BY <3>1, <3>2
  <2>2. \A j \in 1..n : j \in 1..(n + 1) /\ t[j] = s[j]
    BY <1>2, <1>4
  <2>3. n + 1 \in 1..(n + 1) /\ t[n + 1] = m
    BY <1>2, <1>4
  <2>4. QED
    BY <2>1, <2>2, <2>3
<1>6. ToSet(t) = ToSet(s) \cup {m}
  BY <1>3, <1>4, <1>5 DEF ToSet
<1>7. QED
  BY <1>1, <1>2, <1>6

\* A candidate is held back because of the last one, or comes behind another author's.
LEMMA PlaceOneIs ==
    ASSUME NEW acc \in Placing, NEW m \in Movie, NEW x, x = PlaceOne(acc, m)
    PROVE  \/ /\ x.out = acc.out /\ x.delayed = Append(acc.delayed, m)
              /\ acc.out # <<>> /\ makerOf[m] = makerOf[Last(acc.out)]
           \/ /\ x.out = Append(acc.out, m) /\ x.delayed = acc.delayed
              /\ acc.out = <<>> \/ makerOf[m] # makerOf[Last(acc.out)]
BY DEF PlaceOne, Placing

\* A sequence without neighbours of one author stays one behind another author's.
LEMMA SpreadOn ==
    ASSUME NEW s \in Seq(Movie), NEW m \in Movie, Spread(s),
           s = <<>> \/ makerOf[m] # makerOf[Last(s)]
    PROVE  Spread(Append(s, m))
<1>1. PICK t : t = Append(s, m)
  OBVIOUS
<1>2. /\ Len(s) \in Nat /\ Len(t) = Len(s) + 1
      /\ \A i \in 1..Len(s) : t[i] = s[i]
      /\ t[Len(s) + 1] = m
  BY <1>1, AppendIs
<1>3. PICK n \in Nat : n = Len(s)
  BY <1>2
<1>4. ASSUME NEW k \in 1..n PROVE makerOf[t[k]] # makerOf[t[k + 1]]
  <2>1. t[k] = s[k]
    BY <1>2, <1>3
  <2>2. CASE k = n
    <3>1. s # <<>>
      BY <1>3, <2>2, EmptySeq
    <3>2. t[k + 1] = m /\ Last(s) = s[k]
      BY <1>2, <1>3, <2>2 DEF Last
    <3>3. QED
      BY <2>1, <3>1, <3>2
  <2>3. CASE k # n
    <3>1. k \in 1..(n - 1) /\ k + 1 \in 1..n
      BY <2>3
    <3>2. makerOf[s[k]] # makerOf[s[k + 1]]
      BY <1>3, <3>1 DEF Spread
    <3>3. t[k + 1] = s[k + 1]
      BY <1>2, <1>3, <3>1
    <3>4. QED
      BY <2>1, <3>2, <3>3
  <2>4. QED
    BY <2>2, <2>3
<1>5. Len(t) - 1 = n
  BY <1>2, <1>3
<1>6. Spread(t)
  BY <1>4, <1>5 DEF Spread
<1>7. QED
  BY <1>1, <1>6

\* What holds after i candidates of a pass that began behind out.
Kept(acc, out, candidates, i) ==
    /\ acc \in Placing
    /\ Len(acc.out) + Len(acc.delayed) = Len(out) + i
    /\ ToSet(acc.out) \cup ToSet(acc.delayed) = ToSet(out) \cup {candidates[j] : j \in 1..i}
    /\ Spread(out) => Spread(acc.out)
    /\ Len(acc.out) >= Len(out) /\ (i > 0 => acc.out # <<>>)
    /\ Len(acc.out) = Len(out) =>
          acc.out = out /\ \A k \in 1..i : makerOf[candidates[k]] = makerOf[Last(out)]

\* A candidate more.
LEMMA KeptOn ==
    ASSUME NEW acc, NEW out \in Seq(Movie), NEW candidates, NEW i \in Nat,
           Kept(acc, out, candidates, i),
           NEW m \in Movie, m = candidates[i + 1], NEW x, x = PlaceOne(acc, m)
    PROVE  Kept(x, out, candidates, i + 1)
<1>0. acc \in Placing
  BY DEF Kept
<1>1. PICK a \in Seq(Movie), d \in Seq(Movie) : a = acc.out /\ d = acc.delayed
  BY <1>0 DEF Placing
<1>2. /\ Len(a) + Len(d) = Len(out) + i
      /\ ToSet(a) \cup ToSet(d) = ToSet(out) \cup {candidates[j] : j \in 1..i}
      /\ Spread(out) => Spread(a)
      /\ Len(a) >= Len(out)
      /\ Len(a) = Len(out) => a = out /\ \A k \in 1..i : makerOf[candidates[k]] = makerOf[Last(out)]
  BY <1>1 DEF Kept
<1>n. Len(a) + Len(d) = Len(out) + i /\ Len(a) >= Len(out)
  BY <1>2
<1>3. Len(a) \in Nat /\ Len(d) \in Nat /\ Len(out) \in Nat
  BY LenProperties
<1>4. x \in Placing
  BY <1>0, PlaceOneTyped
<1>5. {candidates[j] : j \in 1..(i + 1)} = {candidates[j] : j \in 1..i} \cup {m}
  <2>1. \A j : j \in 1..(i + 1) <=> j \in 1..i \/ j = i + 1
    OBVIOUS
  <2>2. QED
    BY <2>1
<1>6. CASE x.out = a /\ x.delayed = Append(d, m) /\ a # <<>> /\ makerOf[m] = makerOf[Last(a)]
  <2>1. PICK e \in Seq(Movie) : e = Append(d, m)
    BY AppendIs
  <2>2. Len(e) = Len(d) + 1 /\ ToSet(e) = ToSet(d) \cup {m}
    BY <2>1, AppendIs
  <2>3. Len(a) + Len(e) = Len(out) + (i + 1)
    <3>1. Len(e) = Len(d) + 1
      BY <2>2
    <3>2. PICK u \in Nat, v \in Nat, w \in Nat : u = Len(a) /\ v = Len(d) /\ w = Len(out)
      BY <1>3
    <3>3. u + v = w + i
      BY <1>n, <3>2
    <3>4. u + (v + 1) = w + (i + 1)
      BY <3>3
    <3>5. QED
      BY <3>1, <3>2, <3>4
  <2>4. ToSet(a) \cup ToSet(e) = ToSet(out) \cup {candidates[j] : j \in 1..(i + 1)}
    <3>1. PICK A, B, C : /\ A = ToSet(out) /\ B = {candidates[j] : j \in 1..i}
                         /\ C = {candidates[j] : j \in 1..(i + 1)}
      OBVIOUS
    <3>2. C = B \cup {m} /\ ToSet(a) \cup ToSet(d) = A \cup B
      BY <1>2, <1>5, <3>1
    <3>3. QED
      BY <2>2, <3>1, <3>2
  <2>5. ASSUME Len(a) = Len(out), NEW k \in 1..(i + 1)
        PROVE  makerOf[candidates[k]] = makerOf[Last(out)]
    <3>1. a = out
      BY <1>2, <2>5
    <3>2. CASE k = i + 1
      BY <1>6, <3>1, <3>2
    <3>3. CASE k # i + 1
      <4>1. k \in 1..i
        BY <3>3
      <4>2. QED
        BY <1>2, <2>5, <4>1
    <3>4. QED
      BY <3>2, <3>3
  <2>6. QED
    <3>1. x.out = a /\ x.delayed = e
      BY <1>6, <2>1
    <3>2. Len(x.out) + Len(x.delayed) = Len(out) + (i + 1)
      BY <2>3, <3>1
    <3>3. ToSet(x.out) \cup ToSet(x.delayed)
            = ToSet(out) \cup {candidates[j] : j \in 1..(i + 1)}
      BY <2>4, <3>1
    <3>4. (Spread(out) => Spread(x.out)) /\ Len(x.out) >= Len(out) /\ x.out # <<>>
      BY <1>2, <1>6, <3>1
    <3>5. Len(x.out) = Len(out) =>
             x.out = out /\ \A k \in 1..(i + 1) : makerOf[candidates[k]] = makerOf[Last(out)]
      BY <1>2, <2>5, <3>1
    <3>6. QED
      BY <1>4, <3>2, <3>3, <3>4, <3>5, Zenon DEF Kept
<1>7. CASE x.out = Append(a, m) /\ x.delayed = d /\ (a = <<>> \/ makerOf[m] # makerOf[Last(a)])
  <2>1. PICK e \in Seq(Movie) : e = Append(a, m)
    BY AppendIs
  <2>2. Len(e) = Len(a) + 1 /\ ToSet(e) = ToSet(a) \cup {m} /\ e # <<>>
    BY <2>1, AppendIs
  <2>3. Len(e) + Len(d) = Len(out) + (i + 1) /\ Len(e) >= Len(out) /\ Len(e) # Len(out)
    <3>1. Len(e) = Len(a) + 1
      BY <2>2
    <3>2. QED
      BY <1>3, <1>n, <3>1
  <2>4. ToSet(e) \cup ToSet(d) = ToSet(out) \cup {candidates[j] : j \in 1..(i + 1)}
    <3>1. PICK A, B, C : /\ A = ToSet(out) /\ B = {candidates[j] : j \in 1..i}
                         /\ C = {candidates[j] : j \in 1..(i + 1)}
      OBVIOUS
    <3>2. C = B \cup {m} /\ ToSet(a) \cup ToSet(d) = A \cup B
      BY <1>2, <1>5, <3>1
    <3>3. QED
      BY <2>2, <3>1, <3>2
  <2>5. Spread(out) => Spread(e)
    BY <1>2, <1>7, <2>1, SpreadOn
  <2>6. QED
    <3>1. x.out = e /\ x.delayed = d
      BY <1>7, <2>1
    <3>2. /\ Len(x.out) + Len(x.delayed) = Len(out) + (i + 1)
          /\ Len(x.out) >= Len(out) /\ Len(x.out) # Len(out)
      BY <2>3, <3>1
    <3>3. ToSet(x.out) \cup ToSet(x.delayed)
            = ToSet(out) \cup {candidates[j] : j \in 1..(i + 1)}
      BY <2>4, <3>1
    <3>4. (Spread(out) => Spread(x.out)) /\ x.out # <<>>
      BY <2>2, <2>5, <3>1
    <3>5. QED
      BY <1>4, <3>2, <3>3, <3>4, Zenon DEF Kept
<1>8. QED
  BY <1>0, <1>1, <1>6, <1>7, PlaceOneIs

\* A whole pass keeps it.
LEMMA PassKeeps ==
    ASSUME NEW out \in Seq(Movie), NEW candidates \in Seq(Movie)
    PROVE  Kept(Pass(out, candidates), out, candidates, Len(candidates))
<1>1. PICK w : Passes(w, out, candidates) /\ Pass(out, candidates) = w[Len(candidates)]
  BY PassIs
<1>2. PICK n \in Nat : n = Len(candidates)
  BY LenProperties
<1>3. PICK Good : Good = {i \in Nat : i <= n => Kept(w[i], out, candidates, i)}
  OBVIOUS
<1>4. 0 \in Good
  <2>1. PICK acc : acc = [out |-> out, delayed |-> <<>>]
    OBVIOUS
  <2>2. acc \in Placing /\ acc.out = out /\ acc.delayed = <<>>
    BY <2>1, EmptySeq DEF Placing
  <2>3. Len(<<>>) = 0 /\ Len(out) \in Nat /\ 1..0 = {}
    BY LenProperties
  <2>4. ToSet(<<>>) = {}
    BY DEF ToSet
  <2>5. {candidates[j] : j \in 1..0} = {}
    BY <2>3
  <2>6. Kept(acc, out, candidates, 0)
    BY <2>2, <2>3, <2>4, <2>5 DEF Kept
  <2>7. w[0] = acc
    BY <1>1, <2>1 DEF Passes
  <2>8. QED
    BY <1>3, <2>6, <2>7
<1>5. ASSUME NEW i \in Nat, i \in Good PROVE i + 1 \in Good
  <2>1. SUFFICES ASSUME i + 1 <= n PROVE Kept(w[i + 1], out, candidates, i + 1)
    BY <1>3
  <2>2. PICK acc : acc = w[i] /\ Kept(acc, out, candidates, i)
    BY <1>3, <1>5, <2>1
  <2>3. PICK j \in 1..n : j = i + 1 /\ j - 1 = i
    BY <2>1
  <2>4. PICK m \in Movie : m = candidates[j]
    BY <1>2, ElementOfSeq
  <2>5. w[j] = PlaceOne(acc, m)
    BY <1>1, <1>2, <2>2, <2>3, <2>4 DEF Passes
  <2>6. PICK x : x = PlaceOne(acc, m)
    OBVIOUS
  <2>7. Kept(x, out, candidates, i + 1)
    BY <2>2, <2>3, <2>4, <2>6, KeptOn
  <2>8. QED
    BY <2>3, <2>5, <2>6, <2>7
<1>6. \A i \in Nat : i \in Good
  BY <1>4, <1>5, Upwards
<1>7. QED
  BY <1>1, <1>2, <1>3, <1>6

\* A sequence behind another.
LEMMA ConcatIs ==
    ASSUME NEW s \in Seq(Movie), NEW t \in Seq(Movie)
    PROVE  /\ s \o t \in Seq(Movie) /\ Len(s) \in Nat /\ Len(t) \in Nat
           /\ Len(s \o t) = Len(s) + Len(t)
           /\ ToSet(s \o t) = ToSet(s) \cup ToSet(t)
<1>1. PICK u \in Seq(Movie) : u = s \o t
  BY ConcatProperties
<1>2. /\ Len(s) \in Nat /\ Len(t) \in Nat /\ Len(u) = Len(s) + Len(t)
      /\ \A i \in 1..(Len(s) + Len(t)) : u[i] = IF i <= Len(s) THEN s[i] ELSE t[i - Len(s)]
  BY <1>1, ConcatProperties, LenProperties
<1>3. DOMAIN s = 1..Len(s) /\ DOMAIN t = 1..Len(t) /\ DOMAIN u = 1..(Len(s) + Len(t))
  BY <1>2, LenProperties
<1>4. PICK n \in Nat, m \in Nat : n = Len(s) /\ m = Len(t)
  BY <1>2
<1>5. ASSUME NEW i \in 1..(n + m) PROVE u[i] \in {s[j] : j \in 1..n} \cup {t[j] : j \in 1..m}
  <2>1. CASE i <= n
    <3>1. i \in 1..n /\ u[i] = s[i]
      BY <1>2, <1>4, <2>1
    <3>2. QED
      BY <3>1
  <2>2. CASE ~(i <= n)
    <3>1. PICK j \in 1..m : j = i - n
      BY <2>2
    <3>2. u[i] = t[j]
      BY <1>2, <1>4, <2>2, <3>1
    <3>3. QED
      BY <3>2
  <2>3. QED
    BY <2>1, <2>2
<1>6. ASSUME NEW j \in 1..n PROVE s[j] \in {u[i] : i \in 1..(n + m)}
  <2>1. j \in 1..(n + m) /\ u[j] = s[j]
    BY <1>2, <1>4
  <2>2. QED
    BY <2>1
<1>7. ASSUME NEW j \in 1..m PROVE t[j] \in {u[i] : i \in 1..(n + m)}
  <2>1. PICK i \in 1..(n + m) : i = n + j /\ i - n = j /\ ~(i <= n)
    OBVIOUS
  <2>2. u[i] = t[j]
    BY <1>2, <1>4, <2>1
  <2>3. QED
    BY <2>2
<1>8. {u[i] : i \in 1..(n + m)} = {s[j] : j \in 1..n} \cup {t[j] : j \in 1..m}
  BY <1>5, <1>6, <1>7
<1>9. ToSet(u) = ToSet(s) \cup ToSet(t)
  BY <1>3, <1>4, <1>8 DEF ToSet
<1>10. QED
  BY <1>1, <1>2, <1>9

\* What is spread, with the last author's behind it.
LEMMA EndsAlike ==
    ASSUME NEW s \in Seq(Movie), NEW t \in Seq(Movie), s # <<>>, Spread(s),
           \A k \in 1..Len(t) : makerOf[t[k]] = makerOf[Last(s)]
    PROVE  OnlyAtTheEnd(s \o t)
<1>1. PICK u \in Seq(Movie) : u = s \o t
  BY ConcatProperties
<1>2. /\ Len(s) \in Nat \ {0} /\ Len(t) \in Nat /\ Len(u) = Len(s) + Len(t)
      /\ \A i \in 1..(Len(s) + Len(t)) : u[i] = IF i <= Len(s) THEN s[i] ELSE t[i - Len(s)]
  BY <1>1, ConcatProperties, LenProperties, EmptySeq
<1>3. PICK n \in Nat \ {0}, m \in Nat : n = Len(s) /\ m = Len(t)
  BY <1>2
<1>4. ASSUME NEW j \in n..(n + m) PROVE makerOf[u[j]] = makerOf[s[n]]
  <2>1. j \in 1..(n + m)
    OBVIOUS
  <2>2. CASE j <= n
    <3>1. j = n
      BY <2>2
    <3>2. u[j] = s[n]
      BY <1>2, <1>3, <2>1, <3>1
    <3>3. QED
      BY <3>2
  <2>3. CASE ~(j <= n)
    <3>1. PICK k \in 1..m : k = j - n
      BY <2>3
    <3>2. u[j] = t[k]
      BY <1>2, <1>3, <2>1, <2>3, <3>1
    <3>3. makerOf[t[k]] = makerOf[s[n]]
      BY <1>3 DEF Last
    <3>4. QED
      BY <3>2, <3>3
  <2>4. QED
    BY <2>2, <2>3
<1>5. ASSUME NEW i \in 1..(n + m - 1), makerOf[u[i]] = makerOf[u[i + 1]],
             NEW j \in i..(n + m)
      PROVE  makerOf[u[j]] = makerOf[u[i]]
  <2>1. CASE i < n
    <3>1. i \in 1..(n - 1) /\ i \in 1..(n + m) /\ i + 1 \in 1..(n + m) /\ i <= n /\ i + 1 <= n
      BY <2>1
    <3>2. u[i] = s[i] /\ u[i + 1] = s[i + 1]
      BY <1>2, <1>3, <3>1
    <3>3. makerOf[s[i]] # makerOf[s[i + 1]]
      BY <1>3, <3>1 DEF Spread
    <3>4. QED
      BY <1>5, <3>2, <3>3
  <2>2. CASE ~(i < n)
    <3>1. i \in n..(n + m) /\ j \in n..(n + m)
      BY <2>2
    <3>2. QED
      BY <1>4, <3>1
  <2>3. QED
    BY <2>1, <2>2
<1>6. Len(u) = n + m
  BY <1>2, <1>3
<1>7. OnlyAtTheEnd(u)
  BY <1>5, <1>6 DEF OnlyAtTheEnd
<1>8. QED
  BY <1>1, <1>7

\* What is left after i further passes over the candidates.
Left(acc, candidates, i) ==
    /\ acc \in Placing
    /\ Len(acc.out) + Len(acc.delayed) = Len(candidates)
    /\ ToSet(acc.out) \cup ToSet(acc.delayed) = ToSet(candidates)
    /\ acc.out # <<>>
    /\ \/ acc.delayed = <<>> /\ OnlyAtTheEnd(acc.out)
       \/ Spread(acc.out) /\ Len(acc.delayed) + i < Len(candidates)

\* A pass over what was held back.
LEMMA PassOverHeld ==
    ASSUME NEW a \in Seq(Movie), NEW d \in Seq(Movie), NEW x, x = Pass(a, d)
    PROVE  /\ x \in Placing /\ Len(x.out) \in Nat /\ Len(x.delayed) \in Nat
           /\ Len(a) \in Nat /\ Len(d) \in Nat
           /\ Len(x.out) + Len(x.delayed) = Len(a) + Len(d) /\ Len(x.out) >= Len(a)
           /\ ToSet(x.out) \cup ToSet(x.delayed) = ToSet(a) \cup ToSet(d)
           /\ Spread(a) => Spread(x.out)
           /\ Len(d) > 0 => x.out # <<>>
           /\ Len(x.out) = Len(a) => \A k \in 1..Len(d) : makerOf[d[k]] = makerOf[Last(a)]
<1>1. Kept(x, a, d, Len(d))
  BY PassKeeps
<1>2. PICK out \in Seq(Movie), delayed \in Seq(Movie) : out = x.out /\ delayed = x.delayed
  BY <1>1 DEF Kept, Placing
<1>3. Len(out) \in Nat /\ Len(delayed) \in Nat /\ Len(a) \in Nat /\ Len(d) \in Nat
  BY LenProperties
<1>4. {d[j] : j \in 1..Len(d)} = ToSet(d)
  BY LenProperties DEF ToSet
<1>5. Len(out) + Len(delayed) = Len(a) + Len(d) /\ Len(out) >= Len(a)
  BY <1>1, <1>2 DEF Kept
<1>6. ToSet(out) \cup ToSet(delayed) = ToSet(a) \cup ToSet(d)
  BY <1>1, <1>2, <1>4 DEF Kept
<1>7. (Spread(a) => Spread(out)) /\ (Len(d) > 0 => out # <<>>)
  BY <1>1, <1>2 DEF Kept
<1>8. ASSUME Len(out) = Len(a), NEW k \in 1..Len(d) PROVE makerOf[d[k]] = makerOf[Last(a)]
  BY <1>1, <1>2, <1>8 DEF Kept
<1>9. QED
  BY <1>1, <1>2, <1>3, <1>5, <1>6, <1>7, <1>8 DEF Kept

\* The next pass, or the end.
LEMMA LeftOn ==
    ASSUME NEW acc, NEW candidates \in Seq(Movie), NEW i \in Nat, Left(acc, candidates, i),
           NEW x, x = Again(acc)
    PROVE  Left(x, candidates, i + 1)
<1>1. PICK a \in Seq(Movie), d \in Seq(Movie) : a = acc.out /\ d = acc.delayed
  BY DEF Left, Placing
<1>2. Len(a) + Len(d) = Len(candidates) /\ a # <<>>
  BY <1>1 DEF Left
<1>3. ToSet(a) \cup ToSet(d) = ToSet(candidates)
  BY <1>1 DEF Left
<1>4. \/ d = <<>> /\ OnlyAtTheEnd(a)
      \/ Spread(a) /\ Len(d) + i < Len(candidates)
  BY <1>1 DEF Left
<1>5. PICK y : y = Pass(a, d)
  OBVIOUS
<1>6. /\ y \in Placing /\ Len(y.out) \in Nat /\ Len(y.delayed) \in Nat
      /\ Len(a) \in Nat /\ Len(d) \in Nat
      /\ Len(y.out) + Len(y.delayed) = Len(a) + Len(d) /\ Len(y.out) >= Len(a)
  BY <1>5, PassOverHeld
<1>7. CASE Len(y.out) = Len(a)
  <2>1. PICK u : u = a \o d
    OBVIOUS
  <2>2. x = [out |-> u, delayed |-> <<>>]
    BY <1>1, <1>5, <1>7, <2>1 DEF Again
  <2>3. u \in Seq(Movie) /\ Len(u) = Len(candidates) /\ ToSet(u) = ToSet(candidates)
    BY <1>2, <1>3, <2>1, ConcatIs
  <2>4. u # <<>>
    <3>1. Len(a) \in Nat \ {0}
      BY <1>2, EmptySeq
    <3>2. Len(u) # 0
      BY <1>2, <1>6, <2>3, <3>1
    <3>3. QED
      BY <3>2
  <2>5. OnlyAtTheEnd(u)
    <3>1. CASE d = <<>> /\ OnlyAtTheEnd(a)
      <4>1. u = a
        BY <2>1, <3>1, ConcatEmptySeq
      <4>2. QED
        BY <3>1, <4>1
    <3>2. CASE Spread(a)
      <4>1. \A k \in 1..Len(d) : makerOf[d[k]] = makerOf[Last(a)]
        BY <1>5, <1>7, PassOverHeld
      <4>2. QED
        BY <1>2, <2>1, <3>2, <4>1, EndsAlike
    <3>3. QED
      BY <1>4, <3>1, <3>2
  <2>6. /\ x \in Placing /\ x.out = u /\ x.delayed = <<>>
        /\ Len(x.delayed) = 0 /\ ToSet(x.delayed) = {}
    BY <2>2, <2>3, EmptySeq DEF Placing, ToSet
  <2>7. Len(x.out) + Len(x.delayed) = Len(candidates)
    <3>1. Len(candidates) \in Nat
      BY LenProperties
    <3>2. QED
      BY <2>3, <2>6, <3>1
  <2>8. ToSet(x.out) \cup ToSet(x.delayed) = ToSet(candidates)
    BY <2>3, <2>6
  <2>9. QED
    BY <2>4, <2>5, <2>6, <2>7, <2>8, Zenon DEF Left
<1>8. CASE Len(y.out) # Len(a)
  <2>1. x = y
    BY <1>1, <1>5, <1>8 DEF Again
  <2>2. Len(d) # 0
    <3>1. PICK p \in Nat, q \in Nat, r \in Nat, s \in Nat :
             p = Len(a) /\ q = Len(d) /\ r = Len(y.out) /\ s = Len(y.delayed)
      BY <1>6
    <3>2. r + s = p + q /\ r >= p /\ r # p
      BY <1>6, <1>8, <3>1
    <3>3. q # 0
      BY <3>2
    <3>4. QED
      BY <3>1, <3>3
  <2>3. Spread(a) /\ Len(d) + i < Len(candidates)
    BY <1>4, <2>2, EmptySeq
  <2>4. Spread(y.out) /\ y.out # <<>>
    <3>1. Len(d) > 0
      BY <1>6, <2>2
    <3>2. QED
      BY <1>5, <2>3, <3>1, PassOverHeld
  <2>5. ToSet(y.out) \cup ToSet(y.delayed) = ToSet(candidates)
    BY <1>3, <1>5, PassOverHeld
  <2>6. Len(y.out) + Len(y.delayed) = Len(candidates)
    BY <1>2, <1>6
  <2>7. Len(y.delayed) + (i + 1) < Len(candidates)
    <3>1. PICK n \in Nat : n = Len(candidates)
      BY LenProperties
    <3>2. PICK p \in Nat, q \in Nat, r \in Nat, s \in Nat :
             p = Len(a) /\ q = Len(d) /\ r = Len(y.out) /\ s = Len(y.delayed)
      BY <1>6
    <3>3. r + s = p + q /\ r >= p /\ r # p /\ q + i < n
      BY <1>6, <1>8, <2>3, <3>1, <3>2
    <3>4. s + (i + 1) < n
      BY <3>3
    <3>5. QED
      BY <3>1, <3>2, <3>4
  <2>8. Left(y, candidates, i + 1)
    BY <1>6, <2>4, <2>5, <2>6, <2>7, Zenon DEF Left
  <2>9. QED
    BY <2>1, <2>8
<1>9. QED
  BY <1>7, <1>8

\* The state of the interleaving after each pass.
Rounds(w, candidates) ==
    /\ w[0] = Pass(<<>>, candidates)
    /\ \A i \in 1..Len(candidates) : w[i] = Again(w[i - 1])

\* The types of a pass.
LEMMA AgainTyped ==
    ASSUME NEW acc \in Placing
    PROVE  Again(acc) \in Placing
<1>1. PICK a \in Seq(Movie), d \in Seq(Movie) : a = acc.out /\ d = acc.delayed
  BY DEF Placing
<1>2. PICK y \in Placing : y = Pass(a, d)
  BY PassOverHeld
<1>3. a \o d \in Seq(Movie) /\ <<>> \in Seq(Movie)
  BY ConcatIs, EmptySeq
<1>4. Again(acc) = IF Len(y.out) = Len(a) THEN [out |-> a \o d, delayed |-> <<>>] ELSE y
  BY <1>1, <1>2 DEF Again
<1>5. QED
  BY <1>3, <1>4 DEF Placing

\* Passes follow each other, as many as there are candidates.
LEMMA InterleaveIs ==
    ASSUME NEW candidates \in Seq(Movie), Len(candidates) > 2
    PROVE  \E w : /\ Rounds(w, candidates)
                  /\ InterleaveByAuthor(candidates) = w[Len(candidates)].out
<1>1. PICK n \in Nat : n = Len(candidates) /\ DOMAIN candidates = 1..n
  BY LenProperties
<1>2. PICK base : base = Pass(<<>>, candidates)
  OBVIOUS
<1>3. base \in Placing
  <2>1. PICK none \in Seq(Movie) : none = <<>>
    BY EmptySeq
  <2>2. QED
    BY <1>2, <2>1, PassOverHeld
<1> DEFINE S == DOMAIN candidates
           body(F) == [s \in SUBSET S |-> IF s = {} THEN base ELSE Again(F[s \ {Max(s)}])]
           G == CHOOSE F : F = body(F)
<1>4. InterleaveByAuthor(candidates) = G[S].out
  BY <1>1, <1>2 DEF InterleaveByAuthor, FoldLeft, MapThenFoldSet
<1>5. PICK step : step = [p \in (1..n) \X Placing |-> Again(p[2])]
  OBVIOUS
<1>6. step \in [(1..n) \X Placing -> Placing]
  BY <1>5, AgainTyped
<1>7. \A i \in 1..n, acc \in Placing : step[<<i, acc>>] = Again(acc)
  BY <1>5
<1>8. PICK W \in [SUBSET (1..n) -> Placing] : FromTheLargest(W, base, step, n)
  BY <1>3, <1>6, WalkExists
<1>9. \A s \in SUBSET (1..n) : s # {} => Max(s) \in 1..n
  <2>1. IsFiniteSet(1..n) /\ 1..n \subseteq Nat
    BY FS_Interval
  <2>2. \A s \in SUBSET (1..n) : s \subseteq Nat /\ IsFiniteSet(s)
    BY <2>1, FS_Subset
  <2>3. QED
    BY <2>2, MaxIs
<1>10. W = body(W)
  <2>1. ASSUME NEW s \in SUBSET (1..n)
        PROVE  W[s] = IF s = {} THEN base ELSE Again(W[s \ {Max(s)}])
    <3>1. CASE s = {}
      BY <1>8, <3>1 DEF FromTheLargest
    <3>2. CASE s # {}
      <4>1. PICK x \in 1..n : x = Max(s)
        BY <1>9, <3>2
      <4>2. PICK acc \in Placing : acc = W[s \ {x}]
        BY <1>8
      <4>3. W[s] = step[<<x, acc>>]
        BY <1>8, <3>2, <4>1, <4>2 DEF FromTheLargest
      <4>4. QED
        BY <1>7, <3>2, <4>1, <4>2, <4>3
    <3>3. QED
      BY <3>1, <3>2
  <2>2. W = [s \in SUBSET (1..n) |-> W[s]]
    BY <1>8
  <2>3. QED
    BY <1>1, <2>1, <2>2
<1>11. G = body(G)
  <2> HIDE DEF body
  <2>1. QED
    BY <1>10
<1>12. \A s \in SUBSET (1..n) : G[s] = IF s = {} THEN base ELSE Again(G[s \ {Max(s)}])
  <2> HIDE DEF G
  <2>1. QED
    BY <1>1, <1>11
<1> HIDE DEF G, body
<1>13. PICK w : w = [i \in 0..n |-> G[1..i]]
  OBVIOUS
<1>14. w[0] = base
  <2>1. 1..0 = {}
    OBVIOUS
  <2>2. w[0] = G[{}]
    BY <1>13, <2>1
  <2>3. QED
    BY <1>12, <2>2
<1>15. ASSUME NEW i \in 1..n PROVE w[i] = Again(w[i - 1])
  <2>1. PICK s : s = 1..i
    OBVIOUS
  <2>2. s \in SUBSET (1..n) /\ s # {}
    <3>1. i \in s /\ \A j \in s : j \in 1..n
      BY <2>1
    <3>2. QED
      BY <3>1
  <2>3. Max(s) = i /\ s \ {Max(s)} = 1..(i - 1)
    BY <2>1, MaxOfFirst
  <2>4. G[s] = Again(G[1..(i - 1)])
    BY <1>12, <2>2, <2>3
  <2>5. w[i] = G[s] /\ w[i - 1] = G[1..(i - 1)]
    BY <1>13, <2>1
  <2>6. QED
    BY <2>4, <2>5
<1>16. Rounds(w, candidates)
  BY <1>1, <1>2, <1>14, <1>15 DEF Rounds
<1>17. w[n] = G[S]
  BY <1>1, <1>13
<1>18. QED
  BY <1>1, <1>4, <1>16, <1>17

\* After the first pass something is placed, and no author follows himself.
LEMMA LeftAtFirst ==
    ASSUME NEW candidates \in Seq(Movie), Len(candidates) > 2, NEW x, x = Pass(<<>>, candidates)
    PROVE  Left(x, candidates, 0)
<1>1. PICK none \in Seq(Movie) : none = <<>>
  BY EmptySeq
<1>2. Len(none) = 0 /\ Len(candidates) \in Nat
  BY <1>1, LenProperties
<1>3. ToSet(none) = {}
  BY <1>1 DEF ToSet
<1>4. Spread(none)
  <2>1. 1..(0 - 1) = {}
    OBVIOUS
  <2>2. QED
    BY <1>2, <2>1 DEF Spread
<1>5. x = Pass(none, candidates)
  BY <1>1
<1>6. /\ x \in Placing /\ Len(x.out) \in Nat /\ Len(x.delayed) \in Nat
      /\ Len(x.out) + Len(x.delayed) = Len(none) + Len(candidates)
  BY <1>5, PassOverHeld
<1>7. Spread(x.out) /\ x.out # <<>>
  <2>1. Len(candidates) > 0
    BY <1>2
  <2>2. QED
    BY <1>4, <1>5, <2>1, PassOverHeld
<1>8. ToSet(x.out) \cup ToSet(x.delayed) = ToSet(candidates)
  <2>1. ToSet(x.out) \cup ToSet(x.delayed) = ToSet(none) \cup ToSet(candidates)
    BY <1>5, PassOverHeld
  <2>2. QED
    BY <1>3, <2>1
<1>9. Len(x.out) + Len(x.delayed) = Len(candidates)
  <2>1. Len(none) + Len(candidates) = Len(candidates)
    BY <1>2
  <2>2. QED
    BY <1>6, <2>1
<1>10. Len(x.delayed) + 0 < Len(candidates)
  <2>1. PICK out \in Seq(Movie) : out = x.out
    BY <1>6 DEF Placing
  <2>2. Len(x.out) \in Nat \ {0}
    BY <1>7, <2>1, EmptySeq
  <2>3. PICK p \in Nat \ {0}, q \in Nat, n \in Nat :
           p = Len(x.out) /\ q = Len(x.delayed) /\ n = Len(candidates)
    BY <1>2, <1>6, <2>2
  <2>4. p + q = n
    BY <1>9, <2>3
  <2>5. q + 0 < n
    BY <2>4
  <2>6. QED
    BY <2>3, <2>5
<1>11. QED
  BY <1>6, <1>7, <1>8, <1>9, <1>10, Zenon DEF Left

\* The interleaving of more than two candidates loses none and ends with the only
\* author left.
LEMMA Interleaved ==
    ASSUME NEW candidates \in Seq(Movie), Len(candidates) > 2
    PROVE  LET sent == InterleaveByAuthor(candidates)
           IN  /\ sent \in Seq(Movie) /\ ToSet(sent) = ToSet(candidates)
               /\ Len(sent) = Len(candidates) /\ OnlyAtTheEnd(sent)
<1>1. PICK w : Rounds(w, candidates) /\ InterleaveByAuthor(candidates) = w[Len(candidates)].out
  BY InterleaveIs
<1>2. PICK n \in Nat : n = Len(candidates)
  BY LenProperties
<1>3. PICK Good : Good = {i \in Nat : i <= n => Left(w[i], candidates, i)}
  OBVIOUS
<1>4. 0 \in Good
  <2>1. Left(w[0], candidates, 0)
    BY <1>1, LeftAtFirst DEF Rounds
  <2>2. QED
    BY <1>3, <2>1
<1>5. ASSUME NEW i \in Nat, i \in Good PROVE i + 1 \in Good
  <2>1. SUFFICES ASSUME i + 1 <= n PROVE Left(w[i + 1], candidates, i + 1)
    BY <1>3
  <2>2. PICK acc : acc = w[i] /\ Left(acc, candidates, i)
    BY <1>3, <1>5, <2>1
  <2>3. PICK j \in 1..n : j = i + 1 /\ j - 1 = i
    BY <2>1
  <2>4. w[j] = Again(acc)
    BY <1>1, <1>2, <2>2, <2>3 DEF Rounds
  <2>5. PICK x : x = Again(acc)
    OBVIOUS
  <2>6. Left(x, candidates, i + 1)
    BY <2>2, <2>5, LeftOn
  <2>7. QED
    BY <2>3, <2>4, <2>5, <2>6
<1>6. \A i \in Nat : i \in Good
  BY <1>4, <1>5, Upwards
<1>7. PICK acc : acc = w[n] /\ Left(acc, candidates, n)
  BY <1>3, <1>6
<1>8. PICK out \in Seq(Movie), delayed \in Seq(Movie) : out = acc.out /\ delayed = acc.delayed
  BY <1>7 DEF Left, Placing
<1>9. Len(out) \in Nat /\ Len(delayed) \in Nat
  BY LenProperties
<1>10. ~(Len(delayed) + n < n)
  BY <1>9
<1>11. delayed = <<>> /\ OnlyAtTheEnd(out)
  BY <1>2, <1>7, <1>8, <1>10 DEF Left
<1>12. Len(delayed) = 0 /\ ToSet(delayed) = {}
  BY <1>11 DEF ToSet
<1>13. Len(out) + Len(delayed) = n
  BY <1>2, <1>7, <1>8 DEF Left
<1>14. ToSet(out) \cup ToSet(delayed) = ToSet(candidates)
  BY <1>7, <1>8 DEF Left
<1>15. Len(out) = n /\ ToSet(out) = ToSet(candidates)
  BY <1>9, <1>12, <1>13, <1>14
<1>16. InterleaveByAuthor(candidates) = out
  BY <1>1, <1>2, <1>7, <1>8
<1>17. QED
  BY <1>2, <1>11, <1>15, <1>16

\* The types are all an answer needs.
LEMMA TypedSpread == DiscoveryTypeOK => PicksSpread
<1> SUFFICES ASSUME DiscoveryTypeOK PROVE PicksSpread
  OBVIOUS
<1>1. PICK cut \in Seq(Movie) : cut = picks.cut
  BY DEF DiscoveryTypeOK
<1>2. PICK n \in Nat : n = Len(cut)
  BY LenProperties
<1>3. PICK sent : sent = InterleaveByAuthor(cut)
  OBVIOUS
<1>4. CASE n <= 2
  <2>1. sent = cut
    BY <1>2, <1>3, <1>4 DEF InterleaveByAuthor
  <2>2. ~(Len(sent) > 2)
    BY <1>2, <1>4, <2>1
  <2>3. QED
    BY <1>1, <1>3, <2>1, <2>2 DEF PicksSpread, Sent
<1>5. CASE ~(n <= 2)
  <2>1. Len(cut) > 2
    BY <1>2, <1>5
  <2>2. ToSet(sent) = ToSet(cut) /\ Len(sent) = Len(cut) /\ OnlyAtTheEnd(sent)
    BY <1>3, <2>1, Interleaved
  <2>3. QED
    BY <1>1, <1>3, <2>2 DEF PicksSpread, Sent
<1>6. QED
  BY <1>4, <1>5

\* Interleaving loses and repeats no candidate of a page, and two videos of one
\* author are neighbours only when nobody else's are left, for every page, ranking
\* and set of authors (interleaveByAuthor).
THEOREM PicksAreSpread == DiscoverySpec => []PicksSpread
BY PicksTyped, TypedSpread, PTL

\* A sequence that has as many different videos as it has places repeats none.
LEMMA SameVideosOnce ==
    ASSUME NEW s \in Seq(Movie), NEW t \in Seq(Movie), IsInjective(s),
           ToSet(t) = ToSet(s), Len(t) = Len(s)
    PROVE  IsInjective(t)
<1>1. PICK n \in Nat : n = Len(s) /\ n = Len(t)
  BY LenProperties
<1>2. PICK P : P = 1..n
  OBVIOUS
<1>3. DOMAIN s = P /\ DOMAIN t = P /\ IsFiniteSet(P)
  BY <1>1, <1>2, LenProperties, FS_Interval
<1>4. PICK T : T = ToSet(s) /\ T = ToSet(t)
  OBVIOUS
<1>5. s \in Surjection(P, T)
  <2>1. s \in [P -> T]
    <3>1. s = [i \in P |-> s[i]]
      BY <1>1, <1>2
    <3>2. \A i \in P : s[i] \in T
      BY <1>3, <1>4 DEF ToSet
    <3>3. QED
      BY <3>1, <3>2
  <2>2. \A x \in T : \E i \in P : s[i] = x
    BY <1>3, <1>4 DEF ToSet
  <2>3. QED
    BY <2>1, <2>2 DEF Surjection
<1>6. t \in Surjection(P, T)
  <2>1. t \in [P -> T]
    <3>1. t = [i \in P |-> t[i]]
      BY <1>1, <1>2
    <3>2. \A i \in P : t[i] \in T
      BY <1>3, <1>4 DEF ToSet
    <3>3. QED
      BY <3>1, <3>2
  <2>2. \A x \in T : \E i \in P : t[i] = x
    BY <1>3, <1>4 DEF ToSet
  <2>3. QED
    BY <2>1, <2>2 DEF Surjection
<1>7. s \in Injection(P, T)
  BY <1>5 DEF Injection, Surjection
<1>8. Cardinality(P) = Cardinality(T)
  BY <1>3, <1>5, <1>7, FS_Surjection
<1>9. t \in Injection(P, T)
  BY <1>3, <1>6, <1>8, FS_SurjSameCardinalityImpliesInj
<1>10. QED
  BY <1>9 DEF Injection

\* No answer repeats a video.
SentOnce == IsInjective(Sent)

\* An answer of RecommendStrategy.List has no video twice: the ranking gives each
\* candidate one place, and the interleaving keeps the places (sortCandidates,
\* interleaveByAuthor).
THEOREM PicksOnce == DiscoverySpec => []SentOnce
<1>1. DiscoveryInv => SentOnce
  <2> SUFFICES ASSUME DiscoveryInv PROVE SentOnce
    OBVIOUS
  <2>1. PICK cut \in Seq(Movie) : cut = picks.cut /\ IsInjective(cut)
    BY DEF DiscoveryInv, Answer
  <2>2. PICK sent : sent = InterleaveByAuthor(cut)
    OBVIOUS
  <2>3. CASE Len(cut) <= 2
    BY <2>1, <2>2, <2>3 DEF InterleaveByAuthor, SentOnce, Sent
  <2>4. CASE ~(Len(cut) <= 2)
    <3>1. Len(cut) > 2
      BY <2>4, LenProperties
    <3>2. sent \in Seq(Movie) /\ ToSet(sent) = ToSet(cut) /\ Len(sent) = Len(cut)
      BY <2>2, <3>1, Interleaved
    <3>3. IsInjective(sent)
      BY <2>1, <3>2, SameVideosOnce
    <3>4. QED
      BY <2>1, <2>2, <3>3 DEF SentOnce, Sent
  <2>5. QED
    BY <2>3, <2>4
<1>2. QED
  BY <1>1, PicksInit, PicksNext, PTL DEF DiscoverySpec

(***************************************************************************)
(* All of them together.                                                   *)
(***************************************************************************)

\* A behaviour of the whole is one of each part.
THEOREM FeedsParts ==
    Spec => FollowSpec /\ FeedSpec /\ PageSpec /\ HotSpec /\ DiscoverySpec /\ EmbeddingSpec
<1>1. Init => FollowInit /\ FeedInit /\ PageInit /\ HotInit /\ DiscoveryInit /\ EmbeddingInit
  BY DEF Init
<1>2. [Next]_<<focus, followVars, feedVars, pageVars, hotVars, discoveryVars, embeddingVars>> =>
         /\ [FollowNext]_followVars /\ [FeedNext]_feedVars /\ [PageNext]_pageVars
         /\ [HotNext]_hotVars /\ [DiscoveryNext]_discoveryVars /\ [EmbeddingNext]_embeddingVars
  BY Zenon DEF Next
<1>3. QED
  BY <1>1, <1>2, PTL
     DEF Spec, FollowSpec, FeedSpec, PageSpec, HotSpec, DiscoverySpec, EmbeddingSpec

\* Every part keeps its types (FollowGraph, FollowingFeed, FeedPages, HotFeed,
\* Discovery, Embeddings).
THEOREM FeedsTyped == Spec => []FeedsTypeOK
<1>1. FollowTypeOK /\ FeedTypeOK /\ PageTypeOK /\ HotTypeOK /\ DiscoveryTypeOK /\ EmbeddingTypeOK
         => FeedsTypeOK
  BY DEF FeedsTypeOK
<1>2. QED
  BY FeedsParts, FollowsTyped, FollowingTyped, PagesTyped, HotTyped, PicksTyped, VectorsTyped,
     <1>1, PTL

\* Answers are spread and vectors are of the present texts, together
\* (interleaveByAuthor, processEvent, GenerateForPublishedVideo).
THEOREM PicksAreSound == Spec => []PicksSound
<1>1. PicksSpread /\ VectorCurrent => PicksSound
  BY DEF PicksSound
<1>2. QED
  BY FeedsParts, PicksAreSpread, VectorsCurrent, <1>1, PTL
=============================================================================

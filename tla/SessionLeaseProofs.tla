------------------------- MODULE SessionLeaseProofs -------------------------
(***************************************************************************)
(* Proofs about SessionLease, for any number of sessions, requests and     *)
(* handlers and any lease.                                                 *)
(***************************************************************************)
EXTENDS SessionLease, TLAPS

\* A lease on s that ends at u is no longer than one taken now and, when s is
\* revoked, than one taken as the revocation committed.
Bounded(s, u) ==
    /\ u <= now + Lease
    /\ s \in revoked => u <= revokedAt[s] + Lease

\* No copy of s can be trusted any more: the marker stands, or every lease
\* taken before the revocation has run out.
Closed(s) ==
    \/ redis[s].kind = "revoked"
    \/ now >= revokedAt[s] + Lease

\* Revocations lie in the past, and what handlers work on is revoked.
RevokedInv ==
    /\ \A s \in revoked : revokedAt[s] <= now
    /\ \A p \in Rev : rev[p].ids \subseteq revoked /\ rev[p].todo \subseteq rev[p].ids
    /\ \A p \in Rev : rev[p].pc = "marking" =>
         \A s \in rev[p].ids : rev[p].deadline >= revokedAt[s] + Lease

\* Every lease under way or in Redis is bounded, and markers are for revoked
\* sessions and outlive the leases.
LeaseInv ==
    /\ \A r \in Req : req[r].pc = "stamped" => req[r].until <= now + Lease
    /\ \A r \in Req : req[r].pc = "loaded" => Bounded(req[r].sid, req[r].until)
    /\ \A c \in wire : c.kind = "lease" => Bounded(c.sid, c.until)
    /\ \A c \in wire : c.kind = "revoked" => c.sid \in revoked
    /\ \A s \in Sid : redis[s].kind = "lease" => Bounded(s, redis[s].until)
    /\ \A s \in Sid : redis[s].kind = "revoked" =>
         s \in revoked /\ redis[s].until >= revokedAt[s] + Lease

\* Requests that began overdue are never trusted.
OverdueInv ==
    \A r \in Req : req[r].overdue => req[r].sid \in revoked /\ ~Trusted(r)

\* What a handler has marked, and what has been retired, is closed, when Redis
\* keeps its keys; so late requests are never trusted.
ClosedInv ==
    /\ \A p \in Rev : rev[p].pc = "marking" /\ ~rev[p].failed =>
         \A s \in rev[p].ids \ rev[p].todo : Closed(s)
    /\ \A s \in retired : Closed(s)

LateInv ==
    \A r \in Req : req[r].late => req[r].sid \in revoked /\ ~Trusted(r)

IInv == TypeOK /\ RevokedInv /\ LeaseInv /\ OverdueInv
         /\ (RedisKeepsKeys => ClosedInv /\ LateInv)
-----------------------------------------------------------------------------
\* The actions, one by one: what a case split on Next needs.
LEMMA NextCases ==
    ASSUME Next
    PROVE  \/ Tick
           \/ \E r \in Req, s \in Sid : GetMarker(r, s) \/ GetCopy(r, s) \/ GetMiss(r, s)
           \/ \E r \in Req : \/ Stamp(r) \/ ReadRow(r) \/ ReadRowDenied(r)
                             \/ Store(r) \/ Finish(r)
           \/ \E p \in Rev, s \in Sid : Logout(p, s) \/ MarkOk(p, s) \/ MarkFail(p, s)
           \/ \E p \in Rev : RevokeAll(p) \/ RetireStart(p) \/ RetireReturn(p) \/ Crash(p)
           \/ \E c \in wire : RedisApply(c) \/ RedisDrop(c)
           \/ \E s \in Sid : RedisForget(s)
BY DEF Next, Authenticate, Revocation, Redis

\* The idle records are well typed.
LEMMA IdleTypes == IdleRequest \in Request /\ IdleHandler \in Handler /\ NoEntry \in Entry
<1>1. (CHOOSE s \in Sid : TRUE) \in Sid
  BY SessionConstants
<1>2. IdleRequest \in Request
  BY <1>1 DEF IdleRequest, Request, ReqPC
<1>3. IdleHandler \in Handler
  BY DEF IdleHandler, Handler
<1>4. QED
  BY <1>2, <1>3 DEF NoEntry, Entry

\* With no session revoked and Redis empty the invariant holds.
LEMMA InitIInv == Init => IInv
<1> SUFFICES ASSUME Init PROVE IInv
  OBVIOUS
<1>1. TypeOK
  BY IdleTypes DEF Init, TypeOK
<1>2. \A r \in Req : req[r].pc = "idle" /\ ~req[r].late /\ ~req[r].overdue
  BY DEF Init, IdleRequest
<1>3. \A p \in Rev : rev[p].pc = "idle" /\ rev[p].ids = {} /\ rev[p].todo = {}
  BY DEF Init, IdleHandler
<1>4. \A s \in Sid : redis[s].kind = "none"
  BY DEF Init, NoEntry
<1>5. revoked = {} /\ retired = {} /\ wire = {}
  BY DEF Init
<1>6. RevokedInv /\ LeaseInv
  BY <1>2, <1>3, <1>4, <1>5 DEF RevokedInv, LeaseInv
<1>7. OverdueInv /\ ClosedInv /\ LateInv
  BY <1>2, <1>3, <1>5 DEF OverdueInv, ClosedInv, LateInv
<1>8. QED
  BY <1>1, <1>6, <1>7 DEF IInv

-----------------------------------------------------------------------------
\* Each action preserves the type invariant, given that handlers only work on
\* revoked sessions.
LEMMA TypeStep == TypeOK /\ RevokedInv /\ Next => TypeOK'
<1> SUFFICES ASSUME TypeOK, RevokedInv, Next PROVE TypeOK'
  OBVIOUS
<1> USE SessionConstants, IdleTypes
<1>1. CASE Tick
  BY <1>1 DEF TypeOK, Tick
<1>2. ASSUME NEW r \in Req, NEW s \in Sid, GetMarker(r, s) \/ GetCopy(r, s) \/ GetMiss(r, s)
      PROVE  TypeOK'
  <2>1. CASE GetMarker(r, s)
    BY <2>1 DEF TypeOK, GetMarker, vars
  <2>2. ASSUME NEW next \in {"granted", "missed"}, Begin(r, s, next) PROVE TypeOK'
    <3>1. [pc |-> next, sid |-> s, until |-> 0, late |-> s \in retired,
           overdue |-> s \in revoked /\ now >= revokedAt[s] + Lease] \in Request
      BY DEF Request, ReqPC, TypeOK
    <3>2. req' \in [Req -> Request]
      BY <2>2, <3>1 DEF Begin, TypeOK
    <3>3. QED
      BY <2>2, <3>2 DEF Begin, TypeOK
  <2>3. QED
    BY <1>2, <2>1, <2>2 DEF GetCopy, GetMiss
<1>3. ASSUME NEW r \in Req, Stamp(r) \/ ReadRow(r) \/ ReadRowDenied(r) \/ Finish(r)
      PROVE  TypeOK'
  <2>1. req' \in [Req -> Request]
    BY <1>3 DEF TypeOK, Stamp, ReadRow, ReadRowDenied, Finish, Request, ReqPC
  <2>2. QED
    BY <1>3, <2>1 DEF TypeOK, Stamp, ReadRow, ReadRowDenied, Finish
<1>4. ASSUME NEW r \in Req, Store(r) PROVE TypeOK'
  <2>1. req' \in [Req -> Request]
    BY <1>4 DEF TypeOK, Store, Request, ReqPC
  <2>2. StoreCommand(r) \in Command
    BY DEF TypeOK, StoreCommand, Command, Request
  <2>3. wire' \subseteq Command
    BY <1>4, <2>2 DEF TypeOK, Store, Send
  <2>4. QED
    BY <1>4, <2>1, <2>3 DEF TypeOK, Store
<1>5. ASSUME NEW p \in Rev, NEW ids \in SUBSET Sid, Revoke(p, ids)
      PROVE  rev' \in [Rev -> Handler] /\ revoked' \subseteq Sid /\ revoked \subseteq revoked'
             /\ revokedAt' \in [Sid -> Nat]
  BY <1>5 DEF TypeOK, Revoke, Handler, IdleHandler
<1>6. ASSUME NEW p \in Rev, NEW s \in Sid, Logout(p, s) PROVE TypeOK'
  BY <1>5, <1>6 DEF TypeOK, Logout
<1>7. ASSUME NEW p \in Rev, RevokeAll(p) PROVE TypeOK'
  BY <1>5, <1>7 DEF TypeOK, RevokeAll
<1>8. ASSUME NEW p \in Rev, NEW s \in Sid, MarkOk(p, s) PROVE TypeOK'
  <2>1. rev' \in [Rev -> Handler]
    BY <1>8 DEF TypeOK, MarkOk, Handler
  <2>2. redis' \in [Sid -> Entry]
    BY <1>8 DEF TypeOK, MarkOk, MarkerEntry, Entry
  <2>3. QED
    BY <1>8, <2>1, <2>2 DEF TypeOK, MarkOk
<1>9. ASSUME NEW p \in Rev, NEW s \in Sid, MarkFail(p, s) PROVE TypeOK'
  <2>1. rev' \in [Rev -> Handler]
    BY <1>9 DEF TypeOK, MarkFail, Handler
  <2>2. wire' \subseteq Command
    BY <1>9 DEF TypeOK, MarkFail, Send, Command
  <2>3. QED
    BY <1>9, <2>1, <2>2 DEF TypeOK, MarkFail
<1>10. ASSUME NEW p \in Rev, RetireStart(p) \/ RetireReturn(p) \/ Crash(p) PROVE TypeOK'
  <2>1. rev' \in [Rev -> Handler]
    BY <1>10 DEF TypeOK, RetireStart, RetireReturn, Crash, Handler, RetireDeadline
  <2>2. retired' \subseteq revoked
    BY <1>10 DEF TypeOK, RevokedInv, RetireStart, RetireReturn, Crash
  <2>3. QED
    BY <1>10, <2>1, <2>2 DEF TypeOK, RetireStart, RetireReturn, Crash
<1>11. ASSUME NEW c \in wire, RedisApply(c) \/ RedisDrop(c) PROVE TypeOK'
  <2>1. ApplyCommand(c) \in Entry
    BY DEF TypeOK, ApplyCommand, MarkerEntry, Entry, Command
  <2>2. redis' \in [Sid -> Entry]
    BY <1>11, <2>1 DEF TypeOK, RedisApply, RedisDrop
  <2>3. QED
    BY <1>11, <2>2 DEF TypeOK, RedisApply, RedisDrop
<1>12. ASSUME NEW s \in Sid, RedisForget(s) PROVE TypeOK'
  BY <1>12 DEF TypeOK, RedisForget
<1>13. QED
  BY <1>1, <1>2, <1>3, <1>4, <1>6, <1>7, <1>8, <1>9, <1>10, <1>11, <1>12, NextCases

-----------------------------------------------------------------------------
\* Every set of sessions a handler revokes is stamped with the present.
LEMMA RevokeFacts ==
    ASSUME TypeOK, RevokedInv, NEW p \in Rev, NEW ids \in SUBSET Sid, Revoke(p, ids)
    PROVE  /\ revoked' = revoked \cup ids
           /\ \A s \in revoked : revokedAt'[s] = revokedAt[s]
           /\ \A s \in revoked' : s \notin revoked => revokedAt'[s] = now
           /\ \A q \in Rev : q # p => rev'[q] = rev[q]
           /\ rev'[p].pc = "committed" /\ rev'[p].ids = ids /\ rev'[p].todo = {}
<1>1. rev'[p] = [pc |-> "committed", ids |-> ids, todo |-> {}, deadline |-> 0, failed |-> FALSE]
  BY DEF Revoke, TypeOK, IdleHandler
<1>2. QED
  BY <1>1 DEF Revoke, TypeOK

\* Revocations stay in the past, and retireSessions' deadline lies a lease after them.
LEMMA RevokedStep == TypeOK /\ RevokedInv /\ Next => RevokedInv'
<1> SUFFICES ASSUME TypeOK, RevokedInv, Next PROVE RevokedInv'
  OBVIOUS
<1> USE SessionConstants
<1>1. CASE Tick
  BY <1>1 DEF TypeOK, RevokedInv, Tick
<1>2. CASE UNCHANGED <<now, revoked, revokedAt, rev>>
  BY <1>2 DEF RevokedInv
<1>3. ASSUME NEW p \in Rev, NEW ids \in SUBSET Sid, Revoke(p, ids), now' = now
      PROVE  RevokedInv'
  <2>1. \A s \in revoked' : revokedAt'[s] <= now'
    BY <1>3, RevokeFacts DEF RevokedInv, TypeOK
  <2>2. \A q \in Rev : rev'[q].ids \subseteq revoked' /\ rev'[q].todo \subseteq rev'[q].ids
    BY <1>3, RevokeFacts DEF RevokedInv
  <2>3. \A q \in Rev : rev'[q].pc = "marking" =>
           \A s \in rev'[q].ids : rev'[q].deadline >= revokedAt'[s] + Lease
    BY <1>3, RevokeFacts DEF RevokedInv
  <2>4. QED
    BY <2>1, <2>2, <2>3 DEF RevokedInv
<1>4. ASSUME NEW p \in Rev, RetireStart(p) PROVE RevokedInv'
  <2>1. /\ rev'[p].ids = rev[p].ids /\ rev'[p].todo = rev[p].ids
        /\ rev'[p].deadline = now + Lease
        /\ \A q \in Rev : q # p => rev'[q] = rev[q]
    BY <1>4 DEF RetireStart, TypeOK, Handler, RetireDeadline
  <2>2. \A s \in rev[p].ids : revokedAt[s] <= now /\ revokedAt[s] \in Nat
    BY DEF RevokedInv, TypeOK, Handler
  <2>3. QED
    BY <1>4, <2>1, <2>2 DEF RetireStart, RevokedInv, TypeOK
<1>5. ASSUME NEW p \in Rev, NEW s \in Sid, MarkOk(p, s) \/ MarkFail(p, s) PROVE RevokedInv'
  <2>1. /\ rev'[p].pc = "marking" /\ rev'[p].ids = rev[p].ids
        /\ rev'[p].todo \subseteq rev[p].todo
        /\ rev'[p].deadline = rev[p].deadline
        /\ \A q \in Rev : q # p => rev'[q] = rev[q]
    BY <1>5 DEF MarkOk, MarkFail, TypeOK, Handler
  <2>2. UNCHANGED <<now, revoked, revokedAt>> /\ rev[p].pc = "marking"
    BY <1>5 DEF MarkOk, MarkFail
  <2>3. QED
    BY <2>1, <2>2 DEF RevokedInv
<1>6. ASSUME NEW p \in Rev, RetireReturn(p) \/ Crash(p) PROVE RevokedInv'
  <2>1. /\ rev'[p].pc = "idle" /\ rev'[p].ids = {} /\ rev'[p].todo = {}
        /\ \A q \in Rev : q # p => rev'[q] = rev[q]
    BY <1>6 DEF RetireReturn, Crash, TypeOK, IdleHandler
  <2>2. UNCHANGED <<now, revoked, revokedAt>>
    BY <1>6 DEF RetireReturn, Crash
  <2>3. QED
    BY <2>1, <2>2 DEF RevokedInv
<1>7. ASSUME NEW p \in Rev, NEW s \in Sid, Logout(p, s) PROVE RevokedInv'
  BY <1>3, <1>7 DEF Logout
<1>8. ASSUME NEW p \in Rev, RevokeAll(p) PROVE RevokedInv'
  BY <1>3, <1>8 DEF RevokeAll
<1>9. ASSUME NEW r \in Req, NEW s \in Sid, GetMarker(r, s) \/ GetCopy(r, s) \/ GetMiss(r, s)
      PROVE  RevokedInv'
  BY <1>2, <1>9 DEF GetMarker, GetCopy, GetMiss, Begin, vars
<1>10. ASSUME NEW r \in Req, \/ Stamp(r) \/ ReadRow(r) \/ ReadRowDenied(r)
                             \/ Store(r) \/ Finish(r)
       PROVE  RevokedInv'
  BY <1>2, <1>10 DEF Stamp, ReadRow, ReadRowDenied, Store, Finish
<1>11. ASSUME NEW c \in wire, RedisApply(c) \/ RedisDrop(c) PROVE RevokedInv'
  BY <1>2, <1>11 DEF RedisApply, RedisDrop
<1>12. ASSUME NEW s \in Sid, RedisForget(s) PROVE RevokedInv'
  BY <1>2, <1>12 DEF RedisForget
<1>13. QED
  BY <1>1, <1>4, <1>5, <1>6, <1>7, <1>8, <1>9, <1>10, <1>11, <1>12, NextCases

-----------------------------------------------------------------------------
\* Time passing and revocations committing never break a bound: a revocation
\* commits now, and no lease taken so far ends later than now + Lease.
LEMMA BoundedKept ==
    ASSUME TypeOK, RevokedInv, NEW s \in Sid, NEW u \in Nat, Bounded(s, u),
           \/ Tick
           \/ UNCHANGED <<now, revoked, revokedAt>>
           \/ now' = now /\ \E p \in Rev, ids \in SUBSET Sid : Revoke(p, ids)
    PROVE  Bounded(s, u)'
<1> USE SessionConstants
<1>1. CASE Tick
  BY <1>1 DEF Tick, Bounded, TypeOK
<1>2. CASE UNCHANGED <<now, revoked, revokedAt>>
  BY <1>2 DEF Bounded
<1>3. ASSUME now' = now, NEW p \in Rev, NEW ids \in SUBSET Sid, Revoke(p, ids)
      PROVE  Bounded(s, u)'
  BY <1>3, RevokeFacts DEF Bounded
<1>4. QED
  BY <1>1, <1>2, <1>3

\* Time and the set of revoked sessions only grow.
Advance ==
    /\ now' \in Nat /\ now <= now'
    /\ revoked \subseteq revoked'
    /\ \A s \in revoked : revokedAt'[s] = revokedAt[s]

\* Steps that only let time pass or commit a revocation.
LEMMA LeaseStepClock ==
    ASSUME TypeOK, RevokedInv, LeaseInv, UNCHANGED <<redis, wire, req>>,
           \/ Tick
           \/ UNCHANGED <<now, revoked, revokedAt>>
           \/ now' = now /\ \E p \in Rev, ids \in SUBSET Sid : Revoke(p, ids)
    PROVE  LeaseInv'
<1> USE SessionConstants
<1>0. Advance
  <2>1. CASE Tick
    BY <2>1 DEF Tick, TypeOK, Advance
  <2>2. CASE UNCHANGED <<now, revoked, revokedAt>>
    BY <2>2 DEF TypeOK, Advance
  <2>3. ASSUME now' = now, NEW p \in Rev, NEW ids \in SUBSET Sid, Revoke(p, ids)
        PROVE  Advance
    BY <2>3, RevokeFacts DEF TypeOK, Advance
  <2>4. QED
    BY <2>1, <2>2, <2>3
<1>1. \A r \in Req : req'[r].pc = "stamped" => req'[r].until <= now' + Lease
  BY <1>0 DEF Advance, LeaseInv, TypeOK, Request
<1>2. \A r \in Req : req'[r].pc = "loaded" => Bounded(req[r].sid, req[r].until)'
  BY BoundedKept DEF LeaseInv, TypeOK, Request
<1>3. \A c \in wire' : c.kind = "lease" => Bounded(c.sid, c.until)'
  BY BoundedKept DEF LeaseInv, TypeOK, Command
<1>4. \A c \in wire' : c.kind = "revoked" => c.sid \in revoked'
  BY <1>0 DEF Advance, LeaseInv
<1>5. \A s \in Sid : redis'[s].kind = "lease" => Bounded(s, redis[s].until)'
  BY BoundedKept DEF LeaseInv, TypeOK, Entry
<1>6. \A s \in Sid : redis'[s].kind = "revoked" =>
         s \in revoked' /\ redis'[s].until >= revokedAt'[s] + Lease
  BY <1>0 DEF Advance, LeaseInv
<1>7. QED
  BY <1>1, <1>2, <1>3, <1>4, <1>5, <1>6 DEF LeaseInv, Bounded

\* The steps of one request: its lease is stamped now, and read from the
\* database only while the session is not revoked.
LEMMA LeaseStepRequest ==
    ASSUME TypeOK, LeaseInv, NEW r \in Req,
           \/ \E s \in Sid : GetMarker(r, s) \/ GetCopy(r, s) \/ GetMiss(r, s)
           \/ Stamp(r) \/ ReadRow(r) \/ ReadRowDenied(r) \/ Store(r) \/ Finish(r)
    PROVE  LeaseInv'
<1> USE SessionConstants
<1>1. /\ UNCHANGED <<now, revoked, revokedAt, redis>>
      /\ \A q \in Req : q # r => req'[q] = req[q]
  BY DEF TypeOK, GetMarker, GetCopy, GetMiss, Begin, Stamp, ReadRow, ReadRowDenied,
         Store, Finish, vars
<1>2. \A s \in Sid, u \in Nat : Bounded(s, u)' <=> Bounded(s, u)
  BY <1>1 DEF Bounded
<1>3. CASE \E s \in Sid : GetMarker(r, s) \/ GetCopy(r, s) \/ GetMiss(r, s)
  <2>1. wire' = wire /\ (req'[r].pc \in {"granted", "missed"} \/ req'[r] = req[r])
    BY <1>3 DEF TypeOK, GetMarker, GetCopy, GetMiss, Begin, vars
  <2>2. QED
    BY <1>1, <1>2, <2>1 DEF LeaseInv, Bounded
<1>4. CASE Stamp(r)
  <2>1. wire' = wire /\ req'[r].pc = "stamped" /\ req'[r].until = now + Lease
    BY <1>4 DEF TypeOK, Stamp, Request
  <2>2. QED
    BY <1>1, <1>2, <2>1 DEF LeaseInv, Bounded, TypeOK
<1>5. CASE ReadRow(r)
  <2>1. /\ wire' = wire /\ req'[r].pc = "loaded"
        /\ req'[r].sid = req[r].sid /\ req'[r].until = req[r].until
    BY <1>5 DEF TypeOK, ReadRow, Request
  <2>2. Bounded(req[r].sid, req[r].until)
    BY <1>5 DEF LeaseInv, ReadRow, RowUsable, Bounded
  <2>3. QED
    BY <1>1, <1>2, <2>1, <2>2 DEF LeaseInv, Bounded
<1>6. CASE ReadRowDenied(r) \/ Finish(r)
  <2>1. wire' = wire /\ req'[r].pc = "idle"
    BY <1>6 DEF TypeOK, ReadRowDenied, Finish, IdleRequest
  <2>2. QED
    BY <1>1, <1>2, <2>1 DEF LeaseInv, Bounded
<1>7. CASE Store(r)
  <2>1. req'[r].pc = "granted" /\ req[r].pc = "loaded"
    BY <1>7 DEF TypeOK, Store, Request
  <2>2. wire' \subseteq wire \cup {StoreCommand(r)}
    BY <1>7 DEF Store, Send
  <2>3. /\ StoreCommand(r).kind = "lease" /\ StoreCommand(r).sid = req[r].sid
        /\ StoreCommand(r).until = req[r].until
    BY DEF StoreCommand
  <2>4. Bounded(req[r].sid, req[r].until)
    BY <2>1 DEF LeaseInv
  <2>5. QED
    BY <1>1, <1>2, <2>1, <2>2, <2>3, <2>4 DEF LeaseInv, Bounded
<1>8. QED
  BY <1>3, <1>4, <1>5, <1>6, <1>7

\* The steps that change Redis keep every lease bounded and every marker alive
\* for at least the leases it replaces.
LEMMA LeaseStepRedis ==
    ASSUME TypeOK, RevokedInv, LeaseInv,
           \/ \E p \in Rev, s \in Sid : MarkOk(p, s) \/ MarkFail(p, s)
           \/ \E c \in wire : RedisApply(c) \/ RedisDrop(c)
           \/ \E s \in Sid : RedisForget(s)
    PROVE  LeaseInv'
<1> USE SessionConstants
<1>1. UNCHANGED <<now, revoked, revokedAt, req>>
  BY DEF MarkOk, MarkFail, RedisApply, RedisDrop, RedisForget
<1>2. \A s \in Sid, u \in Nat : Bounded(s, u)' <=> Bounded(s, u)
  BY <1>1 DEF Bounded
<1>3. \A s \in revoked : MarkerEntry.kind = "revoked"
                         /\ MarkerEntry.until >= revokedAt[s] + Lease
  BY DEF MarkerEntry, RevokedInv, TypeOK
<1>4. ASSUME NEW p \in Rev, NEW s \in Sid, MarkOk(p, s) PROVE LeaseInv'
  <2>1. s \in revoked
    BY <1>4 DEF MarkOk, RevokedInv
  <2>2. wire' = wire /\ redis' = [redis EXCEPT ![s] = MarkerEntry]
    BY <1>4 DEF MarkOk
  <2>3. QED
    BY <1>1, <1>2, <1>3, <2>1, <2>2 DEF LeaseInv, Bounded, TypeOK
<1>5. ASSUME NEW p \in Rev, NEW s \in Sid, MarkFail(p, s) PROVE LeaseInv'
  <2>1. s \in revoked
    BY <1>5 DEF MarkFail, RevokedInv
  <2>2. /\ redis' = redis
        /\ wire' \subseteq wire \cup {[sid |-> s, kind |-> "revoked", until |-> 0]}
    BY <1>5 DEF MarkFail, Send
  <2>3. QED
    BY <1>1, <1>2, <2>1, <2>2 DEF LeaseInv, Bounded
<1>6. ASSUME NEW c \in wire, RedisApply(c) PROVE LeaseInv'
  <2>1. /\ wire' \subseteq wire /\ redis' = [redis EXCEPT ![c.sid] = ApplyCommand(c)]
        /\ c.sid \in Sid /\ c.until \in Nat /\ c.kind \in {"lease", "revoked"}
    BY <1>6 DEF RedisApply, TypeOK, Command
  <2>2. \A s \in Sid : s # c.sid => redis'[s] = redis[s]
    BY <2>1 DEF TypeOK
  <2>3. redis'[c.sid] = ApplyCommand(c)
    BY <2>1 DEF TypeOK
  <2>4. \/ ApplyCommand(c) = redis[c.sid]
        \/ ApplyCommand(c).kind = "lease" /\ Bounded(c.sid, ApplyCommand(c).until)
        \/ c.sid \in revoked /\ ApplyCommand(c) = MarkerEntry
    BY <2>1 DEF ApplyCommand, LeaseInv
  <2>5. \A s \in Sid : redis'[s].kind = "lease" => Bounded(s, redis'[s].until)
    BY <1>3, <2>2, <2>3, <2>4 DEF LeaseInv
  <2>6. \A s \in Sid : redis'[s].kind = "revoked" =>
           s \in revoked /\ redis'[s].until >= revokedAt[s] + Lease
    BY <1>3, <2>2, <2>3, <2>4 DEF LeaseInv
  <2>7. QED
    BY <1>1, <2>1, <2>5, <2>6 DEF LeaseInv, Bounded
<1>7. ASSUME NEW c \in wire, RedisDrop(c) PROVE LeaseInv'
  BY <1>1, <1>7 DEF RedisDrop, LeaseInv, Bounded
<1>8. ASSUME NEW s \in Sid, RedisForget(s) PROVE LeaseInv'
  <2>1. wire' = wire /\ redis' = [redis EXCEPT ![s] = NoEntry] /\ NoEntry.kind = "none"
    BY <1>8 DEF RedisForget, NoEntry
  <2>2. QED
    BY <1>1, <1>2, <2>1 DEF LeaseInv, Bounded, TypeOK
<1>9. QED
  BY <1>4, <1>5, <1>6, <1>7, <1>8

\* Every step keeps the leases bounded: loadSession stamps them before it reads the row.
LEMMA LeaseStep == TypeOK /\ RevokedInv /\ LeaseInv /\ Next => LeaseInv'
<1> SUFFICES ASSUME TypeOK, RevokedInv, LeaseInv, Next PROVE LeaseInv'
  OBVIOUS
<1>1. CASE Tick
  BY <1>1, LeaseStepClock DEF Tick
<1>2. ASSUME NEW p \in Rev, NEW s \in Sid, Logout(p, s) PROVE LeaseInv'
  BY <1>2, LeaseStepClock DEF Logout
<1>3. ASSUME NEW p \in Rev, RevokeAll(p) PROVE LeaseInv'
  <2>1. Sid \ revoked \in SUBSET Sid
    OBVIOUS
  <2>2. QED
    BY <1>3, <2>1, LeaseStepClock DEF RevokeAll
<1>4. ASSUME NEW p \in Rev, RetireStart(p) \/ RetireReturn(p) \/ Crash(p) PROVE LeaseInv'
  BY <1>4, LeaseStepClock DEF RetireStart, RetireReturn, Crash
<1>5. QED
  BY <1>1, <1>2, <1>3, <1>4, LeaseStepRequest, LeaseStepRedis, NextCases

-----------------------------------------------------------------------------
\* Time and revocations grow with every step.
LEMMA AdvanceStep == TypeOK /\ RevokedInv /\ Next => Advance
<1> SUFFICES ASSUME TypeOK, RevokedInv, Next PROVE Advance
  OBVIOUS
<1>1. CASE Tick
  BY <1>1 DEF Tick, TypeOK, Advance
<1>2. CASE UNCHANGED <<now, revoked, revokedAt>>
  BY <1>2 DEF TypeOK, Advance
<1>3. ASSUME NEW p \in Rev, NEW ids \in SUBSET Sid, Revoke(p, ids), now' = now PROVE Advance
  BY <1>3, RevokeFacts DEF TypeOK, Advance
<1>4. ASSUME NEW p \in Rev, NEW s \in Sid, Logout(p, s) PROVE Advance
  BY <1>3, <1>4 DEF Logout
<1>5. ASSUME NEW p \in Rev, RevokeAll(p) PROVE Advance
  BY <1>3, <1>5 DEF RevokeAll
<1>6. QED
  BY <1>1, <1>2, <1>4, <1>5, NextCases
     DEF GetMarker, GetCopy, GetMiss, Begin, Stamp, ReadRow, ReadRowDenied, Store, Finish,
         MarkOk, MarkFail, RetireStart, RetireReturn, Crash, RedisApply, RedisDrop,
         RedisForget, vars

\* What a step does to a request: nothing, begin it, or take it one step on; a
\* revoked session is never loaded from its row.
LEMMA RequestStep ==
    ASSUME TypeOK, Next, NEW r \in Req
    PROVE  \/ req'[r] = req[r]
           \/ \E s \in Sid :
                /\ req'[r].sid = s
                /\ req'[r].pc = "missed" \/ (req'[r].pc = "granted" /\ LiveCopy(s))
                /\ req'[r].late = (s \in retired)
                /\ req'[r].overdue = (s \in revoked /\ now >= revokedAt[s] + Lease)
                /\ UNCHANGED <<revoked, retired>>
           \/ ~req'[r].late /\ ~req'[r].overdue
           \/ /\ req'[r].late = req[r].late /\ req'[r].overdue = req[r].overdue
              /\ req'[r].sid = req[r].sid
              /\ UNCHANGED <<revoked, retired>>
              /\ \/ req'[r].pc = "stamped"
                 \/ req'[r].pc = "loaded" /\ req[r].sid \notin revoked
                 \/ req'[r].pc = "granted" /\ req[r].pc = "loaded"
<1>1. CASE req' = req
  BY <1>1
<1>2. ASSUME NEW q \in Req, NEW s \in Sid, GetCopy(q, s) \/ GetMiss(q, s)
      PROVE  \/ req'[r] = req[r]
             \/ /\ req'[r].sid = s
                /\ req'[r].pc = "missed" \/ (req'[r].pc = "granted" /\ LiveCopy(s))
                /\ req'[r].late = (s \in retired)
                /\ req'[r].overdue = (s \in revoked /\ now >= revokedAt[s] + Lease)
                /\ UNCHANGED <<revoked, retired>>
  BY <1>2 DEF TypeOK, GetCopy, GetMiss, Begin
<1>3. ASSUME NEW q \in Req, Stamp(q) \/ ReadRow(q) \/ Store(q)
      PROVE  \/ req'[r] = req[r]
             \/ /\ req'[r].late = req[r].late /\ req'[r].overdue = req[r].overdue
                /\ req'[r].sid = req[r].sid
                /\ UNCHANGED <<revoked, retired>>
                /\ \/ req'[r].pc = "stamped"
                   \/ req'[r].pc = "loaded" /\ req[r].sid \notin revoked
                   \/ req'[r].pc = "granted" /\ req[r].pc = "loaded"
  BY <1>3 DEF TypeOK, Request, Stamp, ReadRow, RowUsable, Store
<1>4. ASSUME NEW q \in Req, ReadRowDenied(q) \/ Finish(q)
      PROVE  req'[r] = req[r] \/ (~req'[r].late /\ ~req'[r].overdue)
  BY <1>4 DEF TypeOK, ReadRowDenied, Finish, IdleRequest
<1>5. \/ req' = req
      \/ \E q \in Req, s \in Sid : GetCopy(q, s) \/ GetMiss(q, s)
      \/ \E q \in Req : Stamp(q) \/ ReadRow(q) \/ Store(q)
      \/ \E q \in Req : ReadRowDenied(q) \/ Finish(q)
  BY NextCases
     DEF GetMarker, Tick, Logout, MarkOk, MarkFail, RevokeAll, RetireStart, RetireReturn,
         Crash, RedisApply, RedisDrop, RedisForget, vars
<1>6. QED
  BY <1>1, <1>2, <1>3, <1>4, <1>5

\* A request that begins a lease after the revocation is never trusted.
LEMMA OverdueStep ==
    TypeOK /\ RevokedInv /\ LeaseInv /\ OverdueInv /\ Next => OverdueInv'
<1> SUFFICES ASSUME TypeOK, RevokedInv, LeaseInv, OverdueInv, Next, NEW r \in Req,
                    req'[r].overdue
             PROVE  req'[r].sid \in revoked' /\ ~Trusted(r)'
  BY DEF OverdueInv
<1> USE SessionConstants
<1>1. Advance
  BY AdvanceStep
<1>2. \A s \in Sid : s \in revoked /\ now >= revokedAt[s] + Lease => ~LiveCopy(s)
  BY DEF LiveCopy, LeaseInv, Bounded, TypeOK, Entry
<1>3. QED
  BY <1>1, <1>2, RequestStep DEF Advance, OverdueInv, Trusted

-----------------------------------------------------------------------------
\* Once closed, a revoked session stays closed: a marker leaves Redis only when
\* its TTL is over, and then every older lease is over too.
LEMMA ClosedStable ==
    ASSUME RedisKeepsKeys, TypeOK, RevokedInv, LeaseInv, Next,
           NEW s \in revoked, Closed(s)
    PROVE  Closed(s)'
<1> USE SessionConstants
<1>0. s \in Sid /\ revokedAt[s] \in Nat
  BY DEF TypeOK
<1>1. Advance /\ revokedAt'[s] = revokedAt[s]
  BY AdvanceStep DEF Advance
<1>2. CASE now >= revokedAt[s] + Lease
  BY <1>0, <1>1, <1>2 DEF Closed, Advance, TypeOK
<1>3. CASE redis[s].kind = "revoked"
  <2>1. CASE redis' = redis
    BY <1>3, <2>1 DEF Closed
  <2>2. ASSUME NEW p \in Rev, NEW t \in Sid, MarkOk(p, t) PROVE Closed(s)'
    BY <1>0, <1>3, <2>2 DEF MarkOk, MarkerEntry, Closed, TypeOK
  <2>3. ASSUME NEW c \in wire, RedisApply(c) PROVE Closed(s)'
    <3>1. c.sid \in Sid
      BY DEF TypeOK, Command
    <3>2. c.sid = s => ApplyCommand(c).kind = "revoked"
      BY <1>3 DEF ApplyCommand, MarkerEntry
    <3>3. redis'[s].kind = "revoked"
      BY <1>0, <1>3, <2>3, <3>1, <3>2 DEF RedisApply, TypeOK
    <3>4. QED
      BY <3>3 DEF Closed
  <2>4. ASSUME NEW t \in Sid, RedisForget(t) PROVE Closed(s)'
    <3>1. CASE t = s
      <4>1. now >= redis[s].until
        BY <1>3, <2>4, <3>1 DEF RedisForget
      <4>2. redis[s].until >= revokedAt[s] + Lease /\ redis[s].until \in Nat
        BY <1>0, <1>3 DEF LeaseInv, TypeOK, Entry
      <4>3. now' = now
        BY <2>4 DEF RedisForget
      <4>4. QED
        BY <1>0, <1>1, <4>1, <4>2, <4>3 DEF Closed, TypeOK
    <3>2. CASE t # s
      BY <1>0, <1>3, <2>4, <3>2 DEF RedisForget, Closed, TypeOK
    <3>3. QED
      BY <3>1, <3>2
  <2>5. QED
    BY <2>1, <2>2, <2>3, <2>4, NextCases
       DEF Tick, GetMarker, GetCopy, GetMiss, Begin, Stamp, ReadRow, ReadRowDenied, Store,
           Finish, Logout, MarkFail, RevokeAll, Revoke, RetireStart, RetireReturn, Crash,
           RedisDrop, vars
<1>4. QED
  BY <1>2, <1>3 DEF Closed

\* A handler that is marking without a failure has closed what it has marked:
\* either it was closed already, or this step wrote its marker.
LEMMA HandlerStep ==
    ASSUME TypeOK, RevokedInv, Next, NEW p \in Rev,
           rev'[p].pc = "marking", ~rev'[p].failed, NEW s \in rev'[p].ids \ rev'[p].todo
    PROVE  \/ rev[p].pc = "marking" /\ ~rev[p].failed /\ s \in rev[p].ids \ rev[p].todo
           \/ redis'[s].kind = "revoked"
<1>1. CASE rev'[p] = rev[p]
  BY <1>1
<1>2. ASSUME NEW q \in Rev, NEW t \in Sid, MarkOk(q, t)
      PROVE  \/ rev[p].pc = "marking" /\ ~rev[p].failed /\ s \in rev[p].ids \ rev[p].todo
             \/ redis'[s].kind = "revoked"
  BY <1>2 DEF MarkOk, MarkerEntry, TypeOK, Handler
<1>3. ASSUME NEW q \in Rev, NEW t \in Sid, MarkFail(q, t) PROVE rev'[p] = rev[p]
  BY <1>3 DEF MarkFail, TypeOK, Handler
<1>4. ASSUME NEW q \in Rev, RetireStart(q) PROVE rev'[p] = rev[p]
  BY <1>4 DEF RetireStart, TypeOK, Handler
<1>5. ASSUME NEW q \in Rev, RetireReturn(q) \/ Crash(q) PROVE rev'[p] = rev[p]
  BY <1>5 DEF RetireReturn, Crash, TypeOK, Handler, IdleHandler
<1>6. ASSUME NEW q \in Rev, NEW ids \in SUBSET Sid, Revoke(q, ids) PROVE rev'[p] = rev[p]
  BY <1>6, RevokeFacts
<1>7. ASSUME NEW q \in Rev, NEW t \in Sid, Logout(q, t) PROVE rev'[p] = rev[p]
  BY <1>6, <1>7 DEF Logout
<1>8. ASSUME NEW q \in Rev, RevokeAll(q) PROVE rev'[p] = rev[p]
  BY <1>6, <1>8 DEF RevokeAll
<1>9. QED
  BY <1>1, <1>2, <1>3, <1>4, <1>5, <1>7, <1>8, NextCases
     DEF Tick, GetMarker, GetCopy, GetMiss, Begin, Stamp, ReadRow, ReadRowDenied, Store,
         Finish, RedisApply, RedisDrop, RedisForget, vars

\* What retireSessions has marked, or waited out, stays closed when Redis keeps its keys.
LEMMA ClosedStep ==
    RedisKeepsKeys /\ TypeOK /\ RevokedInv /\ LeaseInv /\ ClosedInv /\ Next => ClosedInv'
<1> SUFFICES ASSUME RedisKeepsKeys, TypeOK, RevokedInv, LeaseInv, ClosedInv, Next
             PROVE  ClosedInv'
  OBVIOUS
<1> USE SessionConstants
<1>1. ASSUME NEW p \in Rev, rev'[p].pc = "marking", ~rev'[p].failed,
             NEW s \in rev'[p].ids \ rev'[p].todo
      PROVE  Closed(s)'
  <2>1. CASE redis'[s].kind = "revoked"
    BY <2>1 DEF Closed
  <2>2. CASE rev[p].pc = "marking" /\ ~rev[p].failed /\ s \in rev[p].ids \ rev[p].todo
    <3>1. s \in revoked
      BY <2>2 DEF RevokedInv
    <3>2. Closed(s)
      BY <2>2 DEF ClosedInv
    <3>3. QED
      BY <3>1, <3>2, ClosedStable
  <2>3. QED
    BY <1>1, <2>1, <2>2, HandlerStep
<1>2. ASSUME NEW s \in retired' PROVE Closed(s)'
  <2>1. CASE s \in retired
    BY <2>1, ClosedStable DEF ClosedInv, TypeOK
  <2>2. ASSUME NEW p \in Rev, RetireReturn(p), s \in rev[p].ids PROVE Closed(s)'
    <3>1. s \in revoked /\ s \in Sid
      BY <2>2 DEF RevokedInv, TypeOK
    <3>2. CASE rev[p].failed
      <4>1. now >= rev[p].deadline /\ rev[p].deadline >= revokedAt[s] + Lease
        BY <2>2, <3>2 DEF RetireReturn, MayReturn, RevokedInv
      <4>2. now >= revokedAt[s] + Lease
        BY <3>1, <4>1 DEF TypeOK, Handler
      <4>3. QED
        BY <3>1, <4>2, ClosedStable DEF Closed
    <3>3. CASE ~rev[p].failed
      <4>1. Closed(s)
        BY <2>2, <3>3 DEF RetireReturn, ClosedInv
      <4>2. QED
        BY <3>1, <4>1, ClosedStable
    <3>4. QED
      BY <3>2, <3>3
  <2>3. s \in retired \/ \E p \in Rev : RetireReturn(p) /\ s \in rev[p].ids
    BY <1>2, NextCases
       DEF Tick, GetMarker, GetCopy, GetMiss, Begin, Stamp, ReadRow, ReadRowDenied, Store,
           Finish, Logout, MarkOk, MarkFail, RevokeAll, RetireStart, RetireReturn, Crash,
           RedisApply, RedisDrop, RedisForget, vars
  <2>4. QED
    BY <2>1, <2>2, <2>3
<1>3. QED
  BY <1>1, <1>2 DEF ClosedInv

\* A request that begins after retireSessions has returned is never trusted, when
\* Redis keeps its keys.
LEMMA LateStep ==
    TypeOK /\ RevokedInv /\ LeaseInv /\ ClosedInv /\ LateInv /\ Next => LateInv'
<1> SUFFICES ASSUME TypeOK, RevokedInv, LeaseInv, ClosedInv, LateInv, Next, NEW r \in Req,
                    req'[r].late
             PROVE  req'[r].sid \in revoked' /\ ~Trusted(r)'
  BY DEF LateInv
<1> USE SessionConstants
<1>1. Advance
  BY AdvanceStep
<1>2. \A s \in retired : s \in revoked /\ ~LiveCopy(s)
  BY DEF LiveCopy, ClosedInv, Closed, LeaseInv, Bounded, TypeOK, Entry
<1>3. QED
  BY <1>1, <1>2, RequestStep DEF Advance, LateInv, Trusted

-----------------------------------------------------------------------------
\* The inductive invariant holds in every reachable state.
THEOREM Inductive == Spec => []IInv
<1>1. IInv /\ [Next]_vars => IInv'
  <2> SUFFICES ASSUME IInv, [Next]_vars PROVE IInv'
    OBVIOUS
  <2>1. CASE Next
    BY <2>1, TypeStep, RevokedStep, LeaseStep, OverdueStep, ClosedStep, LateStep DEF IInv
  <2>2. CASE UNCHANGED vars
    BY <2>2 DEF IInv, TypeOK, RevokedInv, LeaseInv, OverdueInv, ClosedInv, LateInv, Bounded,
                Closed, Trusted, vars
  <2>3. QED
    BY <2>1, <2>2
<1>2. QED
  BY <1>1, InitIInv, PTL DEF Spec

\* Type correctness of the session cache model; the part retired \subseteq
\* revoked says that retireSessions only ever reports what the database holds.
THEOREM TypeCorrect == Spec => []TypeOK
BY Inductive, PTL DEF IInv

\* Without any assumption on what Redis loses, delays or refuses: no request that
\* begins a lease after the revocation committed passes loadSession.
THEOREM WithinLease == Spec => []RevocationWithinLease
<1>1. IInv => RevocationWithinLease
  BY DEF IInv, OverdueInv, RevocationWithinLease
<1>2. QED
  BY <1>1, Inductive, PTL

\* When Redis keeps its keys for their TTL, a session for which retireSessions
\* has returned is never trusted by a request that begins afterwards.
THEOREM NeverAccepted == ASSUME RedisKeepsKeys PROVE Spec => []RetiredNeverAccepted
<1>1. IInv => RetiredNeverAccepted
  BY DEF IInv, LateInv, RetiredNeverAccepted
<1>2. QED
  BY <1>1, Inductive, PTL
=============================================================================

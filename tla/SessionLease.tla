---------------------------- MODULE SessionLease ----------------------------
(***************************************************************************)
(* The session cache of backend/session_cache.go: every request is         *)
(* authenticated by loadSession, which trusts a copy of the session row    *)
(* kept in Redis under an absolute lease, and every revocation (logout,    *)
(* password change or reset, rename, ban) commits in MySQL first and then  *)
(* calls retireSessions, which overwrites the copy by a marker or, when    *)
(* that fails, waits the lease out.                                        *)
(*                                                                         *)
(* The module follows the sessions of one account.  MySQL is a set of      *)
(* revoked sessions, Redis a key per session plus the commands that API    *)
(* instances sent it without learning their fate.  The circuit breaker of  *)
(* resilience.go only turns a Redis call into a failed one, and every call *)
(* here may fail.                                                          *)
(***************************************************************************)
EXTENDS Naturals, FiniteSets

CONSTANTS
    Sid,            \* session ids of the account
    Req,            \* requests being authenticated, on any API instance
    Rev,            \* handlers that revoke: logout, changePassword, adminPassword...
    Lease,          \* sessionLease
    MarkerTTL,      \* refreshTTL + accessTTL, the life of a "revoked" marker
    Expiry,         \* ExpiresAt of every session row
    RedisKeepsKeys, \* no key disappears from Redis before its TTL
    MaxTime,        \* bound: the clock stops here
    MaxWire         \* bound: Redis commands under way without a waiting caller

ASSUME SessionConstants ==
    /\ Sid # {}
    /\ Lease \in Nat \ {0}
    /\ MarkerTTL \in Nat
    /\ MarkerTTL >= Lease
    /\ Expiry \in [Sid -> Nat]
    /\ RedisKeepsKeys \in BOOLEAN
    /\ MaxTime \in Nat
    /\ MaxWire \in Nat

VARIABLES
    now,        \* the wall clock the API instances share
    revoked,    \* sessions whose row has revoked_at set
    revokedAt,  \* when that first committed
    redis,      \* the value under sessionKey(s)
    wire,       \* Redis commands whose caller no longer waits for them
    req,        \* requests inside authenticate
    rev,        \* revocation handlers
    retired     \* sessions for which a retireSessions call has returned

vars == <<now, revoked, revokedAt, redis, wire, req, rev, retired>>

-----------------------------------------------------------------------------
Entry == [kind: {"none", "lease", "revoked"}, until: Nat]

NoEntry == [kind |-> "none", until |-> 0]

Command == [sid: Sid, kind: {"lease", "revoked"}, until: Nat]

ReqPC == {"idle", "missed", "stamped", "loaded", "granted"}

Request == [pc: ReqPC, sid: Sid, until: Nat, late: BOOLEAN, overdue: BOOLEAN]

Handler == [pc: {"idle", "committed", "marking"}, ids: SUBSET Sid,
            todo: SUBSET Sid, deadline: Nat, failed: BOOLEAN]

IdleRequest == [pc |-> "idle", sid |-> CHOOSE s \in Sid : TRUE, until |-> 0,
                late |-> FALSE, overdue |-> FALSE]

IdleHandler == [pc |-> "idle", ids |-> {}, todo |-> {}, deadline |-> 0, failed |-> FALSE]

TypeOK ==
    /\ now \in Nat
    /\ revoked \subseteq Sid
    /\ revokedAt \in [Sid -> Nat]
    /\ redis \in [Sid -> Entry]
    /\ wire \subseteq Command
    /\ req \in [Req -> Request]
    /\ rev \in [Rev -> Handler]
    /\ retired \subseteq revoked

Init ==
    /\ now = 0
    /\ revoked = {}
    /\ revokedAt = [s \in Sid |-> 0]
    /\ redis = [s \in Sid |-> NoEntry]
    /\ wire = {}
    /\ req = [r \in Req |-> IdleRequest]
    /\ rev = [p \in Rev |-> IdleHandler]
    /\ retired = {}

Tick ==
    /\ now < MaxTime
    /\ now' = now + 1
    /\ UNCHANGED <<revoked, revokedAt, redis, wire, req, rev, retired>>

-----------------------------------------------------------------------------
(* authenticate and loadSession.                                           *)

\* "late" and "overdue" record, as the request begins, that its session had
\* already been retired, and that it had been revoked for a whole lease.
Begin(r, s, next) ==
    /\ req[r].pc = "idle"
    /\ req' = [req EXCEPT ![r] =
                 [pc |-> next, sid |-> s, until |-> 0,
                  late |-> s \in retired,
                  overdue |-> s \in revoked /\ now >= revokedAt[s] + Lease]]
    /\ UNCHANGED <<now, revoked, revokedAt, redis, wire, rev, retired>>

\* Mutant: the JSON copy is trusted as long as the key exists.
LiveCopyUntimed(s) == redis[s].kind = "lease"

\* A copy that parses and whose lease has not run out.
LiveCopy(s) == redis[s].kind = "lease" /\ now < redis[s].until

\* loadSession's GET answers with the marker: 401, and nothing has changed.
GetMarker(r, s) == req[r].pc = "idle" /\ redis[s].kind = "revoked" /\ UNCHANGED vars

GetCopy(r, s) == LiveCopy(s) /\ Begin(r, s, "granted")

\* Nothing usable under the key, or the GET failed or was not even tried.
GetMiss(r, s) == Begin(r, s, "missed")

\* until := time.Now().Add(sessionLease), before the database is read.
Stamp(r) ==
    /\ req[r].pc = "missed"
    /\ req' = [req EXCEPT ![r].pc = "stamped", ![r].until = now + Lease]
    /\ UNCHANGED <<now, revoked, revokedAt, redis, wire, rev, retired>>

RowUsable(s) == s \notin revoked /\ now < Expiry[s]

ReadRow(r) ==
    /\ req[r].pc = "stamped"
    /\ RowUsable(req[r].sid)
    /\ req' = [req EXCEPT ![r].pc = "loaded"]
    /\ UNCHANGED <<now, revoked, revokedAt, redis, wire, rev, retired>>

\* The row is revoked or expired (401), or the query failed or timed out (503).
ReadRowDenied(r) ==
    /\ req[r].pc = "stamped"
    /\ req' = [req EXCEPT ![r] = IdleRequest]
    /\ UNCHANGED <<now, revoked, revokedAt, redis, wire, rev, retired>>

\* Mutant: the lease counts from the moment the copy is written.
StoreCommandFresh(r) == [sid |-> req[r].sid, kind |-> "lease", until |-> now + Lease]

StoreCommand(r) == [sid |-> req[r].sid, kind |-> "lease", until |-> req[r].until]

\* A command leaves for Redis; there is room for MaxWire of them.
Send(c) == Cardinality(wire) < MaxWire /\ wire' = wire \cup {c}

\* SET NX of the copy while some of the lease is left.  loadSession ignores the
\* result, so the command may take effect at once, later, or never.
Store(r) ==
    /\ req[r].pc = "loaded"
    /\ req' = [req EXCEPT ![r].pc = "granted", ![r].until = 0]
    /\ \/ now < req[r].until /\ Send(StoreCommand(r))
       \/ UNCHANGED wire
    /\ UNCHANGED <<now, revoked, revokedAt, redis, rev, retired>>

\* loadSession has returned the session; the rest of authenticate (the second
\* look at ExpiresAt, accountAccess) and the handler run and the request ends.
Finish(r) ==
    /\ req[r].pc = "granted"
    /\ req' = [req EXCEPT ![r] = IdleRequest]
    /\ UNCHANGED <<now, revoked, revokedAt, redis, wire, rev, retired>>

-----------------------------------------------------------------------------
(* Revocation: the database commit, then retireSessions.                   *)

\* Mutant: the row is never updated.
RevokeLost(p, ids) ==
    /\ rev[p].pc = "idle"
    /\ rev' = [rev EXCEPT ![p] = [IdleHandler EXCEPT !.pc = "committed", !.ids = ids]]
    /\ UNCHANGED <<revoked, revokedAt>>

Revoke(p, ids) ==
    /\ rev[p].pc = "idle"
    /\ revoked' = revoked \cup ids
    /\ revokedAt' = [s \in Sid |-> IF s \in ids \ revoked THEN now ELSE revokedAt[s]]
    /\ rev' = [rev EXCEPT ![p] = [IdleHandler EXCEPT !.pc = "committed", !.ids = ids]]

\* logout updates its row whether or not it was revoked already.
Logout(p, s) ==
    /\ Revoke(p, {s})
    /\ UNCHANGED <<now, redis, wire, req, retired>>

\* revokeSessions inside a transaction (changePassword, adminPassword, the
\* rename of updateMe, a rename or ban by adminUpdateUser): every session not revoked yet.
RevokeAll(p) ==
    /\ Revoke(p, Sid \ revoked)
    /\ UNCHANGED <<now, redis, wire, req, retired>>

RetireDeadline == now + Lease

RetireStart(p) ==
    /\ rev[p].pc = "committed"
    /\ rev' = [rev EXCEPT ![p].pc = "marking", ![p].todo = rev[p].ids,
                          ![p].deadline = RetireDeadline]
    /\ UNCHANGED <<now, revoked, revokedAt, redis, wire, req, retired>>

MarkerEntry == [kind |-> "revoked", until |-> now + MarkerTTL]

MarkOk(p, s) ==
    /\ rev[p].pc = "marking"
    /\ s \in rev[p].todo
    /\ redis' = [redis EXCEPT ![s] = MarkerEntry]
    /\ rev' = [rev EXCEPT ![p].todo = @ \ {s}]
    /\ UNCHANGED <<now, revoked, revokedAt, wire, req, retired>>

\* The SET failed, timed out or was refused by the breaker; a timed-out command
\* may still reach Redis.
MarkFail(p, s) ==
    /\ rev[p].pc = "marking"
    /\ s \in rev[p].todo
    /\ rev' = [rev EXCEPT ![p].todo = @ \ {s}, ![p].failed = TRUE]
    /\ \/ UNCHANGED wire
       \/ Send([sid |-> s, kind |-> "revoked", until |-> 0])
    /\ UNCHANGED <<now, revoked, revokedAt, redis, req, retired>>

\* Mutant: the failure is not waited out.
MayReturnAtOnce(p) == TRUE

MayReturn(p) == rev[p].failed => now >= rev[p].deadline

RetireReturn(p) ==
    /\ rev[p].pc = "marking"
    /\ rev[p].todo = {}
    /\ MayReturn(p)
    /\ retired' = retired \cup rev[p].ids
    /\ rev' = [rev EXCEPT ![p] = IdleHandler]
    /\ UNCHANGED <<now, revoked, revokedAt, redis, wire, req>>

\* The API instance dies after its commit: nobody retires these sessions.
Crash(p) ==
    /\ rev[p].pc # "idle"
    /\ rev' = [rev EXCEPT ![p] = IdleHandler]
    /\ UNCHANGED <<now, revoked, revokedAt, redis, wire, req, retired>>

-----------------------------------------------------------------------------
(* Redis.                                                                  *)

\* Mutant: SET instead of SET NX.
ApplyCommandSet(c) ==
    IF c.kind = "revoked" THEN MarkerEntry ELSE [kind |-> "lease", until |-> c.until]

\* What a command leaves under its key: SET for a marker, SET NX for a copy.
ApplyCommand(c) ==
    IF c.kind = "revoked"
    THEN MarkerEntry
    ELSE IF redis[c.sid].kind = "none"
         THEN [kind |-> "lease", until |-> c.until]
         ELSE redis[c.sid]

RedisApply(c) ==
    /\ wire' = wire \ {c}
    /\ redis' = [redis EXCEPT ![c.sid] = ApplyCommand(c)]
    /\ UNCHANGED <<now, revoked, revokedAt, req, rev, retired>>

RedisDrop(c) ==
    /\ wire' = wire \ {c}
    /\ UNCHANGED <<now, revoked, revokedAt, redis, req, rev, retired>>

\* A key goes: a copy at any time, a marker when its TTL is over.  When Redis
\* does not keep its keys (allkeys-lru eviction, a restart from an older
\* snapshot) a marker may go early too.
RedisForget(s) ==
    /\ redis[s].kind # "none"
    /\ redis[s].kind = "revoked" /\ RedisKeepsKeys => now >= redis[s].until
    /\ redis' = [redis EXCEPT ![s] = NoEntry]
    /\ UNCHANGED <<now, revoked, revokedAt, wire, req, rev, retired>>

-----------------------------------------------------------------------------
Authenticate(r) ==
    \/ \E s \in Sid : GetMarker(r, s) \/ GetCopy(r, s) \/ GetMiss(r, s)
    \/ Stamp(r) \/ ReadRow(r) \/ ReadRowDenied(r) \/ Store(r) \/ Finish(r)

Revocation(p) ==
    \/ \E s \in Sid : Logout(p, s) \/ MarkOk(p, s) \/ MarkFail(p, s)
    \/ RevokeAll(p)
    \/ RetireStart(p) \/ RetireReturn(p) \/ Crash(p)

Redis ==
    \/ \E c \in wire : RedisApply(c) \/ RedisDrop(c)
    \/ \E s \in Sid : RedisForget(s)

Next ==
    \/ Tick
    \/ \E r \in Req : Authenticate(r)
    \/ \E p \in Rev : Revocation(p)
    \/ Redis

Spec == Init /\ [][Next]_vars

-----------------------------------------------------------------------------
\* The request got past the session check.
Trusted(r) == req[r].pc \in {"loaded", "granted"}

\* Once retireSessions has returned for a session, no request that begins
\* afterwards gets past loadSession with it: the promise of the comment at
\* session_cache.go:16-18, for any interleaving of requests, revocations,
\* failing or delayed Redis commands and crashes.
RetiredNeverAccepted == \A r \in Req : req[r].late => ~Trusted(r)

\* Whatever Redis loses, a request that begins a full lease after the
\* revocation committed does not get past loadSession.
RevocationWithinLease == \A r \in Req : req[r].overdue => ~Trusted(r)
=============================================================================

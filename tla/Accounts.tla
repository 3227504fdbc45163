------------------------------ MODULE Accounts ------------------------------
(***************************************************************************)
(* Accounts, invitations and session rows of backend/auth.go and the user  *)
(* half of backend/admin.go, as MySQL sees them.  A transaction that locks *)
(* the account row first (login, adminPassword, adminUpdateUser, and       *)
(* changePassword and updateMe, whose first statement updates it) is one   *)
(* step; what a handler read before its transaction, and what it does      *)
(* after it, are steps of their own.  Registration holds the lock of its   *)
(* invitation between two steps.  Redis is left to SessionLease.           *)
(*                                                                         *)
(* A password is the number of the change that set it; a client that      *)
(* offers a password offers one of these.  users is a view of account.     *)
(***************************************************************************)
EXTENDS Naturals, Sequences, FiniteSets

CONSTANTS
    User,        \* ids the account table may give
    Name,        \* usernames (the pattern of usernamePattern)
    Invite,      \* invitations written by the "invite" mode of main.go
    Proc,        \* handlers under way, on any API instance
    Nobody,      \* NULL
    MaxSessions, \* bound: session rows
    MaxPassword, \* bound: passwords ever set for one account
    MaxBans,     \* bound: times one account is disabled
    MaxRefresh   \* bound: refreshes of one session

ASSUME AccountsConstants ==
    /\ Nobody \notin User \cup Name \cup Invite
    /\ {"fresh", "expired"} \cap User = {}
    /\ MaxSessions \in Nat /\ MaxPassword \in Nat /\ MaxBans \in Nat /\ MaxRefresh \in Nat

VARIABLES
    account,   \* the account table; name Nobody where there is no row
    invite,    \* used_by, or whether the invitation is still "fresh"
    sessions,  \* the sessions table, in order of creation
    handler    \* handlers between two of their statements

accountsVars == <<account, invite, sessions, handler>>

-----------------------------------------------------------------------------
\* bans counts the times the account was disabled and by is the invitation it
\* was made with: history, for the properties.
AccountRow == [name: Name \cup {Nobody}, password: Nat, status: {0, 1},
               role: {"user", "admin"}, bans: Nat, by: Invite \cup {Nobody}]

NoAccount == [name |-> Nobody, password |-> 0, status |-> 1, role |-> "user",
              bans |-> 0, by |-> Nobody]

\* refresh is the serial number of the token whose hash the row holds.  The
\* rest is history: how the row came to be, the password that was shown for
\* it, the bans there had been, and the serials of the tokens accepted.
SessionRow == [user: User, state: {"live", "revoked", "expired"}, refresh: Nat,
               via: {"register", "login", "rename"}, password: Nat, bans: Nat,
               accepted: Seq(Nat)]

HandlerPC == {"idle", "inviting", "registered", "verified", "authed", "signed",
              "compared", "renamed", "granting"}

\* word: the password shown, or the serial of the token shown; sid: the session
\* the request is authenticated by or refreshes.
HandlerState == [pc: HandlerPC, user: User \cup {Nobody}, invite: Invite \cup {Nobody},
                 word: Nat, sid: Nat]

IdleHandlerState == [pc |-> "idle", user |-> Nobody, invite |-> Nobody, word |-> 0, sid |-> 0]

AccountsTypeOK ==
    /\ account \in [User -> AccountRow]
    /\ invite \in [Invite -> {"fresh", "expired"} \cup User]
    /\ sessions \in Seq(SessionRow)
    /\ handler \in [Proc -> HandlerState]
    /\ \A p \in Proc : handler[p].sid \in 0..Len(sessions)
    /\ \A s \in DOMAIN sessions : account[sessions[s].user].name # Nobody

AccountsInit ==
    /\ account = [u \in User |-> NoAccount]
    /\ invite = [i \in Invite |-> "fresh"]
    /\ sessions = <<>>
    /\ handler = [p \in Proc |-> IdleHandlerState]

\* Mutant: a row that is not found is taken for an empty one.
ExistsUnchecked(u) == TRUE

Exists(u) == account[u].name # Nobody

\* The unique index of account.account.
NameFree(n, u) == \A v \in User \ {u} : account[v].name # n

Await(p, pc, u, i, word, sid) ==
    handler' = [handler EXCEPT ![p] =
                  [pc |-> pc, user |-> u, invite |-> i, word |-> word, sid |-> sid]]

Finish(p) == handler' = [handler EXCEPT ![p] = IdleHandlerState]

\* newSessionOn: fresh id, both tokens signed, one row.
NewSession(u, via, password) ==
    /\ Len(sessions) < MaxSessions
    /\ sessions' = Append(sessions, [user |-> u, state |-> "live", refresh |-> 0, via |-> via,
                                     password |-> password, bans |-> account[u].bans,
                                     accepted |-> <<>>])

\* revokeSessions inside the caller's transaction.
RevokeSessions(u) ==
    [s \in DOMAIN sessions |-> IF sessions[s].user = u
                               THEN [sessions[s] EXCEPT !.state = "revoked"] ELSE sessions[s]]

\* authenticate, against the rows: the session is live and the account enabled.
Authenticated(s) ==
    /\ sessions[s].state = "live"
    /\ account[sessions[s].user].status = 1

-----------------------------------------------------------------------------
(* Registration with an invitation.                                        *)

InviteExpires(i) ==
    /\ invite[i] = "fresh"
    /\ \A p \in Proc : handler[p].invite # i
    /\ invite' = [invite EXCEPT ![i] = "expired"]
    /\ UNCHANGED <<account, sessions, handler>>

\* Mutant: the invitation is read without FOR UPDATE.
InviteFreeUnlocked(i) == invite[i] = "fresh"

InviteFree(i) ==
    /\ invite[i] = "fresh"
    /\ \A p \in Proc : ~(handler[p].pc = "inviting" /\ handler[p].invite = i)

\* SELECT ... FOR UPDATE; a request for an invitation that is used or expired,
\* or whose body is malformed, is refused and changes nothing.
RegisterLock(p, i) ==
    /\ handler[p].pc = "idle"
    /\ InviteFree(i)
    /\ Await(p, "inviting", Nobody, i, 0, 0)
    /\ UNCHANGED <<account, invite, sessions>>

\* createCoreUser and used_by, then the commit.
RegisterCommit(p, u, n) ==
    LET i == handler[p].invite IN
    /\ handler[p].pc = "inviting"
    /\ ~Exists(u)
    /\ NameFree(n, u)
    /\ account' = [account EXCEPT ![u] = [NoAccount EXCEPT !.name = n, !.password = 1, !.by = i]]
    /\ invite' = [invite EXCEPT ![i] = u]
    /\ Await(p, "registered", u, Nobody, 1, 0)
    /\ UNCHANGED sessions

\* The username is taken, or the database fails: everything is rolled back.
RegisterRollback(p) ==
    /\ handler[p].pc = "inviting"
    /\ Finish(p)
    /\ UNCHANGED <<account, invite, sessions>>

\* The session is made after the commit, on the pool and not in the transaction.
RegisterSession(p) ==
    /\ handler[p].pc = "registered"
    /\ NewSession(handler[p].user, "register", handler[p].word)
    /\ Finish(p)
    /\ UNCHANGED <<account, invite>>

-----------------------------------------------------------------------------
(* Login and refresh.                                                      *)

LoginVerify(p, u) ==
    /\ handler[p].pc = "idle"
    /\ Exists(u)
    /\ Await(p, "verified", u, Nobody, account[u].password, 0)
    /\ UNCHANGED <<account, invite, sessions>>

\* Mutant: the transaction does not look at the password again.
LoginStillGoodUnchecked(u, password) == account[u].status = 1

LoginStillGood(u, password) ==
    /\ account[u].status = 1
    /\ account[u].password = password

LoginCommit(p) ==
    LET u == handler[p].user IN
    /\ handler[p].pc = "verified"
    /\ LoginStillGood(u, handler[p].word)
    /\ NewSession(u, "login", handler[p].word)
    /\ Finish(p)
    /\ UNCHANGED <<account, invite>>

LoginRefused(p) ==
    /\ handler[p].pc = "verified"
    /\ ~LoginStillGood(handler[p].user, handler[p].word)
    /\ Finish(p)
    /\ UNCHANGED <<account, invite, sessions>>

\* The cookie holds any refresh token of the session that was ever sent out.
RefreshCheck(p, s, t) ==
    /\ handler[p].pc = "idle"
    /\ t \in 0..sessions[s].refresh
    /\ account[sessions[s].user].status = 1
    /\ Await(p, "signed", sessions[s].user, Nobody, t, s)
    /\ UNCHANGED <<account, invite, sessions>>

\* Mutant: the hash of the presented token is not compared.
RefreshAcceptsAny(s, t) == sessions[s].state = "live"

RefreshAccepts(s, t) ==
    /\ sessions[s].state = "live"
    /\ sessions[s].refresh = t

RefreshCommit(p) ==
    LET s == handler[p].sid
        t == handler[p].word
    IN  /\ handler[p].pc = "signed"
        /\ RefreshAccepts(s, t)
        /\ sessions[s].refresh < MaxRefresh
        /\ sessions' = [sessions EXCEPT ![s].refresh = @ + 1, ![s].accepted = Append(@, t)]
        /\ Finish(p)
        /\ UNCHANGED <<account, invite>>

RefreshRefused(p) ==
    /\ handler[p].pc = "signed"
    /\ ~RefreshAccepts(handler[p].sid, handler[p].word)
    /\ Finish(p)
    /\ UNCHANGED <<account, invite, sessions>>

SessionExpires(s) ==
    /\ sessions[s].state = "live"
    /\ sessions' = [sessions EXCEPT ![s].state = "expired"]
    /\ UNCHANGED <<account, invite, handler>>

\* A valid token of either kind names the session; revoked_at is set whatever
\* the row holds.
Logout(s) ==
    /\ sessions[s].state # "revoked"
    /\ sessions' = [sessions EXCEPT ![s].state = "revoked"]
    /\ UNCHANGED <<account, invite, handler>>

-----------------------------------------------------------------------------
(* The user's own account: updateMe with a username, changePassword.       *)

\* The request has passed authenticate; the handler's transaction comes later.
\* (A change of the biography alone touches nothing kept here.)
BeginOwn(p, s) ==
    /\ handler[p].pc = "idle"
    /\ Authenticated(s)
    /\ Await(p, "authed", sessions[s].user, Nobody, 0, s)
    /\ UNCHANGED <<account, invite, sessions>>

RenameCommit(p, n) ==
    LET u == handler[p].user IN
    /\ handler[p].pc = "authed"
    /\ NameFree(n, u)
    /\ account' = [account EXCEPT ![u].name = n]
    /\ sessions' = RevokeSessions(u)
    /\ Await(p, "renamed", u, Nobody, sessions[handler[p].sid].password, handler[p].sid)
    /\ UNCHANGED invite

\* After retireSessions and invalidateAuthor: a new session, outside the
\* transaction and without a second look at the account.
RenameSession(p) ==
    /\ handler[p].pc = "renamed"
    /\ NewSession(handler[p].user, "rename", handler[p].word)
    /\ Finish(p)
    /\ UNCHANGED <<account, invite>>

\* The old password is compared outside the transaction.
ChangeCompare(p) ==
    /\ handler[p].pc = "authed"
    /\ Await(p, "compared", handler[p].user, Nobody, account[handler[p].user].password,
             handler[p].sid)
    /\ UNCHANGED <<account, invite, sessions>>

SetPassword(u) ==
    /\ account[u].password < MaxPassword
    /\ account' = [account EXCEPT ![u].password = @ + 1]
    /\ sessions' = RevokeSessions(u)

ChangeCommit(p) ==
    /\ handler[p].pc = "compared"
    /\ SetPassword(handler[p].user)
    /\ Finish(p)
    /\ UNCHANGED invite

\* A handler's statement fails, or its process dies: newSession or the
\* transaction does not happen, what was committed stays.
HandlerFails(p) ==
    /\ handler[p].pc \in {"registered", "verified", "signed", "authed", "compared",
                          "renamed", "granting"}
    /\ Finish(p)
    /\ UNCHANGED <<account, invite, sessions>>

-----------------------------------------------------------------------------
(* Administrators, and the grant-admin mode of main.go.                    *)

AdminPassword(u) ==
    /\ Exists(u)
    /\ SetPassword(u)
    /\ UNCHANGED <<invite, handler>>

\* n is Nobody and st is 2 when the body leaves them out.
AdminUpdateUser(u, n, st) ==
    LET disables == st = 0 IN
    /\ Exists(u)
    /\ n # Nobody \/ st # 2
    /\ disables => account[u].role # "admin" /\ account[u].bans < MaxBans
    /\ n # Nobody => NameFree(n, u)
    /\ account' = [account EXCEPT ![u].name = IF n = Nobody THEN @ ELSE n,
                                  ![u].status = IF st = 2 THEN @ ELSE st,
                                  ![u].bans = IF disables THEN @ + 1 ELSE @]
    /\ sessions' = IF n # Nobody \/ disables THEN RevokeSessions(u) ELSE sessions
    /\ UNCHANGED <<invite, handler>>

\* grantAdmin finds an enabled account and updates its role afterwards.
GrantFind(p, u) ==
    /\ handler[p].pc = "idle"
    /\ Exists(u)
    /\ account[u].status = 1
    /\ Await(p, "granting", u, Nobody, 0, 0)
    /\ UNCHANGED <<account, invite, sessions>>

GrantWrite(p) ==
    /\ handler[p].pc = "granting"
    /\ account' = [account EXCEPT ![handler[p].user].role = "admin"]
    /\ Finish(p)
    /\ UNCHANGED <<invite, sessions>>

-----------------------------------------------------------------------------
HandlerStep(p) ==
    \/ \E i \in Invite : RegisterLock(p, i)
    \/ \E u \in User, n \in Name : RegisterCommit(p, u, n)
    \/ RegisterRollback(p)
    \/ RegisterSession(p)
    \/ \E u \in User : LoginVerify(p, u)
    \/ LoginCommit(p)
    \/ LoginRefused(p)
    \/ \E s \in DOMAIN sessions : \E t \in 0..MaxRefresh : RefreshCheck(p, s, t)
    \/ RefreshCommit(p)
    \/ RefreshRefused(p)
    \/ \E s \in DOMAIN sessions : BeginOwn(p, s)
    \/ \E n \in Name : RenameCommit(p, n)
    \/ RenameSession(p)
    \/ ChangeCompare(p)
    \/ ChangeCommit(p)
    \/ \E u \in User : GrantFind(p, u)
    \/ GrantWrite(p)
    \/ HandlerFails(p)

AccountsNext ==
    \/ \E p \in Proc : HandlerStep(p)
    \/ \E i \in Invite : InviteExpires(i)
    \/ \E s \in DOMAIN sessions : SessionExpires(s) \/ Logout(s)
    \/ \E u \in User : AdminPassword(u)
    \/ \E u \in User, n \in Name \cup {Nobody}, st \in 0..2 : AdminUpdateUser(u, n, st)

AccountsSpec == AccountsInit /\ [][AccountsNext]_accountsVars

-----------------------------------------------------------------------------
(* Properties.                                                             *)

\* A live session that a login made was made with the password the account has
\* now, and since it was last disabled; the account is enabled.  This is what
\* "A login that verified an old password cannot escape a concurrent reset"
\* (auth.go) promises.  Sessions made after a rename or a registration are
\* outside it: their handlers insert them without the lock.
LoginSessionsCurrent ==
    \A s \in DOMAIN sessions :
        sessions[s].state = "live" /\ sessions[s].via = "login" =>
            /\ sessions[s].password = account[sessions[s].user].password
            /\ sessions[s].bans = account[sessions[s].user].bans
            /\ account[sessions[s].user].status = 1

\* One invitation makes one account, and every account has used up the
\* invitation it was made with, however many registrations race (register).
InviteOnce == \A i \in Invite, u \in User : account[u].by = i <=> invite[i] = u

\* A refresh token is accepted once: of two refreshes with the same cookie, in
\* whatever order their steps come, one is refused (refresh).
RefreshOnce ==
    \A s \in DOMAIN sessions : \A i, j \in DOMAIN sessions[s].accepted :
        sessions[s].accepted[i] = sessions[s].accepted[j] => i = j
=============================================================================

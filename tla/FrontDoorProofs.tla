--------------------------- MODULE FrontDoorProofs ---------------------------
(***************************************************************************)
(* Proofs about Accounts and Gate, for any number of users, names,         *)
(* invitations, handlers, keys and callers, and any limits.                *)
(***************************************************************************)
EXTENDS MCFrontDoor, SequenceTheorems, FiniteSetTheorems, TLAPS

(***************************************************************************)
(* Accounts.                                                               *)
(***************************************************************************)

\* A handler past its first statement acts for an account that exists, and one
\* that names a session names one that was made.
HandlerSound(h) ==
    /\ h.pc \notin {"idle", "inviting"} => h.user \in User /\ account[h.user].name # Nobody
    /\ h.pc \in {"signed", "authed", "compared", "renamed"} => h.sid # 0
    /\ h.sid \in 0..Len(sessions)

HandlerInv == \A p \in Proc : HandlerSound(handler[p])

\* Whoever registers holds the lock of an invitation nobody has used, and holds
\* it alone.
InvitingInv ==
    /\ \A p \in Proc : handler[p].pc = "inviting" =>
          handler[p].invite \in Invite /\ invite[handler[p].invite] = "fresh"
    /\ \A p, q \in Proc :
          /\ handler[p].pc = "inviting" /\ handler[q].pc = "inviting"
          /\ handler[p].invite = handler[q].invite
          => p = q

\* What is not an account was not made with an invitation.
MadeInv == \A u \in User : account[u].name = Nobody => account[u].by = Nobody

\* The tokens a session has accepted are older than the one it waits for.
TokenInv ==
    \A s \in DOMAIN sessions : \A i \in DOMAIN sessions[s].accepted :
        sessions[s].accepted[i] < sessions[s].refresh

AccountsInv == AccountsTypeOK /\ HandlerInv

-----------------------------------------------------------------------------
\* The rows after revokeSessions: those of the user are revoked, and nothing
\* else has changed.
LEMMA RevokedRows ==
    ASSUME sessions \in Seq(SessionRow), NEW u
    PROVE  /\ RevokeSessions(u) \in Seq(SessionRow)
           /\ Len(RevokeSessions(u)) = Len(sessions)
           /\ DOMAIN RevokeSessions(u) = DOMAIN sessions
           /\ \A s \in DOMAIN sessions :
                /\ RevokeSessions(u)[s].user = sessions[s].user
                /\ RevokeSessions(u)[s].via = sessions[s].via
                /\ RevokeSessions(u)[s].refresh = sessions[s].refresh
                /\ RevokeSessions(u)[s].password = sessions[s].password
                /\ RevokeSessions(u)[s].bans = sessions[s].bans
                /\ RevokeSessions(u)[s].accepted = sessions[s].accepted
                /\ RevokeSessions(u)[s].state =
                     IF sessions[s].user = u THEN "revoked" ELSE sessions[s].state
<1> DEFINE R == RevokeSessions(u)
           n == Len(sessions)
<1>1. n \in Nat /\ DOMAIN sessions = 1..n /\ \A s \in 1..n : sessions[s] \in SessionRow
  BY LenProperties, ElementOfSeq
<1>2. R = [s \in 1..n |-> IF sessions[s].user = u
                          THEN [sessions[s] EXCEPT !.state = "revoked"] ELSE sessions[s]]
  BY <1>1 DEF RevokeSessions
<1>3. ASSUME NEW s \in 1..n PROVE R[s] \in SessionRow
  <2>1. [sessions[s] EXCEPT !.state = "revoked"] \in SessionRow
    BY <1>1 DEF SessionRow
  <2>2. QED
    BY <1>1, <1>2, <2>1
<1>4. R \in [1..n -> SessionRow]
  BY <1>2, <1>3
<1>5. R \in Seq(SessionRow) /\ Len(R) = n
  BY <1>1, <1>4
<1>6. DOMAIN R = DOMAIN sessions
  BY <1>1, <1>2
<1>7. ASSUME NEW s \in DOMAIN sessions
      PROVE  /\ R[s].user = sessions[s].user
             /\ R[s].via = sessions[s].via
             /\ R[s].refresh = sessions[s].refresh
             /\ R[s].password = sessions[s].password
             /\ R[s].bans = sessions[s].bans
             /\ R[s].accepted = sessions[s].accepted
             /\ R[s].state = IF sessions[s].user = u THEN "revoked" ELSE sessions[s].state
  BY <1>1, <1>2, <1>7 DEF SessionRow
<1>8. QED
  BY <1>5, <1>6, <1>7

\* The rows after newSessionOn: one more, live, with a token nobody has shown.
LEMMA NewSessionRows ==
    ASSUME AccountsTypeOK, NEW u \in User, NEW via \in {"register", "login", "rename"},
           NEW password \in Nat, NewSession(u, via, password)
    PROVE  /\ sessions' \in Seq(SessionRow)
           /\ Len(sessions') = Len(sessions) + 1
           /\ DOMAIN sessions = 1..Len(sessions)
           /\ DOMAIN sessions' = DOMAIN sessions \cup {Len(sessions) + 1}
           /\ Len(sessions) + 1 \notin DOMAIN sessions
           /\ \A s \in DOMAIN sessions : sessions'[s] = sessions[s]
           /\ sessions'[Len(sessions) + 1] =
                [user |-> u, state |-> "live", refresh |-> 0, via |-> via,
                 password |-> password, bans |-> account[u].bans, accepted |-> <<>>]
<1> DEFINE r == [user |-> u, state |-> "live", refresh |-> 0, via |-> via,
                 password |-> password, bans |-> account[u].bans, accepted |-> <<>>]
<1>1. r \in SessionRow
  BY EmptySeq DEF SessionRow, AccountsTypeOK, AccountRow
<1>2. sessions \in Seq(SessionRow) /\ sessions' = Append(sessions, r)
  BY DEF AccountsTypeOK, NewSession
<1>3. QED
  BY <1>1, <1>2, LenProperties, AppendProperties

\* Changing fields of one row leaves the others alone.
LEMMA ChangedRow ==
    ASSUME sessions \in Seq(SessionRow), NEW s \in DOMAIN sessions, NEW r \in SessionRow,
           sessions' = [sessions EXCEPT ![s] = r]
    PROVE  /\ sessions' \in Seq(SessionRow)
           /\ Len(sessions') = Len(sessions)
           /\ DOMAIN sessions' = DOMAIN sessions
           /\ sessions'[s] = r
           /\ \A t \in DOMAIN sessions \ {s} : sessions'[t] = sessions[t]
<1>1. DOMAIN sessions = 1..Len(sessions)
  BY LenProperties
<1>2. QED
  BY <1>1, ExceptSeq, LenProperties

-----------------------------------------------------------------------------
\* The actions, one by one: what a case split on AccountsNext needs.
LEMMA AccountsCases ==
    ASSUME AccountsNext
    PROVE  \/ \E p \in Proc, i \in Invite : RegisterLock(p, i)
           \/ \E p \in Proc, u \in User, n \in Name : RegisterCommit(p, u, n)
           \/ \E p \in Proc : RegisterRollback(p) \/ RegisterSession(p)
           \/ \E p \in Proc, u \in User : LoginVerify(p, u) \/ GrantFind(p, u)
           \/ \E p \in Proc : LoginCommit(p) \/ LoginRefused(p)
           \/ \E p \in Proc, s \in DOMAIN sessions, t \in 0..MaxRefresh : RefreshCheck(p, s, t)
           \/ \E p \in Proc : RefreshCommit(p) \/ RefreshRefused(p)
           \/ \E p \in Proc, s \in DOMAIN sessions : BeginOwn(p, s)
           \/ \E p \in Proc, n \in Name : RenameCommit(p, n)
           \/ \E p \in Proc : RenameSession(p) \/ ChangeCompare(p) \/ ChangeCommit(p)
           \/ \E p \in Proc : GrantWrite(p) \/ HandlerFails(p)
           \/ \E i \in Invite : InviteExpires(i)
           \/ \E s \in DOMAIN sessions : SessionExpires(s) \/ Logout(s)
           \/ \E u \in User : AdminPassword(u)
           \/ \E u \in User, n \in Name \cup {Nobody}, st \in 0..2 : AdminUpdateUser(u, n, st)
BY DEF AccountsNext, HandlerStep

\* What every step does to the accounts, the sessions and the handlers.
AccountsKept ==
    /\ account' \in [User -> AccountRow]
    /\ \A u \in User : account[u].name # Nobody => account'[u].name # Nobody

SessionsKept ==
    /\ sessions' \in Seq(SessionRow)
    /\ Len(sessions) <= Len(sessions')
    /\ \A s \in DOMAIN sessions : sessions'[s].user = sessions[s].user
    /\ \A s \in DOMAIN sessions' \ DOMAIN sessions : account[sessions'[s].user].name # Nobody

HandlerKept ==
    \/ UNCHANGED handler
    \/ \E p \in Proc, h \in HandlerState :
          /\ handler' = [handler EXCEPT ![p] = h]
          /\ h.pc \notin {"idle", "inviting"} => h.user \in User /\ account'[h.user].name # Nobody
          /\ h.pc \in {"signed", "authed", "compared", "renamed"} => h.sid # 0
          /\ h.sid \in 0..Len(sessions)

\* The rows of the sessions table are rows.
LEMMA SessionTypes ==
    ASSUME sessions \in Seq(SessionRow)
    PROVE  /\ Len(sessions) \in Nat
           /\ DOMAIN sessions = 1..Len(sessions)
           /\ \A s \in DOMAIN sessions :
                /\ sessions[s] \in SessionRow
                /\ sessions[s].user \in User
                /\ sessions[s].refresh \in Nat
                /\ sessions[s].password \in Nat
                /\ sessions[s].accepted \in Seq(Nat)
<1>1. Len(sessions) \in Nat /\ DOMAIN sessions = 1..Len(sessions)
  BY LenProperties
<1>2. \A s \in DOMAIN sessions : sessions[s] \in SessionRow
  BY <1>1, ElementOfSeq
<1>3. QED
  BY <1>1, <1>2 DEF SessionRow

\* A step that keeps accounts, sessions and the handler each in order keeps the
\* invariant.
LEMMA AccountsInvStep ==
    ASSUME AccountsInv, AccountsKept, SessionsKept, HandlerKept,
           invite' \in [Invite -> {"fresh", "expired"} \cup User]
    PROVE  AccountsInv'
<1>1. Len(sessions') \in Nat /\ Len(sessions) \in Nat
      /\ DOMAIN sessions = 1..Len(sessions) /\ DOMAIN sessions' = 1..Len(sessions')
  BY LenProperties DEF AccountsInv, AccountsTypeOK, SessionsKept
<1>2. \A s \in DOMAIN sessions' : sessions'[s].user \in User
  <2>1. \A s \in DOMAIN sessions' : sessions'[s] \in SessionRow
    BY <1>1, ElementOfSeq DEF SessionsKept
  <2>2. QED
    BY <2>1 DEF SessionRow
<1>3. \A s \in DOMAIN sessions' : account'[sessions'[s].user].name # Nobody
  BY <1>1, <1>2 DEF AccountsInv, AccountsTypeOK, SessionsKept, AccountsKept
<1>4. handler' \in [Proc -> HandlerState] /\ HandlerInv'
  <2>1. CASE UNCHANGED handler
    BY <1>1, <2>1 DEF AccountsInv, AccountsTypeOK, HandlerInv, HandlerSound, AccountsKept, SessionsKept
  <2>2. CASE ~UNCHANGED handler
    <3>1. PICK p \in Proc, h \in HandlerState :
            /\ handler' = [handler EXCEPT ![p] = h]
            /\ h.pc \notin {"idle", "inviting"} =>
                 h.user \in User /\ account'[h.user].name # Nobody
            /\ h.pc \in {"signed", "authed", "compared", "renamed"} => h.sid # 0
            /\ h.sid \in 0..Len(sessions)
      BY <2>2 DEF HandlerKept
    <3>2. handler' \in [Proc -> HandlerState]
      BY <3>1 DEF AccountsInv, AccountsTypeOK
    <3>3. ASSUME NEW q \in Proc, q # p PROVE HandlerSound(handler[q])'
      BY <1>1, <3>1, <3>3
      DEF AccountsInv, AccountsTypeOK, HandlerInv, HandlerSound, AccountsKept, SessionsKept
    <3>4. handler'[p] = h
      BY <3>1 DEF AccountsInv, AccountsTypeOK
    <3>5. HandlerSound(handler[p])'
      BY <1>1, <3>1, <3>4 DEF HandlerSound, SessionsKept
    <3>6. QED
      BY <3>2, <3>3, <3>5 DEF HandlerInv
  <2>3. QED
    BY <2>1, <2>2
<1>5. \A p \in Proc : handler'[p].sid \in 0..Len(sessions')
  BY <1>4 DEF HandlerInv, HandlerSound
<1>6. QED
  BY <1>3, <1>4, <1>5 DEF AccountsInv, AccountsTypeOK, AccountsKept, SessionsKept

\* A handler that comes to its end.
LEMMA FinishKept == ASSUME AccountsInv, NEW p \in Proc, Finish(p) PROVE HandlerKept
<1>1. IdleHandlerState \in HandlerState
  BY DEF IdleHandlerState, HandlerState, HandlerPC
<1>2. IdleHandlerState.pc = "idle" /\ IdleHandlerState.sid = 0
  BY DEF IdleHandlerState
<1>3. 0 \in 0..Len(sessions)
  BY SessionTypes DEF AccountsInv, AccountsTypeOK
<1>4. QED
  BY <1>1, <1>2, <1>3 DEF Finish, HandlerKept

\* A handler that goes on to its next statement.
LEMMA AwaitKept ==
    ASSUME AccountsInv, NEW p \in Proc, NEW pc \in HandlerPC, NEW u \in User \cup {Nobody},
           NEW i \in Invite \cup {Nobody}, NEW word \in Nat, NEW sid \in 0..Len(sessions),
           Await(p, pc, u, i, word, sid),
           pc \notin {"idle", "inviting"} => u \in User /\ account'[u].name # Nobody,
           pc \in {"signed", "authed", "compared", "renamed"} => sid # 0
    PROVE  HandlerKept
<1> DEFINE h == [pc |-> pc, user |-> u, invite |-> i, word |-> word, sid |-> sid]
<1>1. Len(sessions) \in Nat
  BY SessionTypes DEF AccountsInv, AccountsTypeOK
<1>2. h \in HandlerState
  BY <1>1 DEF HandlerState
<1>3. handler' = [handler EXCEPT ![p] = h]
  BY DEF Await
<1>4. /\ h.pc \notin {"idle", "inviting"} => h.user \in User /\ account'[h.user].name # Nobody
      /\ h.pc \in {"signed", "authed", "compared", "renamed"} => h.sid # 0
      /\ h.sid \in 0..Len(sessions)
  OBVIOUS
<1> HIDE DEF h
<1>5. QED
  BY <1>2, <1>3, <1>4 DEF HandlerKept

\* Revoking the sessions of a user keeps them; so does changing a row.
LEMMA RevokedKept ==
    ASSUME AccountsInv, NEW u, sessions' = RevokeSessions(u)
    PROVE  SessionsKept
<1>1. sessions \in Seq(SessionRow) /\ Len(sessions) \in Nat
  BY SessionTypes DEF AccountsInv, AccountsTypeOK
<1>2. QED
  BY <1>1, RevokedRows DEF SessionsKept

\* One session row is rewritten for the same user.
LEMMA ChangedKept ==
    ASSUME AccountsInv, NEW s \in DOMAIN sessions, NEW r \in SessionRow,
           sessions' = [sessions EXCEPT ![s] = r], r.user = sessions[s].user
    PROVE  SessionsKept
<1>1. sessions \in Seq(SessionRow) /\ Len(sessions) \in Nat
  BY SessionTypes DEF AccountsInv, AccountsTypeOK
<1>2. QED
  BY <1>1, ChangedRow DEF SessionsKept

\* A new session belongs to an account that exists.
LEMMA NewSessionKept ==
    ASSUME AccountsInv, NEW u \in User, account[u].name # Nobody,
           NEW via \in {"register", "login", "rename"}, NEW password \in Nat,
           NewSession(u, via, password)
    PROVE  SessionsKept
<1>1. sessions \in Seq(SessionRow) /\ Len(sessions) \in Nat
  BY SessionTypes DEF AccountsInv, AccountsTypeOK
<1> DEFINE k == Len(sessions) + 1
<1>2. /\ sessions' \in Seq(SessionRow)
      /\ Len(sessions') = k
      /\ DOMAIN sessions' = DOMAIN sessions \cup {k}
      /\ \A s \in DOMAIN sessions : sessions'[s] = sessions[s]
      /\ sessions'[k] = [user |-> u, state |-> "live", refresh |-> 0, via |-> via,
                         password |-> password, bans |-> account[u].bans, accepted |-> <<>>]
  <2>1. AccountsTypeOK
    BY DEF AccountsInv
  <2>2. QED
    BY <2>1, NewSessionRows
<1>3. Len(sessions) <= k
  BY <1>1
<1> HIDE DEF k
<1>4. QED
  BY <1>2, <1>3 DEF SessionsKept

\* Nothing happens to a table.
LEMMA UnchangedKept ==
    ASSUME AccountsInv
    PROVE  /\ UNCHANGED account => AccountsKept
           /\ UNCHANGED sessions => SessionsKept
           /\ UNCHANGED invite => invite' \in [Invite -> {"fresh", "expired"} \cup User]
<1>1. UNCHANGED account => AccountsKept
  BY DEF AccountsInv, AccountsTypeOK, AccountsKept
<1>2. UNCHANGED sessions => SessionsKept
  BY SessionTypes DEF AccountsInv, AccountsTypeOK, SessionsKept
<1>3. UNCHANGED invite => invite' \in [Invite -> {"fresh", "expired"} \cup User]
  BY DEF AccountsInv, AccountsTypeOK
<1>4. QED
  BY <1>1, <1>2, <1>3

\* The tables start empty and the handlers idle.
LEMMA AccountsInvInit == AccountsInit => AccountsInv
BY EmptySeq DEF AccountsInit, AccountsInv, AccountsTypeOK, HandlerInv, HandlerSound, AccountRow,
    NoAccount, HandlerState, HandlerPC, IdleHandlerState

\* Every step of the handlers keeps the invariant.
LEMMA AccountsInvNext == ASSUME AccountsInv, [AccountsNext]_accountsVars PROVE AccountsInv'
<1> DEFINE InviteKept == invite' \in [Invite -> {"fresh", "expired"} \cup User]
<1>t. /\ account \in [User -> AccountRow]
      /\ invite \in [Invite -> {"fresh", "expired"} \cup User]
      /\ sessions \in Seq(SessionRow)
      /\ handler \in [Proc -> HandlerState]
      /\ \A p \in Proc : HandlerSound(handler[p])
      /\ \A s \in DOMAIN sessions : account[sessions[s].user].name # Nobody
  BY DEF AccountsInv, AccountsTypeOK, HandlerInv
<1>n. Len(sessions) \in Nat /\ DOMAIN sessions = 1..Len(sessions) /\ 0 \in 0..Len(sessions)
  BY <1>t, SessionTypes
<1>h. \A p \in Proc : handler[p].word \in Nat /\ handler[p].invite \in Invite \cup {Nobody}
  BY <1>t DEF HandlerState
<1>1. ASSUME NEW p \in Proc, NEW i \in Invite, RegisterLock(p, i) PROVE AccountsInv'
  <2>1. HandlerKept
    BY <1>1, <1>n, AwaitKept DEF RegisterLock, HandlerPC
  <2>2. QED
    BY <1>1, <2>1, UnchangedKept, AccountsInvStep DEF RegisterLock
<1>2. ASSUME NEW p \in Proc, NEW u \in User, NEW n \in Name, RegisterCommit(p, u, n)
      PROVE  AccountsInv'
  <2>1. AccountsKept /\ account'[u].name # Nobody
    BY <1>2, <1>t, <1>h, AccountsConstants DEF RegisterCommit, AccountRow, NoAccount, AccountsKept
  <2>2. HandlerKept
    BY <1>2, <1>n, <2>1, AwaitKept DEF RegisterCommit, HandlerPC
  <2>3. InviteKept
    BY <1>2, <1>t DEF RegisterCommit
  <2>4. QED
    BY <1>2, <2>1, <2>2, <2>3, UnchangedKept, AccountsInvStep DEF RegisterCommit
<1>3. ASSUME NEW p \in Proc,
             RegisterRollback(p) \/ LoginRefused(p) \/ RefreshRefused(p) \/ HandlerFails(p)
      PROVE  AccountsInv'
  BY <1>3, FinishKept, UnchangedKept, AccountsInvStep
  DEF RegisterRollback, LoginRefused, RefreshRefused, HandlerFails
<1>4. ASSUME NEW p \in Proc, RegisterSession(p) \/ LoginCommit(p) \/ RenameSession(p)
      PROVE  AccountsInv'
  <2>1. handler[p].user \in User /\ account[handler[p].user].name # Nobody
    BY <1>4, <1>t DEF RegisterSession, LoginCommit, RenameSession, HandlerSound
  <2>2. SessionsKept
    BY <1>4, <1>h, <2>1, NewSessionKept DEF RegisterSession, LoginCommit, RenameSession
  <2>3. HandlerKept
    BY <1>4, FinishKept DEF RegisterSession, LoginCommit, RenameSession
  <2>4. QED
    BY <1>4, <2>2, <2>3, UnchangedKept, AccountsInvStep
    DEF RegisterSession, LoginCommit, RenameSession
<1>5. ASSUME NEW p \in Proc, NEW u \in User, LoginVerify(p, u) \/ GrantFind(p, u)
      PROVE  AccountsInv'
  <2>1. account[u].password \in Nat
    BY <1>t DEF AccountRow
  <2>2. HandlerKept
    BY <1>5, <1>n, <2>1, AwaitKept DEF LoginVerify, GrantFind, HandlerPC, Exists
  <2>3. QED
    BY <1>5, <2>2, UnchangedKept, AccountsInvStep DEF LoginVerify, GrantFind
<1>6. ASSUME NEW p \in Proc, NEW s \in DOMAIN sessions, NEW t \in 0..MaxRefresh,
             RefreshCheck(p, s, t)
      PROVE  AccountsInv'
  <2>1. sessions[s].user \in User /\ s \in 0..Len(sessions) /\ s # 0 /\ t \in Nat
    BY <1>t, <1>n, SessionTypes, AccountsConstants
  <2>2. HandlerKept
    BY <1>6, <1>t, <2>1, AwaitKept DEF RefreshCheck, HandlerPC
  <2>3. QED
    BY <1>6, <2>2, UnchangedKept, AccountsInvStep DEF RefreshCheck
<1>7. ASSUME NEW p \in Proc, RefreshCommit(p) PROVE AccountsInv'
  <2> DEFINE s == handler[p].sid
             r == [sessions[s] EXCEPT !.refresh = @ + 1, !.accepted = Append(@, handler[p].word)]
  <2>1. s \in DOMAIN sessions
    BY <1>7, <1>t, <1>n DEF RefreshCommit, HandlerSound
  <2>2. sessions[s] \in SessionRow /\ sessions[s].refresh + 1 \in Nat
        /\ Append(sessions[s].accepted, handler[p].word) \in Seq(Nat)
    BY <1>t, <1>h, <2>1, SessionTypes, AppendProperties
  <2>3. r \in SessionRow /\ r.user = sessions[s].user
    BY <2>2 DEF SessionRow
  <2>4. sessions' = [sessions EXCEPT ![s] = r]
    <3>1. sessions' = [sessions EXCEPT ![s].refresh = @ + 1,
                                       ![s].accepted = Append(@, handler[p].word)]
      BY <1>7 DEF RefreshCommit
    <3>2. DOMAIN sessions' = DOMAIN sessions /\ sessions'[s] = r
      BY <2>1, <2>2, <3>1 DEF SessionRow
    <3>3. \A x \in DOMAIN sessions \ {s} : sessions'[x] = sessions[x]
      BY <3>1
    <3>4. sessions' = [x \in DOMAIN sessions |-> sessions'[x]]
      BY <3>1
    <3> HIDE DEF r
    <3>5. QED
      BY <3>2, <3>3, <3>4
  <2> HIDE DEF r
  <2>5. SessionsKept
    BY <2>1, <2>3, <2>4, ChangedKept
  <2>6. QED
    BY <1>7, <2>5, FinishKept, UnchangedKept, AccountsInvStep DEF RefreshCommit
<1>8. ASSUME NEW p \in Proc, NEW s \in DOMAIN sessions, BeginOwn(p, s) PROVE AccountsInv'
  <2>1. sessions[s].user \in User /\ s \in 0..Len(sessions) /\ s # 0
    BY <1>t, <1>n, SessionTypes
  <2>2. HandlerKept
    BY <1>8, <1>t, <2>1, AwaitKept DEF BeginOwn, HandlerPC
  <2>3. QED
    BY <1>8, <2>2, UnchangedKept, AccountsInvStep DEF BeginOwn
<1>9. ASSUME NEW p \in Proc, NEW n \in Name, RenameCommit(p, n) PROVE AccountsInv'
  <2> DEFINE u == handler[p].user
  <2>1. u \in User /\ handler[p].sid \in DOMAIN sessions /\ handler[p].sid \in 0..Len(sessions)
    BY <1>9, <1>t, <1>n DEF RenameCommit, HandlerSound
  <2>2. AccountsKept /\ account'[u].name # Nobody
    <3>1. account' = [account EXCEPT ![u].name = n] /\ n # Nobody
      BY <1>9, AccountsConstants DEF RenameCommit
    <3>2. account' \in [User -> AccountRow]
      BY <3>1, <1>t, <2>1 DEF AccountRow
    <3>3. account'[u].name = n /\ \A v \in User \ {u} : account'[v] = account[v]
      BY <3>1, <1>t, <2>1 DEF AccountRow
    <3>4. QED
      BY <3>1, <3>2, <3>3 DEF AccountsKept
  <2>3. sessions[handler[p].sid].password \in Nat /\ handler[p].sid # 0
    BY <1>t, <1>n, <2>1, SessionTypes
  <2>4. HandlerKept
    BY <1>9, <2>1, <2>2, <2>3, AwaitKept DEF RenameCommit, HandlerPC
  <2>5. SessionsKept
    BY <1>9, RevokedKept DEF RenameCommit
  <2>6. QED
    BY <1>9, <2>2, <2>4, <2>5, UnchangedKept, AccountsInvStep DEF RenameCommit
<1>10. ASSUME NEW p \in Proc, ChangeCompare(p) PROVE AccountsInv'
  <2>1. /\ handler[p].user \in User /\ account[handler[p].user].name # Nobody
        /\ handler[p].sid \in 0..Len(sessions) /\ handler[p].sid # 0
    BY <1>10, <1>t DEF ChangeCompare, HandlerSound
  <2>2. account[handler[p].user].password \in Nat
    BY <1>t, <2>1 DEF AccountRow
  <2>3. HandlerKept
    BY <1>10, <2>1, <2>2, AwaitKept DEF ChangeCompare, HandlerPC
  <2>4. QED
    BY <1>10, <2>3, UnchangedKept, AccountsInvStep DEF ChangeCompare
<1>11. ASSUME NEW u \in User, SetPassword(u) PROVE AccountsKept /\ SessionsKept
  <2>1. account[u].password \in Nat /\ account[u].password + 1 \in Nat
    BY <1>t DEF AccountRow
  <2>2. account' \in [User -> AccountRow]
    <3>0. account[u] \in AccountRow
      BY <1>t
    <3>1. PICK r : r = [account[u] EXCEPT !.password = account[u].password + 1]
      OBVIOUS
    <3>2. r \in AccountRow
      BY <3>0, <3>1, <2>1 DEF AccountRow
    <3>3. account' = [account EXCEPT ![u] = r]
      BY <1>11, <3>1 DEF SetPassword
    <3>4. account \in [User -> AccountRow]
      BY <1>t
    <3>5. QED
      BY <3>2, <3>3, <3>4
  <2>3. \A v \in User : account'[v].name = account[v].name
    BY <1>11, <1>t DEF SetPassword, AccountRow
  <2>4. QED
    BY <1>11, <2>2, <2>3, RevokedKept DEF SetPassword, AccountsKept
<1>12. ASSUME NEW p \in Proc, ChangeCommit(p) PROVE AccountsInv'
  <2>1. handler[p].user \in User
    BY <1>12, <1>t DEF ChangeCommit, HandlerSound
  <2>2. QED
    BY <1>12, <1>11, <2>1, FinishKept, UnchangedKept, AccountsInvStep DEF ChangeCommit
<1>13. ASSUME NEW p \in Proc, GrantWrite(p) PROVE AccountsInv'
  <2>1. handler[p].user \in User
    BY <1>13, <1>t DEF GrantWrite, HandlerSound
  <2>2. AccountsKept
    BY <1>13, <1>t, <2>1 DEF GrantWrite, AccountRow, AccountsKept
  <2>3. QED
    BY <1>13, <2>2, FinishKept, UnchangedKept, AccountsInvStep DEF GrantWrite
<1>14. ASSUME NEW i \in Invite, InviteExpires(i) PROVE AccountsInv'
  <2>1. InviteKept
    BY <1>14, <1>t DEF InviteExpires
  <2>2. HandlerKept
    BY <1>14 DEF InviteExpires, HandlerKept
  <2>3. QED
    BY <1>14, <2>1, <2>2, UnchangedKept, AccountsInvStep DEF InviteExpires
<1>15. ASSUME NEW s \in DOMAIN sessions, SessionExpires(s) \/ Logout(s) PROVE AccountsInv'
  <2>1. PICK x \in {"expired", "revoked"} : sessions' = [sessions EXCEPT ![s].state = x]
    BY <1>15 DEF SessionExpires, Logout
  <2> DEFINE r == [sessions[s] EXCEPT !.state = x]
  <2>2. sessions[s] \in SessionRow
    BY <1>t, SessionTypes
  <2>3. r \in SessionRow /\ r.user = sessions[s].user
    BY <2>2 DEF SessionRow
  <2>4. sessions' = [sessions EXCEPT ![s] = r]
    BY <2>1
  <2> HIDE DEF r
  <2>5. SessionsKept
    BY <2>3, <2>4, ChangedKept
  <2>6. HandlerKept
    BY <1>15 DEF SessionExpires, Logout, HandlerKept
  <2>7. QED
    BY <1>15, <2>5, <2>6, UnchangedKept, AccountsInvStep DEF SessionExpires, Logout
<1>16. ASSUME NEW u \in User, AdminPassword(u) PROVE AccountsInv'
  <2>1. HandlerKept
    BY <1>16 DEF AdminPassword, HandlerKept
  <2>2. QED
    BY <1>16, <1>11, <2>1, UnchangedKept, AccountsInvStep DEF AdminPassword
<1>17. ASSUME NEW u \in User, NEW n \in Name \cup {Nobody}, NEW st \in 0..2,
              AdminUpdateUser(u, n, st)
       PROVE  AccountsInv'
  <2>1. AccountsKept
    <3>1. account[u] \in AccountRow
      BY <1>t
    <3> DEFINE nm == IF n = Nobody THEN account[u].name ELSE n
               sx == IF st = 2 THEN account[u].status ELSE st
               bs == IF st = 0 THEN account[u].bans + 1 ELSE account[u].bans
               a == [account[u] EXCEPT !.name = nm, !.status = sx, !.bans = bs]
    <3>a. nm \in Name \cup {Nobody} /\ sx \in {0, 1} /\ bs \in Nat
      BY <3>1 DEF AccountRow
    <3>b. account'[u] = a
      BY <1>17, <1>t, <3>1 DEF AdminUpdateUser, AccountRow
    <3>c. account[u].name # Nobody => nm # Nobody
      OBVIOUS
    <3> HIDE DEF nm, sx, bs
    <3>d. a \in AccountRow /\ a.name = nm
      BY <3>1, <3>a DEF AccountRow
    <3>2. account'[u] \in AccountRow /\ (account[u].name # Nobody => account'[u].name # Nobody)
      BY <3>b, <3>c, <3>d
    <3>3. \A v \in User \ {u} : account'[v] = account[v]
      BY <1>17, <1>t DEF AdminUpdateUser
    <3>4. account' = [v \in User |-> account'[v]]
      BY <1>17, <1>t DEF AdminUpdateUser
    <3>5. QED
      BY <1>t, <3>2, <3>3, <3>4 DEF AccountsKept
  <2>2. SessionsKept
    BY <1>17, RevokedKept, UnchangedKept DEF AdminUpdateUser
  <2>3. HandlerKept
    BY <1>17 DEF AdminUpdateUser, HandlerKept
  <2>4. QED
    BY <1>17, <2>1, <2>2, <2>3, UnchangedKept, AccountsInvStep DEF AdminUpdateUser
<1>18. CASE UNCHANGED accountsVars
  BY <1>18, UnchangedKept, AccountsInvStep DEF accountsVars, HandlerKept
<1>19. QED
  BY AccountsCases, <1>1, <1>2, <1>3, <1>4, <1>5, <1>6, <1>7, <1>8, <1>9, <1>10, <1>12, <1>13,
     <1>14, <1>15, <1>16, <1>17, <1>18

\* Every reachable state of the account tables is well typed: a session belongs
\* to an account that exists, and a handler names sessions that were made.
THEOREM AccountsTyped == AccountsSpec => []AccountsTypeOK
<1>1. AccountsSpec => []AccountsInv
  BY AccountsInvInit, AccountsInvNext, PTL DEF AccountsSpec
<1>2. AccountsInv => AccountsTypeOK
  BY DEF AccountsInv
<1>3. QED
  BY <1>1, <1>2, PTL

-----------------------------------------------------------------------------
(* Invitations.                                                            *)

InviteInv == InvitingInv /\ MadeInv /\ InviteOnce

\* What a step that takes or uses no invitation leaves alone.
InvitesQuiet ==
    /\ UNCHANGED invite
    /\ \A u \in User : /\ account'[u].by = account[u].by
                       /\ account[u].name # Nobody => account'[u].name # Nobody
    /\ \A p \in Proc : handler'[p].pc = "inviting" =>
          handler[p].pc = "inviting" /\ handler'[p].invite = handler[p].invite

\* A handler that is set to a state other than "inviting" takes no invitation.
LEMMA HandlerQuiet ==
    ASSUME AccountsInv, NEW p \in Proc, NEW h, handler' = [handler EXCEPT ![p] = h],
           h.pc # "inviting"
    PROVE  \A q \in Proc : handler'[q].pc = "inviting" =>
              handler[q].pc = "inviting" /\ handler'[q].invite = handler[q].invite
BY DEF AccountsInv, AccountsTypeOK

\* The same, for the two ways the actions say it.
LEMMA FinishQuiet ==
    ASSUME AccountsInv, NEW p \in Proc, Finish(p)
    PROVE  \A q \in Proc : handler'[q].pc = "inviting" =>
              handler[q].pc = "inviting" /\ handler'[q].invite = handler[q].invite
<1>1. IdleHandlerState.pc # "inviting"
  BY DEF IdleHandlerState
<1>2. QED
  BY <1>1, HandlerQuiet DEF Finish

\* A handler that goes on to wait for something else than an invitation takes none.
LEMMA AwaitQuiet ==
    ASSUME AccountsInv, NEW p \in Proc, NEW pc, pc # "inviting", NEW u, NEW i, NEW word, NEW sid,
           Await(p, pc, u, i, word, sid)
    PROVE  \A q \in Proc : handler'[q].pc = "inviting" =>
              handler[q].pc = "inviting" /\ handler'[q].invite = handler[q].invite
<1> DEFINE h == [pc |-> pc, user |-> u, invite |-> i, word |-> word, sid |-> sid]
<1>1. h.pc # "inviting"
  OBVIOUS
<1>2. handler' = [handler EXCEPT ![p] = h]
  BY DEF Await
<1> HIDE DEF h
<1>3. QED
  BY <1>1, <1>2, HandlerQuiet

\* A quiet step keeps the invariant of the invitations.
LEMMA InvitesQuietKeeps ==
    ASSUME InviteInv, InvitesQuiet
    PROVE  InviteInv'
<1>1. InvitingInv'
  BY DEF InviteInv, InvitingInv, InvitesQuiet
<1>2. MadeInv'
  BY DEF InviteInv, MadeInv, InvitesQuiet
<1>3. InviteOnce'
  BY DEF InviteInv, InviteOnce, InvitesQuiet
<1>4. QED
  BY <1>1, <1>2, <1>3 DEF InviteInv

\* What a step may do to the row of an account that is not being registered:
\* whoever changes its password or disables it revokes its sessions.
AccountMoved(u) ==
    /\ account[u].name # Nobody
    /\ account'[u].name # Nobody
    /\ account'[u].by = account[u].by
    /\ \/ sessions' = RevokeSessions(u)
       \/ /\ account'[u].password = account[u].password
          /\ account'[u].bans = account[u].bans
          /\ account'[u].status = account[u].status \/ account'[u].status = 1

\* Every step moves at most one account, in that way or by registering it.
LEMMA AccountMoves ==
    ASSUME AccountsInv, AccountsNext, NEW v \in User
    PROVE  \/ account'[v] = account[v]
           \/ \E p \in Proc, n \in Name : RegisterCommit(p, v, n)
           \/ AccountMoved(v)
<1>t. /\ account \in [User -> AccountRow]
      /\ handler \in [Proc -> HandlerState]
      /\ \A p \in Proc : HandlerSound(handler[p])
  BY DEF AccountsInv, AccountsTypeOK, HandlerInv
<1>1. ASSUME NEW p \in Proc, NEW u \in User, NEW n \in Name, RegisterCommit(p, u, n), u # v
      PROVE  account'[v] = account[v]
  BY <1>1, <1>t DEF RegisterCommit
<1>2. ASSUME NEW p \in Proc, NEW n \in Name, RenameCommit(p, n)
      PROVE  account'[v] = account[v] \/ AccountMoved(v)
  <2>1. handler[p].user \in User /\ account[handler[p].user].name # Nobody
    BY <1>2, <1>t DEF RenameCommit, HandlerSound
  <2>2. /\ account' = [account EXCEPT ![handler[p].user].name = n] /\ n # Nobody
        /\ sessions' = RevokeSessions(handler[p].user)
    BY <1>2, AccountsConstants DEF RenameCommit
  <2>3. CASE v = handler[p].user
    <3>1. account'[v].name = n /\ account'[v].by = account[v].by
      BY <1>t, <2>2, <2>3 DEF AccountRow
    <3>2. QED
      BY <2>1, <2>2, <2>3, <3>1 DEF AccountMoved
  <2>4. CASE v # handler[p].user
    BY <1>t, <2>2, <2>4
  <2>5. QED
    BY <2>3, <2>4
<1>3. ASSUME NEW u \in User, account[u].name # Nobody, SetPassword(u)
      PROVE  account'[v] = account[v] \/ AccountMoved(v)
  <2>1. account' = [account EXCEPT ![u].password = @ + 1] /\ sessions' = RevokeSessions(u)
    BY <1>3 DEF SetPassword
  <2>2. CASE v = u
    <3>1. account'[v].name = account[v].name /\ account'[v].by = account[v].by
      BY <1>t, <2>1, <2>2 DEF AccountRow
    <3>2. QED
      BY <1>3, <2>1, <2>2, <3>1 DEF AccountMoved
  <2>3. CASE v # u
    BY <1>t, <2>1, <2>3
  <2>4. QED
    BY <2>2, <2>3
<1>4. ASSUME NEW p \in Proc, ChangeCommit(p)
      PROVE  account'[v] = account[v] \/ AccountMoved(v)
  <2>1. handler[p].user \in User /\ account[handler[p].user].name # Nobody
    BY <1>4, <1>t DEF ChangeCommit, HandlerSound
  <2>2. QED
    BY <1>4, <2>1, <1>3 DEF ChangeCommit
<1>5. ASSUME NEW p \in Proc, GrantWrite(p)
      PROVE  account'[v] = account[v] \/ AccountMoved(v)
  <2>1. handler[p].user \in User /\ account[handler[p].user].name # Nobody
    BY <1>5, <1>t DEF GrantWrite, HandlerSound
  <2>2. account' = [account EXCEPT ![handler[p].user].role = "admin"]
    BY <1>5 DEF GrantWrite
  <2>3. CASE v = handler[p].user
    <3>1. /\ account'[v].name = account[v].name /\ account'[v].by = account[v].by
          /\ account'[v].password = account[v].password /\ account'[v].bans = account[v].bans
          /\ account'[v].status = account[v].status
      BY <1>t, <2>2, <2>3 DEF AccountRow
    <3>2. QED
      BY <2>1, <2>3, <3>1 DEF AccountMoved
  <2>4. CASE v # handler[p].user
    BY <1>t, <2>2, <2>4
  <2>5. QED
    BY <2>3, <2>4
<1>6. ASSUME NEW u \in User, NEW n \in Name \cup {Nobody}, NEW st \in 0..2,
             AdminUpdateUser(u, n, st)
      PROVE  account'[v] = account[v] \/ AccountMoved(v)
  <2>1. /\ account[u].name # Nobody
        /\ account' = [account EXCEPT ![u].name = IF n = Nobody THEN @ ELSE n,
                                      ![u].status = IF st = 2 THEN @ ELSE st,
                                      ![u].bans = IF st = 0 THEN @ + 1 ELSE @]
        /\ st = 0 => sessions' = RevokeSessions(u)
    BY <1>6 DEF AdminUpdateUser, Exists
  <2>2. CASE v = u
    <3>1. /\ account'[v].name = (IF n = Nobody THEN account[v].name ELSE n)
          /\ account'[v].by = account[v].by
          /\ account'[v].password = account[v].password
          /\ account'[v].bans = (IF st = 0 THEN account[v].bans + 1 ELSE account[v].bans)
          /\ account'[v].status = (IF st = 2 THEN account[v].status ELSE st)
      BY <1>t, <2>1, <2>2 DEF AccountRow
    <3>2. st = 0 \/ account'[v].status = account[v].status \/ account'[v].status = 1
      BY <3>1
    <3>3. QED
      BY <2>1, <2>2, <3>1, <3>2 DEF AccountMoved
  <2>3. CASE v # u
    BY <1>t, <2>1, <2>3
  <2>4. QED
    BY <2>2, <2>3
<1>7. ASSUME UNCHANGED account PROVE account'[v] = account[v]
  BY <1>7
<1>8. ASSUME NEW u \in User, AdminPassword(u)
      PROVE  account'[v] = account[v] \/ AccountMoved(v)
  BY <1>8, <1>3 DEF AdminPassword, Exists
<1>9. QED
  BY AccountsCases, <1>1, <1>2, <1>4, <1>5, <1>6, <1>7, <1>8
  DEF RegisterLock, RegisterRollback, RegisterSession, LoginVerify, GrantFind, LoginCommit,
      LoginRefused, RefreshCheck, RefreshCommit, RefreshRefused, BeginOwn, RenameSession,
      ChangeCompare, HandlerFails, InviteExpires, SessionExpires, Logout

\* Every step but the three that take, use or expire an invitation is quiet.
LEMMA InvitesQuietStep ==
    ASSUME AccountsInv, AccountsNext,
           \A p \in Proc, i \in Invite : ~RegisterLock(p, i),
           \A p \in Proc, u \in User, n \in Name : ~RegisterCommit(p, u, n),
           \A i \in Invite : ~InviteExpires(i)
    PROVE  InvitesQuiet
<1>1. \A u \in User : /\ account'[u].by = account[u].by
                      /\ account[u].name # Nobody => account'[u].name # Nobody
  BY AccountMoves DEF AccountMoved
<1> DEFINE Quiet == \A q \in Proc : handler'[q].pc = "inviting" =>
                       handler[q].pc = "inviting" /\ handler'[q].invite = handler[q].invite
<1>2. ASSUME NEW p \in Proc, Finish(p) PROVE Quiet
  BY <1>2, FinishQuiet
<1>3. ASSUME NEW p \in Proc, NEW u, NEW i, NEW word, NEW sid,
             NEW pc \in {"registered", "verified", "granting", "signed", "authed", "renamed",
                         "compared"},
             Await(p, pc, u, i, word, sid)
      PROVE  Quiet
  BY <1>3, AwaitQuiet
<1>4. ASSUME UNCHANGED handler PROVE Quiet
  BY <1>4
<1> HIDE DEF Quiet
<1>5. ASSUME NEW p \in Proc, RegisterRollback(p) \/ RegisterSession(p) \/ LoginCommit(p)
                \/ LoginRefused(p) \/ RefreshCommit(p) \/ RefreshRefused(p) \/ RenameSession(p)
                \/ ChangeCommit(p) \/ GrantWrite(p) \/ HandlerFails(p)
      PROVE  Quiet /\ UNCHANGED invite
  BY <1>5, <1>2 DEF RegisterRollback, RegisterSession, LoginCommit, LoginRefused, RefreshCommit,
     RefreshRefused, RenameSession, ChangeCommit, GrantWrite, HandlerFails
<1>6. ASSUME NEW p \in Proc, NEW u \in User, LoginVerify(p, u) \/ GrantFind(p, u)
      PROVE  Quiet /\ UNCHANGED invite
  BY <1>6, <1>3 DEF LoginVerify, GrantFind
<1>7. ASSUME NEW p \in Proc, NEW s \in DOMAIN sessions, NEW t \in 0..MaxRefresh,
             RefreshCheck(p, s, t)
      PROVE  Quiet /\ UNCHANGED invite
  BY <1>7, <1>3 DEF RefreshCheck
<1>8. ASSUME NEW p \in Proc, NEW s \in DOMAIN sessions, BeginOwn(p, s)
      PROVE  Quiet /\ UNCHANGED invite
  BY <1>8, <1>3 DEF BeginOwn
<1>9. ASSUME NEW p \in Proc, NEW n \in Name, RenameCommit(p, n) PROVE Quiet /\ UNCHANGED invite
  BY <1>9, <1>3 DEF RenameCommit
<1>10. ASSUME NEW p \in Proc, ChangeCompare(p) PROVE Quiet /\ UNCHANGED invite
  BY <1>10, <1>3 DEF ChangeCompare
<1>11. ASSUME NEW s \in DOMAIN sessions, SessionExpires(s) \/ Logout(s)
       PROVE  Quiet /\ UNCHANGED invite
  BY <1>11, <1>4 DEF SessionExpires, Logout
<1>12. ASSUME NEW u \in User, AdminPassword(u) PROVE Quiet /\ UNCHANGED invite
  BY <1>12, <1>4 DEF AdminPassword
<1>13. ASSUME NEW u \in User, NEW n \in Name \cup {Nobody}, NEW st \in 0..2,
              AdminUpdateUser(u, n, st)
       PROVE  Quiet /\ UNCHANGED invite
  BY <1>13, <1>4 DEF AdminUpdateUser
<1>14. Quiet /\ UNCHANGED invite
  BY AccountsCases, <1>5, <1>6, <1>7, <1>8, <1>9, <1>10, <1>11, <1>12, <1>13
<1>15. QED
  BY <1>1, <1>14 DEF Quiet, InvitesQuiet

\* Nothing is used before the first registration.
LEMMA InviteInvInit == AccountsInit => InviteInv
<1> SUFFICES ASSUME AccountsInit PROVE InviteInv
  OBVIOUS
<1>1. \A p \in Proc : handler[p].pc = "idle"
  BY DEF AccountsInit, IdleHandlerState
<1>2. \A u \in User : account[u].by = Nobody
  BY DEF AccountsInit, NoAccount
<1>3. \A i \in Invite : invite[i] = "fresh" /\ i # Nobody /\ "fresh" \notin User
  BY AccountsConstants DEF AccountsInit
<1>4. QED
  BY <1>1, <1>2, <1>3 DEF InviteInv, InvitingInv, MadeInv, InviteOnce

\* Every step keeps it: the registration that commits holds the lock, so no
\* other can be about to use the same invitation.
LEMMA InviteInvNext ==
    ASSUME AccountsInv, InviteInv, [AccountsNext]_accountsVars
    PROVE  InviteInv'
<1>t. /\ account \in [User -> AccountRow]
      /\ invite \in [Invite -> {"fresh", "expired"} \cup User]
      /\ handler \in [Proc -> HandlerState]
  BY DEF AccountsInv, AccountsTypeOK
<1>1. ASSUME NEW p \in Proc, NEW i \in Invite, RegisterLock(p, i) PROVE InviteInv'
  <2> DEFINE h == [pc |-> "inviting", user |-> Nobody, invite |-> i, word |-> 0, sid |-> 0]
  <2>1. handler' = [handler EXCEPT ![p] = h] /\ UNCHANGED <<account, invite, sessions>>
        /\ invite[i] = "fresh"
        /\ \A q \in Proc : ~(handler[q].pc = "inviting" /\ handler[q].invite = i)
    BY <1>1 DEF RegisterLock, Await, InviteFree
  <2>2. h.pc = "inviting" /\ h.invite = i
    OBVIOUS
  <2> HIDE DEF h
  <2>3. handler'[p] = h /\ \A q \in Proc \ {p} : handler'[q] = handler[q]
    BY <1>t, <2>1
  <2>4. InvitingInv'
    BY <2>1, <2>2, <2>3 DEF InviteInv, InvitingInv
  <2>5. QED
    BY <2>1, <2>4 DEF InviteInv, MadeInv, InviteOnce
<1>2. ASSUME NEW p \in Proc, NEW u \in User, NEW n \in Name, RegisterCommit(p, u, n)
      PROVE  InviteInv'
  <2> DEFINE i == handler[p].invite
             a == [NoAccount EXCEPT !.name = n, !.password = 1, !.by = i]
             h == [pc |-> "registered", user |-> u, invite |-> Nobody, word |-> 1, sid |-> 0]
  <2>1. /\ handler[p].pc = "inviting" /\ account[u].name = Nobody
        /\ account' = [account EXCEPT ![u] = a]
        /\ invite' = [invite EXCEPT ![i] = u]
        /\ handler' = [handler EXCEPT ![p] = h]
    BY <1>2 DEF RegisterCommit, Await, Exists
  <2>2. i \in Invite /\ invite[i] = "fresh" /\ account[u].by = Nobody
    BY <2>1 DEF InviteInv, InvitingInv, MadeInv
  <2>3. h.pc # "inviting" /\ a.name = n /\ a.by = i /\ n # Nobody
    BY AccountsConstants DEF NoAccount
  <2>4. \A j \in Invite : j # Nobody
    BY AccountsConstants
  <2>5. "fresh" \notin User
    BY AccountsConstants
  <2> HIDE DEF i, a, h
  <2>6. /\ account'[u] = a /\ \A v \in User \ {u} : account'[v] = account[v]
        /\ invite'[i] = u /\ \A j \in Invite \ {i} : invite'[j] = invite[j]
        /\ handler'[p] = h /\ \A q \in Proc \ {p} : handler'[q] = handler[q]
    BY <1>t, <2>1, <2>2
  <2>7. InvitingInv'
    <3>1. ASSUME NEW q \in Proc, handler'[q].pc = "inviting"
          PROVE  /\ handler'[q] = handler[q] /\ q # p
                 /\ handler[q].invite \in Invite /\ handler[q].invite # i
                 /\ invite'[handler[q].invite] = "fresh"
      BY <2>1, <2>3, <2>6, <3>1 DEF InviteInv, InvitingInv, i
    <3>2. QED
      BY <3>1 DEF InviteInv, InvitingInv
  <2>8. MadeInv'
    BY <2>3, <2>6 DEF InviteInv, MadeInv
  <2>9. InviteOnce'
    BY <2>2, <2>3, <2>4, <2>5, <2>6 DEF InviteInv, InviteOnce
  <2>10. QED
    BY <2>7, <2>8, <2>9 DEF InviteInv
<1>3. ASSUME NEW i \in Invite, InviteExpires(i) PROVE InviteInv'
  <2>1. /\ invite[i] = "fresh" /\ invite' = [invite EXCEPT ![i] = "expired"]
        /\ \A p \in Proc : handler[p].invite # i
        /\ UNCHANGED <<account, sessions, handler>>
    BY <1>3 DEF InviteExpires
  <2>2. invite'[i] = "expired" /\ \A j \in Invite \ {i} : invite'[j] = invite[j]
    BY <1>t, <2>1
  <2>3. "fresh" \notin User /\ "expired" \notin User
    BY AccountsConstants
  <2>4. QED
    BY <2>1, <2>2, <2>3 DEF InviteInv, InvitingInv, MadeInv, InviteOnce
<1>4. CASE UNCHANGED accountsVars
  BY <1>4 DEF accountsVars, InviteInv, InvitingInv, MadeInv, InviteOnce
<1>5. QED
  BY <1>1, <1>2, <1>3, <1>4, InvitesQuietStep, InvitesQuietKeeps

\* One invitation makes one account, however many registrations race for it:
\* the SELECT ... FOR UPDATE of register is enough.
THEOREM InvitationsOnce == AccountsSpec => []InviteOnce
<1>1. AccountsSpec => [](AccountsInv /\ InviteInv)
  BY AccountsInvInit, AccountsInvNext, InviteInvInit, InviteInvNext, PTL DEF AccountsSpec
<1>2. InviteInv => InviteOnce
  BY DEF InviteInv
<1>3. QED
  BY <1>1, <1>2, PTL

-----------------------------------------------------------------------------
(* Sessions.                                                               *)

\* The five things a step may do to the sessions table.
LEMMA SessionMoves ==
    ASSUME AccountsInv, AccountsNext
    PROVE  \/ UNCHANGED sessions
           \/ \E u \in User : sessions' = RevokeSessions(u)
           \/ \E u \in User, via \in {"register", "login", "rename"}, password \in Nat :
                 /\ NewSession(u, via, password)
                 /\ via = "login" => LoginStillGood(u, password)
                 /\ UNCHANGED account
           \/ \E s \in DOMAIN sessions, x \in {"expired", "revoked"} :
                 sessions' = [sessions EXCEPT ![s].state = x]
           \/ \E s \in DOMAIN sessions :
                 sessions' = [sessions EXCEPT ![s].refresh = @ + 1,
                                              ![s].accepted = Append(@, sessions[s].refresh)]
<1>t. /\ \A p \in Proc : HandlerSound(handler[p]) /\ handler[p].word \in Nat
      /\ sessions \in Seq(SessionRow)
  BY DEF AccountsInv, AccountsTypeOK, HandlerInv, HandlerState
<1>n. Len(sessions) \in Nat /\ DOMAIN sessions = 1..Len(sessions)
  BY <1>t, SessionTypes
<1>1. ASSUME NEW p \in Proc, RegisterSession(p) \/ LoginCommit(p) \/ RenameSession(p)
      PROVE  \E u \in User, via \in {"register", "login", "rename"}, password \in Nat :
                /\ NewSession(u, via, password)
                /\ via = "login" => LoginStillGood(u, password)
                /\ UNCHANGED account
  <2>1. handler[p].user \in User
    BY <1>1, <1>t DEF RegisterSession, LoginCommit, RenameSession, HandlerSound
  <2>2. CASE RegisterSession(p)
    BY <2>1, <2>2, <1>t DEF RegisterSession
  <2>3. CASE LoginCommit(p)
    BY <2>1, <2>3, <1>t DEF LoginCommit
  <2>4. CASE RenameSession(p)
    BY <2>1, <2>4, <1>t DEF RenameSession
  <2>5. QED
    BY <1>1, <2>2, <2>3, <2>4
<1>2. ASSUME NEW p \in Proc, RefreshCommit(p)
      PROVE  \E s \in DOMAIN sessions :
                 sessions' = [sessions EXCEPT ![s].refresh = @ + 1,
                                              ![s].accepted = Append(@, sessions[s].refresh)]
  <2>1. handler[p].sid \in DOMAIN sessions
    BY <1>2, <1>t, <1>n DEF RefreshCommit, HandlerSound
  <2>2. QED
    BY <1>2, <2>1 DEF RefreshCommit, RefreshAccepts
<1>3. ASSUME NEW p \in Proc, NEW n \in Name, RenameCommit(p, n)
      PROVE  \E u \in User : sessions' = RevokeSessions(u)
  BY <1>3, <1>t DEF RenameCommit, HandlerSound
<1>4. ASSUME NEW p \in Proc, ChangeCommit(p)
      PROVE  \E u \in User : sessions' = RevokeSessions(u)
  BY <1>4, <1>t DEF ChangeCommit, SetPassword, HandlerSound
<1>5. ASSUME NEW s \in DOMAIN sessions, SessionExpires(s) \/ Logout(s)
      PROVE  \E x \in {"expired", "revoked"} : sessions' = [sessions EXCEPT ![s].state = x]
  BY <1>5 DEF SessionExpires, Logout
<1>6. ASSUME NEW u \in User, AdminPassword(u) PROVE sessions' = RevokeSessions(u)
  BY <1>6 DEF AdminPassword, SetPassword
<1>7. ASSUME NEW u \in User, NEW n \in Name \cup {Nobody}, NEW st \in 0..2,
             AdminUpdateUser(u, n, st)
      PROVE  UNCHANGED sessions \/ sessions' = RevokeSessions(u)
  BY <1>7 DEF AdminUpdateUser
<1>8. QED
  BY AccountsCases, <1>1, <1>2, <1>3, <1>4, <1>5, <1>6, <1>7
  DEF RegisterLock, RegisterCommit, RegisterRollback, LoginVerify, GrantFind, LoginRefused,
      RefreshCheck, RefreshRefused, BeginOwn, ChangeCompare, GrantWrite, HandlerFails,
      InviteExpires

\* What becomes of one row: what it records stays, a session that is not live
\* never lives again, and the refresh token moves on by exactly the one accepted.
RowMoved(s) ==
    /\ sessions'[s].user = sessions[s].user
    /\ sessions'[s].via = sessions[s].via
    /\ sessions'[s].password = sessions[s].password
    /\ sessions'[s].bans = sessions[s].bans
    /\ sessions'[s].state = "live" => sessions[s].state = "live"
    /\ \/ /\ sessions'[s].refresh = sessions[s].refresh
          /\ sessions'[s].accepted = sessions[s].accepted
       \/ /\ sessions'[s].refresh = sessions[s].refresh + 1
          /\ sessions'[s].accepted = Append(sessions[s].accepted, sessions[s].refresh)

\* And of one that is made.
RowMade(s) ==
    /\ sessions'[s].user \in User
    /\ sessions'[s].accepted = <<>>
    /\ sessions'[s].bans = account[sessions'[s].user].bans
    /\ sessions'[s].via = "login" => LoginStillGood(sessions'[s].user, sessions'[s].password)
    /\ UNCHANGED account

\* A step rewrites a session row in the ways the handlers may, or makes a new one.
LEMMA RowMoves ==
    ASSUME AccountsInv, AccountsNext, NEW s \in DOMAIN sessions'
    PROVE  IF s \in DOMAIN sessions THEN RowMoved(s) ELSE RowMade(s)
<1>t. sessions \in Seq(SessionRow) /\ AccountsTypeOK
  BY DEF AccountsInv, AccountsTypeOK
<1>n. /\ Len(sessions) \in Nat /\ DOMAIN sessions = 1..Len(sessions)
      /\ \A x \in DOMAIN sessions : sessions[x] \in SessionRow
  BY <1>t, SessionTypes
<1>1. CASE UNCHANGED sessions
  BY <1>1 DEF RowMoved
<1>2. ASSUME NEW u \in User, sessions' = RevokeSessions(u)
      PROVE  s \in DOMAIN sessions /\ RowMoved(s)
  BY <1>2, <1>t, RevokedRows DEF RowMoved
<1>3. ASSUME NEW u \in User, NEW via \in {"register", "login", "rename"}, NEW password \in Nat,
             NewSession(u, via, password), via = "login" => LoginStillGood(u, password),
             UNCHANGED account
      PROVE  IF s \in DOMAIN sessions THEN RowMoved(s) ELSE RowMade(s)
  <2> DEFINE r == [user |-> u, state |-> "live", refresh |-> 0, via |-> via,
                   password |-> password, bans |-> account[u].bans, accepted |-> <<>>]
  <2>1. /\ DOMAIN sessions' = DOMAIN sessions \cup {Len(sessions) + 1}
        /\ \A x \in DOMAIN sessions : sessions'[x] = sessions[x]
        /\ sessions'[Len(sessions) + 1] = r
    BY <1>3, <1>t, NewSessionRows
  <2>2. CASE s \in DOMAIN sessions
    BY <2>1, <2>2 DEF RowMoved
  <2>3. CASE s \notin DOMAIN sessions
    <3>1. sessions'[s] = r
      BY <2>1, <2>3
    <3>2. /\ sessions'[s].user = u /\ sessions'[s].accepted = <<>>
          /\ sessions'[s].bans = account[u].bans /\ sessions'[s].via = via
          /\ sessions'[s].password = password
      BY <3>1
    <3>3. QED
      BY <1>3, <2>3, <3>2 DEF RowMade
  <2>4. QED
    BY <2>2, <2>3
<1>4. ASSUME NEW x \in DOMAIN sessions, NEW y \in {"expired", "revoked"},
             sessions' = [sessions EXCEPT ![x].state = y]
      PROVE  s \in DOMAIN sessions /\ RowMoved(s)
  BY <1>4, <1>n DEF RowMoved, SessionRow
<1>5. ASSUME NEW x \in DOMAIN sessions,
             sessions' = [sessions EXCEPT ![x].refresh = @ + 1,
                                          ![x].accepted = Append(@, sessions[x].refresh)]
      PROVE  s \in DOMAIN sessions /\ RowMoved(s)
  <2>1. DOMAIN sessions' = DOMAIN sessions
    BY <1>5
  <2>2. CASE s # x
    BY <1>5, <2>1, <2>2 DEF RowMoved
  <2>3. CASE s = x
    BY <1>5, <1>n, <2>1, <2>3 DEF RowMoved, SessionRow
  <2>4. QED
    BY <2>2, <2>3
<1>6. QED
  BY SessionMoves, <1>1, <1>2, <1>3, <1>4, <1>5

\* The tokens accepted so far are all older than the next.
LEMMA TokensNext ==
    ASSUME AccountsInv, AccountsInv', TokenInv, RefreshOnce, [AccountsNext]_accountsVars
    PROVE  TokenInv' /\ RefreshOnce'
<1>1. CASE UNCHANGED accountsVars
  BY <1>1 DEF accountsVars, TokenInv, RefreshOnce
<1>2. CASE AccountsNext
  <2> SUFFICES ASSUME NEW s \in DOMAIN sessions'
               PROVE  /\ \A i \in DOMAIN sessions'[s].accepted :
                            sessions'[s].accepted[i] < sessions'[s].refresh
                      /\ \A i, j \in DOMAIN sessions'[s].accepted :
                            sessions'[s].accepted[i] = sessions'[s].accepted[j] => i = j
    BY DEF TokenInv, RefreshOnce
  <2>1. CASE s \notin DOMAIN sessions
    <3>1. sessions'[s].accepted = <<>>
      BY <1>2, <2>1, RowMoves DEF RowMade
    <3>2. DOMAIN sessions'[s].accepted = {}
      BY <3>1
    <3>3. QED
      BY <3>2
  <2>2. CASE s \in DOMAIN sessions
    <3> DEFINE A == sessions[s].accepted
               r == sessions[s].refresh
    <3>1. A \in Seq(Nat) /\ r \in Nat
      BY <2>2, SessionTypes DEF AccountsInv, AccountsTypeOK
    <3>2. /\ \A i \in DOMAIN A : A[i] < r
          /\ \A i, j \in DOMAIN A : A[i] = A[j] => i = j
      BY <2>2 DEF TokenInv, RefreshOnce
    <3>3. \/ sessions'[s].refresh = r /\ sessions'[s].accepted = A
          \/ sessions'[s].refresh = r + 1 /\ sessions'[s].accepted = Append(A, r)
      BY <1>2, <2>2, RowMoves DEF RowMoved
    <3> HIDE DEF A, r
    <3>4. CASE sessions'[s].refresh = r /\ sessions'[s].accepted = A
      BY <3>2, <3>4
    <3>5. CASE sessions'[s].refresh = r + 1 /\ sessions'[s].accepted = Append(A, r)
      <4> DEFINE B == Append(A, r)
                 n == Len(A)
      <4>1. /\ n \in Nat /\ DOMAIN A = 1..n /\ DOMAIN B = 1..(n + 1)
            /\ B[n + 1] = r /\ \A i \in 1..n : B[i] = A[i] /\ A[i] \in Nat
        BY <3>1, AppendProperties, LenProperties, ElementOfSeq
      <4> HIDE DEF B, n
      <4>2. \A i \in DOMAIN B : B[i] < r + 1
        BY <3>1, <3>2, <4>1
      <4>3. \A i, j \in DOMAIN B : B[i] = B[j] => i = j
        BY <3>1, <3>2, <4>1
      <4>4. QED
        BY <3>5, <4>2, <4>3 DEF B
    <3>6. QED
      BY <3>3, <3>4, <3>5
  <2>3. QED
    BY <2>1, <2>2
<1>3. QED
  BY <1>1, <1>2

\* A refresh token is accepted once, whatever the interleaving of refreshes with
\* the same cookie: the UPDATE of refresh compares the hash it replaces.
THEOREM TokensAcceptedOnce == AccountsSpec => []RefreshOnce
<1>1. AccountsInit => TokenInv /\ RefreshOnce
  BY DEF AccountsInit, TokenInv, RefreshOnce
<1>2. AccountsSpec => []AccountsInv
  BY AccountsInvInit, AccountsInvNext, PTL DEF AccountsSpec
<1>3. QED
  BY <1>1, <1>2, TokensNext, PTL DEF AccountsSpec

\* A step keeps the sessions of logins current.
LEMMA LoginsNext ==
    ASSUME AccountsInv, LoginSessionsCurrent, [AccountsNext]_accountsVars
    PROVE  LoginSessionsCurrent'
<1>t. /\ sessions \in Seq(SessionRow)
      /\ \A s \in DOMAIN sessions : account[sessions[s].user].name # Nobody
  BY DEF AccountsInv, AccountsTypeOK
<1>1. CASE UNCHANGED accountsVars
  BY <1>1 DEF accountsVars, LoginSessionsCurrent
<1>2. CASE AccountsNext
  <2> SUFFICES ASSUME NEW s \in DOMAIN sessions',
                      sessions'[s].state = "live", sessions'[s].via = "login"
               PROVE  /\ sessions'[s].password = account'[sessions'[s].user].password
                      /\ sessions'[s].bans = account'[sessions'[s].user].bans
                      /\ account'[sessions'[s].user].status = 1
    BY DEF LoginSessionsCurrent
  <2>1. CASE s \notin DOMAIN sessions
    BY <1>2, <2>1, RowMoves DEF RowMade, LoginStillGood
  <2>2. CASE s \in DOMAIN sessions
    <3> DEFINE u == sessions[s].user
    <3>1. RowMoved(s) /\ u \in User
      BY <1>2, <1>t, <2>2, RowMoves, SessionTypes
    <3>2. /\ sessions[s].password = account[u].password
          /\ sessions[s].bans = account[u].bans
          /\ account[u].status = 1
      BY <2>2, <3>1 DEF RowMoved, LoginSessionsCurrent
    <3>3. sessions' # RevokeSessions(u)
      <4>1. RevokeSessions(u)[s].state = "revoked"
        BY <1>t, <2>2, RevokedRows
      <4>2. QED
        BY <4>1
    <3>4. \A p \in Proc, n \in Name : ~RegisterCommit(p, u, n)
      BY <1>t, <2>2 DEF RegisterCommit, Exists
    <3>5. /\ account'[u].password = account[u].password
          /\ account'[u].bans = account[u].bans
          /\ account'[u].status = 1
      BY <1>2, <3>1, <3>2, <3>3, <3>4, AccountMoves DEF AccountMoved
    <3>6. QED
      BY <3>1, <3>2, <3>5 DEF RowMoved
  <2>3. QED
    BY <2>1, <2>2
<1>3. QED
  BY <1>1, <1>2

\* A session made by a login never outlives the password or the enabled account
\* it was made with: login looks at both again under the lock of the account,
\* and whoever changes them revokes the sessions under the same lock.
THEOREM LoginsCurrent == AccountsSpec => []LoginSessionsCurrent
<1>1. AccountsInit => LoginSessionsCurrent
  BY DEF AccountsInit, LoginSessionsCurrent
<1>2. AccountsSpec => []AccountsInv
  BY AccountsInvInit, AccountsInvNext, PTL DEF AccountsSpec
<1>3. QED
  BY <1>1, <1>2, LoginsNext, PTL DEF AccountsSpec

\* No row of the sessions table disappears, changes its owner, or comes back to
\* life after logout, a revocation or its expiry.
NoResurrection ==
    \A s \in DOMAIN sessions :
        /\ s \in DOMAIN sessions'
        /\ sessions'[s].user = sessions[s].user
        /\ sessions[s].state # "live" => sessions'[s].state # "live"

\* A session that was ended stays ended, as long as the program runs.
THEOREM SessionsStayEnded == AccountsSpec => [][NoResurrection]_accountsVars
<1>1. ASSUME AccountsInv, AccountsInv', [AccountsNext]_accountsVars
      PROVE  [NoResurrection]_accountsVars
  <2>1. CASE UNCHANGED accountsVars
    BY <2>1
  <2>2. CASE AccountsNext
    <3>1. sessions \in Seq(SessionRow) /\ AccountsTypeOK
      BY <1>1 DEF AccountsInv, AccountsTypeOK
    <3>2. DOMAIN sessions \subseteq DOMAIN sessions'
      <4>1. ASSUME NEW u \in User, NEW via \in {"register", "login", "rename"},
                   NEW password \in Nat, NewSession(u, via, password)
            PROVE  DOMAIN sessions \subseteq DOMAIN sessions'
        BY <3>1, <4>1, NewSessionRows
      <4>2. ASSUME NEW u \in User, sessions' = RevokeSessions(u)
            PROVE  DOMAIN sessions \subseteq DOMAIN sessions'
        BY <3>1, <4>2, RevokedRows
      <4>3. QED
        BY <1>1, <2>2, <4>1, <4>2, SessionMoves
    <3>3. QED
      BY <1>1, <2>2, <3>2, RowMoves DEF RowMoved, NoResurrection
  <2>3. QED
    BY <1>1, <2>1, <2>2
<1>2. AccountsSpec => []AccountsInv
  BY AccountsInvInit, AccountsInvNext, PTL DEF AccountsSpec
<1>3. QED
  BY <1>1, <1>2, PTL DEF AccountsSpec

-----------------------------------------------------------------------------
(***************************************************************************)
(* Gate.                                                                   *)
(***************************************************************************)

GateInv == GateTypeOK /\ IsFiniteSet(DOMAIN entries)

\* A request outside rateLimit.
LEMMA OutCallerType == OutCaller \in CallerState /\ OutCaller.pc = "out"
BY GateConstants DEF OutCaller, CallerState

\* The limiter's map: the sweep keeps a part of it, with every window that is
\* not over, and a turn adds at most the key it is for.
LEMMA SweptType ==
    ASSUME GateInv, NEW k \in Key
    PROVE  /\ Swept(k) \in [DOMAIN Swept(k) -> LocalLimit]
           /\ DOMAIN Swept(k) \subseteq DOMAIN entries
           /\ IsFiniteSet(DOMAIN Swept(k))
           /\ Cardinality(DOMAIN Swept(k)) <= Cardinality(DOMAIN entries)
           /\ \A x \in DOMAIN Swept(k) : Swept(k)[x] = entries[x]
           /\ \A x \in DOMAIN entries : clock < entries[x].expires => x \in DOMAIN Swept(k)
<1>t. DOMAIN entries \subseteq Key /\ entries \in [DOMAIN entries -> LocalLimit]
      /\ IsFiniteSet(DOMAIN entries)
  BY DEF GateInv, GateTypeOK
<1>1. /\ Swept(k) \in [DOMAIN Swept(k) -> LocalLimit]
      /\ DOMAIN Swept(k) \subseteq DOMAIN entries
      /\ \A x \in DOMAIN Swept(k) : Swept(k)[x] = entries[x]
      /\ \A x \in DOMAIN entries : clock < entries[x].expires => x \in DOMAIN Swept(k)
  <2>1. CASE Swept(k) = entries
    BY <1>t, <2>1
  <2>2. CASE Swept(k) = Room
    BY <1>t, <2>2 DEF Room
  <2>3. QED
    BY <2>1, <2>2 DEF Swept
<1>2. QED
  BY <1>t, <1>1, FS_Subset

\* The entry the local limiter writes is an entry.
LEMMA TurnType == ASSUME GateInv, NEW k \in Key PROVE Turn(k) \in LocalLimit
<1>t. /\ entries \in [DOMAIN entries -> LocalLimit] /\ clock \in Nat /\ Window \in Nat
  BY GateConstants DEF GateInv, GateTypeOK
<1>1. CASE k \in DOMAIN entries /\ clock < entries[k].expires
  BY <1>t, <1>1 DEF Turn, LocalLimit
<1>2. CASE ~(k \in DOMAIN entries /\ clock < entries[k].expires)
  BY <1>t, <1>2 DEF Turn, LocalLimit
<1>3. QED
  BY <1>1, <1>2

\* The entry the script in Redis writes is an entry.
LEMMA ScriptType == ASSUME GateInv, NEW k \in Key PROVE Script(k) \in LocalLimit
<1>t. /\ shared \in [Key -> LocalLimit] /\ clock \in Nat /\ Window \in Nat
  BY GateConstants DEF GateInv, GateTypeOK
<1>1. QED
  BY <1>t DEF Script, LocalLimit

\* Counting a call locally sweeps, and never holds more keys than the capacity.
LEMMA CountedType ==
    ASSUME GateInv, NEW k \in Key, ~LimiterFull(k), Counted(k)
    PROVE  /\ DOMAIN entries' = DOMAIN Swept(k) \cup {k}
           /\ DOMAIN entries' \subseteq Key
           /\ entries' \in [DOMAIN entries' -> LocalLimit]
           /\ IsFiniteSet(DOMAIN entries')
           /\ Cardinality(DOMAIN entries') <= Capacity
           /\ entries'[k] = Turn(k)
           /\ \A x \in DOMAIN entries' \ {k} : x \in DOMAIN entries /\ entries'[x] = entries[x]
<1>t. /\ DOMAIN entries \subseteq Key /\ entries \in [DOMAIN entries -> LocalLimit]
      /\ IsFiniteSet(DOMAIN entries) /\ Cardinality(DOMAIN entries) <= Capacity
      /\ Capacity \in Nat
  BY GateConstants DEF GateInv, GateTypeOK
<1> DEFINE D == DOMAIN Swept(k)
<1>1. /\ D \subseteq DOMAIN entries /\ IsFiniteSet(D)
      /\ Cardinality(D) <= Cardinality(DOMAIN entries)
  BY SweptType
<1>2. entries' = [x \in D \cup {k} |-> IF x = k THEN Turn(k) ELSE entries[x]]
  BY DEF Counted
<1>3. k \notin DOMAIN entries => ~(Cardinality(D) >= Capacity)
  BY DEF LimiterFull
<1>4. k \in DOMAIN entries => D = DOMAIN entries
  BY DEF Swept
<1> HIDE DEF D
<1>5. /\ DOMAIN entries' = D \cup {k}
      /\ entries' \in [DOMAIN entries' -> LocalLimit]
      /\ entries'[k] = Turn(k)
      /\ \A x \in DOMAIN entries' \ {k} : x \in DOMAIN entries /\ entries'[x] = entries[x]
  BY <1>t, <1>1, <1>2, TurnType
<1>6. IsFiniteSet(D \cup {k}) /\ Cardinality(D \cup {k}) <= Capacity
  <2>1. CASE k \in D
    BY <1>t, <1>1, <2>1, FS_AddElement, FS_CardinalityType
  <2>2. CASE k \notin D
    <3>1. k \notin DOMAIN entries
      BY <1>4, <2>2
    <3>2. Cardinality(D) \in Nat /\ Cardinality(D) < Capacity
      BY <1>t, <1>1, <1>3, <3>1, FS_CardinalityType
    <3>3. IsFiniteSet(D \cup {k}) /\ Cardinality(D \cup {k}) = Cardinality(D) + 1
      BY <1>1, <2>2, FS_AddElement
    <3>4. QED
      BY <1>t, <3>2, <3>3
  <2>3. QED
    BY <2>1, <2>2
<1>7. QED
  BY <1>t, <1>1, <1>5, <1>6 DEF D

\* The actions, one by one.
LEMMA GateCases ==
    ASSUME GateNext
    PROVE  \/ GateTick
           \/ \E c \in Caller, k \in Key : TakeBusy(c, k) \/ TakeDenied(c, k) \/ TakeAllowed(c, k)
           \/ \E c \in Caller : Refused(c) \/ Allow(c) \/ CallOk(c) \/ CallFails(c)
BY DEF GateNext

\* A call that is let through is recorded.
LEMMA LetThroughType ==
    ASSUME GateInv, NEW c \in Caller, LetThrough(c)
    PROVE  passed' \in [Key -> Seq(Nat)] /\ caller' \in [Caller -> CallerState]
<1>t. passed \in [Key -> Seq(Nat)] /\ caller \in [Caller -> CallerState]
  BY DEF GateInv, GateTypeOK
<1>1. caller[c].key \in Key /\ caller[c].at \in Nat
  BY <1>t DEF CallerState
<1>2. Append(passed[caller[c].key], caller[c].at) \in Seq(Nat)
  BY <1>t, <1>1, AppendProperties
<1>3. QED
  BY <1>t, <1>1, <1>2, OutCallerType DEF LetThrough

\* The gate begins in its invariant.
LEMMA GateInvInit == GateInit => GateInv
<1> SUFFICES ASSUME GateInit PROVE GateInv
  OBVIOUS
<1>1. DOMAIN entries = {} /\ entries \in [{} -> LocalLimit]
  BY DEF GateInit
<1>2. IsFiniteSet(DOMAIN entries) /\ Cardinality(DOMAIN entries) <= Capacity
  BY <1>1, FS_EmptySet, GateConstants
<1>3. shared \in [Key -> LocalLimit] /\ breaker \in BreakerState /\ clock \in Nat
      /\ gateFaults \in Nat
  BY DEF GateInit, LocalLimit, BreakerState
<1>4. caller \in [Caller -> CallerState] /\ passed \in [Key -> Seq(Nat)]
  BY OutCallerType, EmptySeq DEF GateInit
<1>5. QED
  BY <1>1, <1>2, <1>3, <1>4 DEF GateInv, GateTypeOK

\* Every step of the gate keeps the invariant.
LEMMA GateInvNext == ASSUME GateInv, [GateNext]_gateVars PROVE GateInv'
<1>t. /\ clock \in Nat
      /\ DOMAIN entries \subseteq Key
      /\ entries \in [DOMAIN entries -> LocalLimit]
      /\ shared \in [Key -> LocalLimit]
      /\ breaker \in BreakerState
      /\ caller \in [Caller -> CallerState]
      /\ passed \in [Key -> Seq(Nat)]
      /\ gateFaults \in Nat
      /\ Cardinality(DOMAIN entries) <= Capacity
      /\ IsFiniteSet(DOMAIN entries)
  BY DEF GateInv, GateTypeOK
<1>c. Capacity \in Nat /\ Cooldown \in Nat /\ Cardinality(DOMAIN entries) \in Nat
  BY <1>t, GateConstants, FS_CardinalityType
<1>b. breaker.failures \in Nat /\ breaker.until \in Nat /\ breaker.probing \in BOOLEAN
  BY <1>t DEF BreakerState
<1>1. CASE GateTick
  BY <1>1, <1>t DEF GateTick, GateInv, GateTypeOK
<1>2. ASSUME NEW c \in Caller, NEW k \in Key, TakeBusy(c, k) PROVE GateInv'
  <2>1. Cardinality(DOMAIN Swept(k)) <= Capacity
    BY <1>t, <1>c, SweptType, FS_CardinalityType
  <2>2. QED
    BY <1>2, <1>t, <2>1, SweptType DEF TakeBusy, GateInv, GateTypeOK
<1>3. ASSUME NEW c \in Caller, NEW k \in Key, TakeDenied(c, k) PROVE GateInv'
  BY <1>3, <1>t, CountedType DEF TakeDenied, GateInv, GateTypeOK
<1>4. ASSUME NEW c \in Caller, NEW k \in Key, TakeAllowed(c, k) PROVE GateInv'
  <2>1. caller' \in [Caller -> CallerState]
    BY <1>4, <1>t DEF TakeAllowed, CallerState
  <2>2. QED
    BY <1>4, <1>t, <2>1, CountedType DEF TakeAllowed, GateInv, GateTypeOK
<1>5. ASSUME NEW c \in Caller, Refused(c) PROVE GateInv'
  BY <1>5, <1>t, LetThroughType DEF Refused, GateInv, GateTypeOK
<1>6. ASSUME NEW c \in Caller, Allow(c) PROVE GateInv'
  <2>1. caller' \in [Caller -> CallerState]
    BY <1>6, <1>t DEF Allow, CallerState, MayProbe
  <2>2. breaker' \in BreakerState
    BY <1>6, <1>t, <1>b DEF Allow, BreakerState, MayProbe
  <2>3. QED
    BY <1>6, <1>t, <2>1, <2>2 DEF Allow, GateInv, GateTypeOK
<1>7. ASSUME NEW c \in Caller, CallOk(c) PROVE GateInv'
  <2>1. caller[c].key \in Key
    BY <1>t DEF CallerState
  <2>2. shared' \in [Key -> LocalLimit]
    BY <1>7, <1>t, <2>1, ScriptType DEF CallOk
  <2>3. breaker' \in BreakerState
    BY <1>7 DEF CallOk, ResultOk, BreakerState
  <2>4. caller' \in [Caller -> CallerState] /\ passed' \in [Key -> Seq(Nat)]
    BY <1>7, <1>t, LetThroughType, OutCallerType DEF CallOk
  <2>5. QED
    BY <1>7, <1>t, <2>2, <2>3, <2>4 DEF CallOk, GateInv, GateTypeOK
<1>8. ASSUME NEW c \in Caller, CallFails(c) PROVE GateInv'
  <2>1. caller[c].key \in Key
    BY <1>t DEF CallerState
  <2>2. shared' \in [Key -> LocalLimit]
    BY <1>8, <1>t, <2>1, ScriptType DEF CallFails
  <2>3. breaker' \in BreakerState
    BY <1>8, <1>t, <1>b, <1>c DEF CallFails, ResultFailed, BreakerState
  <2>4. caller' \in [Caller -> CallerState] /\ passed' \in [Key -> Seq(Nat)]
    BY <1>8, LetThroughType DEF CallFails
  <2>5. QED
    BY <1>8, <1>t, <2>2, <2>3, <2>4 DEF CallFails, GateInv, GateTypeOK
<1>9. CASE UNCHANGED gateVars
  BY <1>9, <1>t DEF gateVars, GateInv, GateTypeOK
<1>10. QED
  BY GateCases, <1>1, <1>2, <1>3, <1>4, <1>5, <1>6, <1>7, <1>8, <1>9

\* The limiter, the breaker and the requests inside rateLimit are well typed in
\* every reachable state, and the limiter never holds more than its capacity.
THEOREM GateTyped == GateSpec => []GateTypeOK
<1>1. GateSpec => []GateInv
  BY GateInvInit, GateInvNext, PTL DEF GateSpec
<1>2. GateInv => GateTypeOK
  BY DEF GateInv
<1>3. QED
  BY <1>1, <1>2, PTL

\* The probe of the breaker: only its owner's result, or the result of another
\* call, ends it, and both clear the flag.
LEMMA ProbeNext ==
    ASSUME GateInv, ProbeUnderWay, [GateNext]_gateVars
    PROVE  ProbeUnderWay'
<1>t. breaker \in BreakerState /\ caller \in [Caller -> CallerState]
  BY DEF GateInv, GateTypeOK
<1>1. CASE UNCHANGED <<breaker, caller>>
  BY <1>1 DEF ProbeUnderWay
<1>2. ASSUME NEW c \in Caller, caller[c].pc # "calling", NEW h,
             caller' = [caller EXCEPT ![c] = h], UNCHANGED breaker
      PROVE  ProbeUnderWay'
  BY <1>2, <1>t DEF ProbeUnderWay
<1>3. ASSUME NEW c \in Caller, Allow(c) PROVE ProbeUnderWay'
  <2>1. /\ caller[c].pc = "taken"
        /\ caller' = [caller EXCEPT ![c].pc = "calling", ![c].probe = MayProbe]
        /\ breaker' = [breaker EXCEPT !.probing = breaker.probing \/ MayProbe]
    BY <1>3 DEF Allow
  <2>2. CASE MayProbe
    <3>1. caller'[c].pc = "calling" /\ caller'[c].probe
      BY <1>t, <2>1, <2>2 DEF CallerState
    <3>2. QED
      BY <3>1 DEF ProbeUnderWay
  <2>3. CASE ~MayProbe
    <3>1. breaker'.probing => breaker.probing
      BY <1>t, <2>1, <2>3 DEF BreakerState
    <3>2. \A x \in Caller : caller[x].pc = "calling" => caller'[x] = caller[x]
      BY <1>t, <2>1
    <3>3. QED
      BY <3>1, <3>2 DEF ProbeUnderWay
  <2>4. QED
    BY <2>2, <2>3
<1>4. ASSUME NEW c \in Caller, CallOk(c) \/ CallFails(c) PROVE ProbeUnderWay'
  <2>1. ~breaker'.probing
    BY <1>4 DEF CallOk, CallFails, ResultOk, ResultFailed
  <2>2. QED
    BY <2>1 DEF ProbeUnderWay
<1>5. ASSUME NEW c \in Caller, NEW k \in Key, TakeAllowed(c, k) PROVE ProbeUnderWay'
  BY <1>5, <1>2 DEF TakeAllowed
<1>6. ASSUME NEW c \in Caller, Refused(c) PROVE ProbeUnderWay'
  BY <1>6, <1>2 DEF Refused, LetThrough
<1>7. QED
  BY GateCases, <1>1, <1>3, <1>4, <1>5, <1>6 DEF GateTick, TakeBusy, TakeDenied, gateVars

\* The circuit is never left waiting for a probe that nobody runs.
THEOREM ProbesEnd == GateSpec => []ProbeUnderWay
<1>1. GateInit => ProbeUnderWay
  BY DEF GateInit, ProbeUnderWay
<1>2. GateSpec => []GateInv
  BY GateInvInit, GateInvNext, PTL DEF GateSpec
<1>3. QED
  BY <1>1, <1>2, ProbeNext, PTL DEF GateSpec

-----------------------------------------------------------------------------
(* The budget of a key.                                                    *)

\* The turns of key k taken at a time in S: those of requests that were let
\* through, and those of requests still inside rateLimit.
PassedIn(ps, k, S) == {i \in DOMAIN ps[k] : ps[k][i] \in S}
InsideIn(cs, k, S) == {c \in Caller : cs[c].pc # "out" /\ cs[c].key = k /\ cs[c].at \in S}
Used(ps, cs, k, S) == Cardinality(PassedIn(ps, k, S)) + Cardinality(InsideIn(cs, k, S))

\* Two inequalities add up.
LEMMA SumMono ==
    ASSUME NEW a \in Nat, NEW b \in Nat, NEW c \in Nat, NEW d \in Nat, a <= c, b <= d
    PROVE  a + b <= c + d
OBVIOUS

\* One element more.
LEMMA AddOne ==
    ASSUME NEW S, IsFiniteSet(S), NEW x
    PROVE  /\ IsFiniteSet(S \cup {x})
           /\ Cardinality(S) \in Nat
           /\ Cardinality(S \cup {x}) \in Nat
           /\ Cardinality(S \cup {x}) <= Cardinality(S) + 1
<1>1. /\ IsFiniteSet(S \cup {x})
      /\ Cardinality(S \cup {x}) = IF x \in S THEN Cardinality(S) ELSE Cardinality(S) + 1
  BY FS_AddElement
<1>2. Cardinality(S) \in Nat
  BY FS_CardinalityType
<1>3. QED
  BY <1>1, <1>2

\* The turns of a key are finitely many.
LEMMA UsedNat ==
    ASSUME NEW ps \in [Key -> Seq(Nat)], NEW cs \in [Caller -> CallerState], NEW k \in Key, NEW S
    PROVE  /\ IsFiniteSet(PassedIn(ps, k, S)) /\ IsFiniteSet(InsideIn(cs, k, S))
           /\ Cardinality(PassedIn(ps, k, S)) \in Nat /\ Cardinality(InsideIn(cs, k, S)) \in Nat
           /\ Used(ps, cs, k, S) \in Nat
<1>1. ps[k] \in Seq(Nat) /\ Len(ps[k]) \in Nat /\ DOMAIN ps[k] = 1..Len(ps[k])
  BY LenProperties
<1>2. IsFiniteSet(DOMAIN ps[k])
  BY <1>1, FS_Interval
<1>3. IsFiniteSet(PassedIn(ps, k, S))
  BY <1>2, FS_Subset DEF PassedIn
<1>4. IsFiniteSet(InsideIn(cs, k, S))
  BY FS_Subset, GateConstants DEF InsideIn
<1>5. QED
  BY <1>3, <1>4, FS_CardinalityType DEF Used

\* Fewer times, fewer turns.
LEMMA UsedMono ==
    ASSUME NEW ps \in [Key -> Seq(Nat)], NEW cs \in [Caller -> CallerState], NEW k \in Key,
           NEW S, NEW T,
           \A i \in PassedIn(ps, k, S) : ps[k][i] \in T,
           \A c \in InsideIn(cs, k, S) : cs[c].at \in T
    PROVE  Used(ps, cs, k, S) <= Used(ps, cs, k, T)
<1>1. PassedIn(ps, k, S) \subseteq PassedIn(ps, k, T)
  BY DEF PassedIn
<1>2. InsideIn(cs, k, S) \subseteq InsideIn(cs, k, T)
  BY DEF InsideIn
<1>3. Cardinality(PassedIn(ps, k, S)) <= Cardinality(PassedIn(ps, k, T))
  BY <1>1, UsedNat, FS_Subset
<1>4. Cardinality(InsideIn(cs, k, S)) <= Cardinality(InsideIn(cs, k, T))
  BY <1>2, UsedNat, FS_Subset
<1>5. /\ Cardinality(PassedIn(ps, k, S)) \in Nat /\ Cardinality(PassedIn(ps, k, T)) \in Nat
      /\ Cardinality(InsideIn(cs, k, S)) \in Nat /\ Cardinality(InsideIn(cs, k, T)) \in Nat
  BY UsedNat
<1>6. QED
  BY <1>3, <1>4, <1>5, SumMono DEF Used

\* The turns in two sets of times are at most those in each together.
LEMMA UsedUnion ==
    ASSUME NEW ps \in [Key -> Seq(Nat)], NEW cs \in [Caller -> CallerState], NEW k \in Key,
           NEW S, NEW T
    PROVE  Used(ps, cs, k, S \cup T) <= Used(ps, cs, k, S) + Used(ps, cs, k, T)
<1> DEFINE P(X) == PassedIn(ps, k, X)
           I(X) == InsideIn(cs, k, X)
<1>1. P(S \cup T) = P(S) \cup P(T) /\ I(S \cup T) = I(S) \cup I(T)
  BY DEF PassedIn, InsideIn
<1>2. /\ IsFiniteSet(P(S)) /\ IsFiniteSet(P(T)) /\ IsFiniteSet(I(S)) /\ IsFiniteSet(I(T))
  BY UsedNat
<1>3. Cardinality(P(S) \cup P(T)) <= Cardinality(P(S)) + Cardinality(P(T))
  <2>1. Cardinality(P(S) \cap P(T)) \in Nat
    BY <1>2, FS_Intersection, FS_CardinalityType
  <2>2. Cardinality(P(S) \cup P(T)) =
          Cardinality(P(S)) + Cardinality(P(T)) - Cardinality(P(S) \cap P(T))
    BY <1>2, FS_Union
  <2>3. Cardinality(P(S)) \in Nat /\ Cardinality(P(T)) \in Nat
    BY <1>2, FS_CardinalityType
  <2>4. QED
    BY <2>1, <2>2, <2>3
<1>4. Cardinality(I(S) \cup I(T)) <= Cardinality(I(S)) + Cardinality(I(T))
  <2>1. Cardinality(I(S) \cap I(T)) \in Nat
    BY <1>2, FS_Intersection, FS_CardinalityType
  <2>2. Cardinality(I(S) \cup I(T)) =
          Cardinality(I(S)) + Cardinality(I(T)) - Cardinality(I(S) \cap I(T))
    BY <1>2, FS_Union
  <2>3. Cardinality(I(S)) \in Nat /\ Cardinality(I(T)) \in Nat
    BY <1>2, FS_CardinalityType
  <2>4. QED
    BY <2>1, <2>2, <2>3
<1>5. /\ Cardinality(P(S)) \in Nat /\ Cardinality(P(T)) \in Nat
      /\ Cardinality(I(S)) \in Nat /\ Cardinality(I(T)) \in Nat
      /\ Cardinality(P(S \cup T)) \in Nat /\ Cardinality(I(S \cup T)) \in Nat
  BY UsedNat
<1> DEFINE a == Cardinality(P(S))
           b == Cardinality(P(T))
           d == Cardinality(I(S))
           e == Cardinality(I(T))
           x == Cardinality(P(S \cup T))
           y == Cardinality(I(S \cup T))
<1>6. x <= a + b /\ y <= d + e
  BY <1>1, <1>3, <1>4
<1>7. a \in Nat /\ b \in Nat /\ d \in Nat /\ e \in Nat /\ x \in Nat /\ y \in Nat
  BY <1>5
<1>8. Used(ps, cs, k, S \cup T) = x + y /\ Used(ps, cs, k, S) = a + d
      /\ Used(ps, cs, k, T) = b + e
  BY DEF Used
<1> HIDE DEF a, b, d, e, x, y
<1>9. QED
  BY <1>6, <1>7, <1>8

\* A request that takes a turn counts once, at its time and for its key.
LEMMA UsedTaken ==
    ASSUME NEW ps \in [Key -> Seq(Nat)], NEW cs \in [Caller -> CallerState], NEW k \in Key, NEW S,
           NEW c \in Caller, NEW h \in CallerState, cs[c].pc = "out"
    PROVE  LET ds == [cs EXCEPT ![c] = h]
           IN  /\ Used(ps, ds, k, S) <= Used(ps, cs, k, S) + 1
               /\ h.key # k \/ h.at \notin S => Used(ps, ds, k, S) <= Used(ps, cs, k, S)
<1> DEFINE ds == [cs EXCEPT ![c] = h]
           I == InsideIn(cs, k, S)
           J == InsideIn(ds, k, S)
<1>1. J \subseteq I \cup {c} /\ (h.key # k \/ h.at \notin S => J \subseteq I)
  BY DEF InsideIn
<1>2. ds \in [Caller -> CallerState]
  OBVIOUS
<1>3. IsFiniteSet(I) /\ IsFiniteSet(J) /\ Cardinality(I) \in Nat /\ Cardinality(J) \in Nat
      /\ Cardinality(PassedIn(ps, k, S)) \in Nat
  BY <1>2, UsedNat
<1> HIDE DEF I, J
<1>4. IsFiniteSet(I \cup {c}) /\ Cardinality(I \cup {c}) <= Cardinality(I) + 1
  BY <1>3, AddOne
<1>5. Cardinality(J) <= Cardinality(I) + 1
  <2>1. Cardinality(J) <= Cardinality(I \cup {c}) /\ Cardinality(I \cup {c}) \in Nat
    BY <1>1, <1>4, FS_Subset, FS_CardinalityType
  <2>2. QED
    BY <1>3, <1>4, <2>1
<1>6. h.key # k \/ h.at \notin S => Cardinality(J) <= Cardinality(I)
  BY <1>1, <1>3, FS_Subset
<1>7. QED
  BY <1>3, <1>5, <1>6 DEF Used, I, J

\* One that leaves without passing counts no more.
LEMMA UsedDropped ==
    ASSUME NEW ps \in [Key -> Seq(Nat)], NEW cs \in [Caller -> CallerState], NEW k \in Key, NEW S,
           NEW c \in Caller, NEW h \in CallerState,
           h.pc = "out" \/ (cs[c].pc # "out" /\ h.key = cs[c].key /\ h.at = cs[c].at)
    PROVE  Used(ps, [cs EXCEPT ![c] = h], k, S) <= Used(ps, cs, k, S)
<1> DEFINE ds == [cs EXCEPT ![c] = h]
<1>1. InsideIn(ds, k, S) \subseteq InsideIn(cs, k, S)
  BY DEF InsideIn
<1>2. ds \in [Caller -> CallerState]
  OBVIOUS
<1>3. Cardinality(InsideIn(ds, k, S)) <= Cardinality(InsideIn(cs, k, S))
  BY <1>1, UsedNat, FS_Subset
<1>4. /\ Cardinality(InsideIn(ds, k, S)) \in Nat /\ Cardinality(InsideIn(cs, k, S)) \in Nat
      /\ Cardinality(PassedIn(ps, k, S)) \in Nat
  BY <1>2, UsedNat
<1>5. QED
  BY <1>3, <1>4 DEF Used

\* One that passes counts on as it did.
LEMMA UsedPassed ==
    ASSUME NEW ps \in [Key -> Seq(Nat)], NEW cs \in [Caller -> CallerState], NEW k \in Key, NEW S,
           NEW c \in Caller, cs[c].pc # "out"
    PROVE  Used([ps EXCEPT ![cs[c].key] = Append(@, cs[c].at)], [cs EXCEPT ![c] = OutCaller], k, S)
             <= Used(ps, cs, k, S)
<1> DEFINE qs == [ps EXCEPT ![cs[c].key] = Append(@, cs[c].at)]
           ds == [cs EXCEPT ![c] = OutCaller]
           I == InsideIn(cs, k, S)
           J == InsideIn(ds, k, S)
           P == PassedIn(ps, k, S)
           Q == PassedIn(qs, k, S)
<1>0. cs[c].key \in Key /\ cs[c].at \in Nat
  BY DEF CallerState
<1>1. ds \in [Caller -> CallerState]
  BY OutCallerType
<1>2. qs \in [Key -> Seq(Nat)]
  BY <1>0, AppendProperties
<1>3. /\ IsFiniteSet(I) /\ IsFiniteSet(J) /\ Cardinality(I) \in Nat /\ Cardinality(J) \in Nat
      /\ IsFiniteSet(P) /\ IsFiniteSet(Q) /\ Cardinality(P) \in Nat /\ Cardinality(Q) \in Nat
  BY <1>1, <1>2, UsedNat
<1>4. J = I \ {c}
  BY OutCallerType DEF InsideIn
<1>5. CASE cs[c].key = k /\ cs[c].at \in S
  <2> DEFINE n == Len(ps[k])
  <2>1. /\ n \in Nat /\ DOMAIN ps[k] = 1..n /\ qs[k] = Append(ps[k], cs[c].at)
        /\ DOMAIN qs[k] = 1..(n + 1) /\ \A i \in 1..n : qs[k][i] = ps[k][i]
    BY <1>0, <1>5, LenProperties, AppendProperties
  <2>2. Q \subseteq P \cup {n + 1}
    BY <2>1 DEF PassedIn
  <2>3. c \in I
    BY <1>5 DEF InsideIn
  <2> HIDE DEF I, J, P, Q
  <2>4. Cardinality(J) = Cardinality(I) - 1
    BY <1>3, <1>4, <2>3, FS_RemoveElement
  <2>5. IsFiniteSet(P \cup {n + 1}) /\ Cardinality(P \cup {n + 1}) <= Cardinality(P) + 1
    BY <1>3, AddOne
  <2>6. Cardinality(Q) <= Cardinality(P \cup {n + 1}) /\ Cardinality(P \cup {n + 1}) \in Nat
    BY <2>2, <2>5, FS_Subset, FS_CardinalityType
  <2>7. Cardinality(Q) + Cardinality(J) <= Cardinality(P) + Cardinality(I)
    BY <1>3, <2>4, <2>5, <2>6
  <2>8. QED
    BY <2>7 DEF Used, I, J, P, Q
<1>6. CASE ~(cs[c].key = k /\ cs[c].at \in S)
  <2>1. Q \subseteq P
    <3>1. CASE cs[c].key # k
      BY <1>0, <3>1 DEF PassedIn
    <3>2. CASE cs[c].key = k
      <4> DEFINE n == Len(ps[k])
      <4>1. /\ n \in Nat /\ DOMAIN ps[k] = 1..n /\ qs[k] = Append(ps[k], cs[c].at)
            /\ DOMAIN qs[k] = 1..(n + 1) /\ \A i \in 1..n : qs[k][i] = ps[k][i]
            /\ qs[k][n + 1] = cs[c].at
        BY <1>0, <3>2, LenProperties, AppendProperties
      <4>2. QED
        BY <1>6, <3>2, <4>1 DEF PassedIn
    <3>3. QED
      BY <3>1, <3>2
  <2>2. Cardinality(Q) <= Cardinality(P) /\ Cardinality(J) <= Cardinality(I)
    BY <1>3, <1>4, <2>1, FS_Subset
  <2> HIDE DEF I, J, P, Q
  <2>3. Cardinality(Q) + Cardinality(J) <= Cardinality(P) + Cardinality(I)
    BY <1>3, <2>2
  <2>4. QED
    BY <2>3 DEF Used, I, J, P, Q
<1>7. QED
  BY <1>5, <1>6

\* A window of key k is open; when it began.
Live(k) == k \in DOMAIN entries /\ clock < entries[k].expires
Start(k) == entries[k].expires - Window

Since(b) == {x \in Nat : b <= x}
Before(b) == {x \in Nat : x < b /\ b < x + Window}

Turns(k, S) == Used(passed, caller, k, S)

PastInv ==
    /\ \A k \in Key : \A i \in DOMAIN passed[k] : passed[k][i] <= clock
    /\ \A c \in Caller : caller[c].pc # "out" => caller[c].at <= clock

\* The open window has counted every turn since its start, and the Window
\* units before it saw one budget at most: they belong to one window.
LiveInv ==
    \A k \in Key : Live(k) =>
        /\ Start(k) \in Nat /\ Start(k) <= clock
        /\ Turns(k, Since(Start(k))) <= entries[k].count
        /\ Turns(k, Since(Start(k))) <= MaxRate
        /\ Turns(k, Before(Start(k))) <= MaxRate

\* Without an open window no turn was taken just now, and the last Window units
\* saw one budget at most.
IdleInv ==
    \A k \in Key : ~Live(k) =>
        /\ Turns(k, Since(clock)) = 0
        /\ Turns(k, Before(clock)) <= MaxRate

SpanInv == \A k \in Key, t \in Nat : Turns(k, t..(t + Window - 1)) <= 2 * MaxRate

BudgetInv == PastInv /\ LiveInv /\ IdleInv /\ SpanInv

\* A step that takes no turn, moves no clock and neither opens nor closes a
\* window keeps the budget.
LEMMA BudgetQuiet ==
    ASSUME GateInv, GateInv', BudgetInv, UNCHANGED clock, PastInv',
           \A k \in Key : \A S \in SUBSET Nat :
               Used(passed', caller', k, S) <= Used(passed, caller, k, S),
           \A k \in Key : (k \in DOMAIN entries' /\ clock < entries'[k].expires) <=> Live(k),
           \A k \in Key : Live(k) => /\ entries'[k].expires = entries[k].expires
                                     /\ entries[k].count <= entries'[k].count
    PROVE  BudgetInv'
<1>1. MaxRate \in Nat /\ Window \in Nat /\ Window # 0 /\ clock \in Nat
  BY GateConstants DEF GateInv, GateTypeOK
<1>t. /\ passed \in [Key -> Seq(Nat)] /\ caller \in [Caller -> CallerState]
      /\ passed' \in [Key -> Seq(Nat)] /\ caller' \in [Caller -> CallerState]
  BY DEF GateInv, GateTypeOK
<1>2. \A k \in Key : \A S \in SUBSET Nat :
        Used(passed', caller', k, S) \in Nat /\ Used(passed, caller, k, S) \in Nat
  BY <1>t, UsedNat
<1>s. \A b : Since(b) \in SUBSET Nat /\ Before(b) \in SUBSET Nat
  BY DEF Since, Before
<1>p. \A k \in Key : Live(k)' <=> Live(k)
  BY DEF Live
<1>3. LiveInv'
  <2> SUFFICES ASSUME NEW k \in Key, Live(k)
               PROVE  /\ Start(k)' \in Nat /\ Start(k)' <= clock
                      /\ Used(passed', caller', k, Since(Start(k)')) <= entries'[k].count
                      /\ Used(passed', caller', k, Since(Start(k)')) <= MaxRate
                      /\ Used(passed', caller', k, Before(Start(k)')) <= MaxRate
    BY <1>p DEF LiveInv, Turns, Since, Before
  <2>1. Start(k)' = Start(k)
    BY DEF Start
  <2>2. k \in DOMAIN entries' /\ k \in DOMAIN entries
    BY DEF Live
  <2>3. entries[k].count \in Nat /\ entries'[k].count \in Nat
        /\ entries[k].count <= entries'[k].count
    BY <2>2 DEF GateInv, GateTypeOK, LocalLimit
  <2> DEFINE b == Start(k)
             u == Used(passed, caller, k, Since(b))
             v == Used(passed', caller', k, Since(b))
             w == Used(passed, caller, k, Before(b))
             x == Used(passed', caller', k, Before(b))
  <2>4. v <= u /\ x <= w /\ u \in Nat /\ v \in Nat /\ w \in Nat /\ x \in Nat
    BY <1>2, <1>s
  <2>5. u <= entries[k].count /\ u <= MaxRate /\ w <= MaxRate /\ b \in Nat /\ b <= clock
    BY DEF BudgetInv, LiveInv, Turns
  <2> HIDE DEF b, u, v, w, x
  <2>6. v <= entries'[k].count /\ v <= MaxRate /\ x <= MaxRate
    BY <1>1, <2>3, <2>4, <2>5
  <2>7. QED
    BY <2>1, <2>5, <2>6 DEF b, v, x
<1>4. IdleInv'
  <2> SUFFICES ASSUME NEW k \in Key, ~Live(k)
               PROVE  /\ Used(passed', caller', k, Since(clock)) = 0
                      /\ Used(passed', caller', k, Before(clock)) <= MaxRate
    BY <1>p DEF IdleInv, Turns, Since, Before
  <2> DEFINE u == Used(passed, caller, k, Since(clock))
             v == Used(passed', caller', k, Since(clock))
             w == Used(passed, caller, k, Before(clock))
             x == Used(passed', caller', k, Before(clock))
  <2>1. v <= u /\ x <= w /\ u \in Nat /\ v \in Nat /\ w \in Nat /\ x \in Nat
    BY <1>2, <1>s
  <2>2. u = 0 /\ w <= MaxRate
    BY DEF BudgetInv, IdleInv, Turns
  <2> HIDE DEF u, v, w, x
  <2>3. v = 0 /\ x <= MaxRate
    BY <1>1, <2>1, <2>2
  <2>4. QED
    BY <2>3 DEF v, x
<1>5. SpanInv'
  <2> SUFFICES ASSUME NEW k \in Key, NEW t \in Nat
               PROVE  Used(passed', caller', k, t..(t + Window - 1)) <= 2 * MaxRate
    BY DEF SpanInv, Turns
  <2> DEFINE S == t..(t + Window - 1)
             u == Used(passed, caller, k, S)
             v == Used(passed', caller', k, S)
  <2>1. S \in SUBSET Nat
    BY <1>1
  <2>2. v <= u /\ u \in Nat /\ v \in Nat
    BY <1>2, <2>1
  <2>3. u <= 2 * MaxRate /\ 2 * MaxRate \in Nat
    BY <1>1 DEF BudgetInv, SpanInv, Turns
  <2> HIDE DEF u, v
  <2>4. v <= 2 * MaxRate
    BY <2>2, <2>3
  <2>5. QED
    BY <2>4 DEF v
<1>6. QED
  BY <1>3, <1>4, <1>5 DEF BudgetInv

\* The steps that take no turn are quiet.
LEMMA BudgetQuietStep ==
    ASSUME GateInv, GateInv', BudgetInv, GateNext, ~GateTick,
           \A c \in Caller, k \in Key : ~TakeAllowed(c, k)
    PROVE  BudgetInv'
<1>t. /\ passed \in [Key -> Seq(Nat)] /\ caller \in [Caller -> CallerState]
      /\ clock \in Nat /\ DOMAIN entries \subseteq Key
      /\ entries \in [DOMAIN entries -> LocalLimit]
  BY DEF GateInv, GateTypeOK
<1>u. \A k \in Key : \A S \in SUBSET Nat : Used(passed, caller, k, S) \in Nat
  BY <1>t, UsedNat
<1>p. PastInv
  BY DEF BudgetInv
<1> DEFINE LessUsed == \A k \in Key : \A S \in SUBSET Nat :
               Used(passed', caller', k, S) <= Used(passed, caller, k, S)
           SameWindows ==
               /\ \A k \in Key : (k \in DOMAIN entries' /\ clock < entries'[k].expires) <=> Live(k)
               /\ \A k \in Key : Live(k) => /\ entries'[k].expires = entries[k].expires
                                            /\ entries[k].count <= entries'[k].count
<1>n. \A k \in Key : Live(k) => entries[k].count \in Nat /\ entries[k].expires \in Nat
  BY <1>t DEF Live, LocalLimit
<1>1. ASSUME UNCHANGED entries PROVE SameWindows
  BY <1>1, <1>n DEF Live
<1>2. ASSUME UNCHANGED <<passed, caller, clock>> PROVE LessUsed /\ PastInv'
  BY <1>2, <1>u, <1>p DEF PastInv
<1>3. ASSUME NEW c \in Caller, caller[c].pc # "out", LetThrough(c), UNCHANGED clock
      PROVE  LessUsed /\ PastInv'
  <2>1. LessUsed
    BY <1>3, <1>t, UsedPassed DEF LetThrough
  <2>2. caller[c].key \in Key /\ caller[c].at \in Nat /\ caller[c].at <= clock
    BY <1>3, <1>t, <1>p DEF CallerState, PastInv
  <2>3. ASSUME NEW k \in Key, NEW i \in DOMAIN passed'[k] PROVE passed'[k][i] <= clock
    <3>1. CASE k # caller[c].key
      BY <1>3, <1>t, <1>p, <2>2, <3>1 DEF LetThrough, PastInv
    <3>2. CASE k = caller[c].key
      <4> DEFINE n == Len(passed[k])
      <4>1. passed'[k] = Append(passed[k], caller[c].at) /\ passed[k] \in Seq(Nat)
        BY <1>3, <1>t, <2>2, <3>2 DEF LetThrough
      <4>2. /\ n \in Nat /\ DOMAIN passed[k] = 1..n /\ DOMAIN passed'[k] = 1..(n + 1)
            /\ \A j \in 1..n : passed'[k][j] = passed[k][j]
            /\ passed'[k][n + 1] = caller[c].at
        BY <2>2, <4>1, LenProperties, AppendProperties
      <4>3. \A j \in 1..n : passed[k][j] <= clock
        BY <1>p, <4>2 DEF PastInv
      <4>4. i \in 1..n \/ i = n + 1
        BY <4>2, <2>3
      <4>5. QED
        BY <2>2, <4>2, <4>3, <4>4
    <3>3. QED
      BY <3>1, <3>2
  <2>4. \A x \in Caller : caller'[x].pc # "out" => caller'[x].at <= clock
    BY <1>3, <1>t, <1>p, OutCallerType DEF LetThrough, PastInv
  <2>5. QED
    BY <1>3, <2>1, <2>3, <2>4 DEF PastInv
<1>4. ASSUME NEW c \in Caller, NEW h \in CallerState, caller' = [caller EXCEPT ![c] = h],
             h.pc = "out" \/ (caller[c].pc # "out" /\ h.key = caller[c].key /\ h.at = caller[c].at),
             UNCHANGED <<passed, clock>>
      PROVE  LessUsed /\ PastInv'
  <2>1. LessUsed
    BY <1>4, <1>t, UsedDropped
  <2>2. PastInv'
    BY <1>4, <1>t, <1>p DEF PastInv
  <2>3. QED
    BY <2>1, <2>2
<1>5. ASSUME LessUsed, PastInv', SameWindows, UNCHANGED clock PROVE BudgetInv'
  BY <1>5, BudgetQuiet
<1>6. ASSUME NEW c \in Caller, NEW k \in Key, TakeBusy(c, k) PROVE BudgetInv'
  <2>1. entries' = Swept(k) /\ UNCHANGED <<passed, caller, clock>>
    BY <1>6 DEF TakeBusy
  <2>2. SameWindows
    BY <1>n, <2>1, SweptType DEF Live
  <2>3. QED
    BY <1>2, <1>5, <2>1, <2>2
<1>7. ASSUME NEW c \in Caller, NEW k \in Key, TakeDenied(c, k) PROVE BudgetInv'
  <2>1. /\ ~LimiterFull(k) /\ Counted(k) /\ Turn(k).count > MaxRate
        /\ UNCHANGED <<passed, caller, clock>>
    BY <1>7 DEF TakeDenied
  <2>2. Live(k) /\ Turn(k) = [entries[k] EXCEPT !.count = @ + 1]
    <3>1. CASE k \in DOMAIN entries /\ clock < entries[k].expires
      BY <3>1 DEF Turn, Live
    <3>2. CASE ~(k \in DOMAIN entries /\ clock < entries[k].expires)
      <4>1. Turn(k).count = 1
        BY <3>2 DEF Turn
      <4>2. QED
        BY <2>1, <4>1, GateConstants
    <3>3. QED
      BY <3>1, <3>2
  <2>3. /\ DOMAIN entries' = DOMAIN Swept(k) \cup {k}
        /\ entries'[k] = Turn(k)
        /\ \A x \in DOMAIN entries' \ {k} : x \in DOMAIN entries /\ entries'[x] = entries[x]
        /\ \A x \in DOMAIN entries : clock < entries[x].expires => x \in DOMAIN Swept(k)
    BY <2>1, CountedType, SweptType
  <2>4. /\ entries'[k].expires = entries[k].expires /\ entries[k].count <= entries'[k].count
    <3>1. entries[k] \in LocalLimit
      BY <1>t, <2>2 DEF Live
    <3>2. QED
      BY <2>2, <2>3, <3>1 DEF LocalLimit
  <2>5. SameWindows
    <3>1. k \in DOMAIN entries' /\ clock < entries'[k].expires
      BY <2>2, <2>3, <2>4 DEF Live
    <3>2. ASSUME NEW x \in Key, x # k
          PROVE  /\ (x \in DOMAIN entries' /\ clock < entries'[x].expires) <=> Live(x)
                 /\ Live(x) => /\ entries'[x].expires = entries[x].expires
                               /\ entries[x].count <= entries'[x].count
      <4>1. Live(x) => x \in DOMAIN entries' /\ entries'[x] = entries[x]
        BY <2>3, <3>2 DEF Live
      <4>2. x \in DOMAIN entries' => x \in DOMAIN entries /\ entries'[x] = entries[x]
        BY <2>3, <3>2
      <4>3. QED
        BY <1>n, <4>1, <4>2 DEF Live
    <3>3. QED
      BY <2>2, <2>4, <3>1, <3>2
  <2>6. QED
    BY <1>2, <1>5, <2>1, <2>5
<1>8. ASSUME NEW c \in Caller, Refused(c) PROVE BudgetInv'
  BY <1>8, <1>1, <1>3, <1>5 DEF Refused
<1>9. ASSUME NEW c \in Caller, Allow(c) PROVE BudgetInv'
  <2> DEFINE h == [caller[c] EXCEPT !.pc = "calling", !.probe = MayProbe]
  <2>1. h \in CallerState /\ h.key = caller[c].key /\ h.at = caller[c].at
    BY <1>t DEF CallerState, MayProbe
  <2>2. caller' = [caller EXCEPT ![c] = h] /\ caller[c].pc # "out"
        /\ UNCHANGED <<passed, clock, entries>>
    BY <1>9, <1>t DEF Allow
  <2> HIDE DEF h
  <2>3. QED
    BY <1>1, <1>4, <1>5, <2>1, <2>2
<1>10. ASSUME NEW c \in Caller, CallOk(c) PROVE BudgetInv'
  <2>1. caller[c].pc # "out" /\ UNCHANGED <<clock, entries>>
    BY <1>10 DEF CallOk
  <2>2. LetThrough(c) \/ (caller' = [caller EXCEPT ![c] = OutCaller] /\ UNCHANGED passed)
    BY <1>10 DEF CallOk
  <2>3. LessUsed /\ PastInv'
    BY <1>3, <1>4, <2>1, <2>2, OutCallerType
  <2>4. QED
    BY <1>1, <1>5, <2>1, <2>3
<1>11. ASSUME NEW c \in Caller, CallFails(c) PROVE BudgetInv'
  BY <1>11, <1>1, <1>3, <1>5 DEF CallFails
<1>12. QED
  BY GateCases, <1>6, <1>7, <1>8, <1>9, <1>10, <1>11

\* Time passes: a window that closes leaves one budget behind it.
LEMMA BudgetTick ==
    ASSUME GateInv, GateInv', BudgetInv, GateTick
    PROVE  BudgetInv'
<1>t. /\ passed \in [Key -> Seq(Nat)] /\ caller \in [Caller -> CallerState]
      /\ clock \in Nat /\ entries \in [DOMAIN entries -> LocalLimit]
      /\ MaxRate \in Nat /\ Window \in Nat /\ Window # 0
  BY GateConstants DEF GateInv, GateTypeOK
<1>s. clock' = clock + 1 /\ UNCHANGED <<entries, passed, caller>>
  BY DEF GateTick
<1>p. PastInv /\ LiveInv /\ IdleInv /\ SpanInv
  BY DEF BudgetInv
<1>a. /\ \A k \in Key : \A i \in DOMAIN passed[k] : passed[k][i] <= clock /\ passed[k][i] \in Nat
      /\ \A c \in Caller : /\ caller[c].pc # "out" => caller[c].at <= clock
                           /\ caller[c].at \in Nat
  <2>1. \A k \in Key : \A i \in DOMAIN passed[k] : passed[k][i] \in Nat
    BY <1>t, ElementOfSeq, LenProperties
  <2>2. \A c \in Caller : caller[c].at \in Nat
    BY <1>t DEF CallerState
  <2>3. QED
    BY <1>p, <2>1, <2>2 DEF PastInv
<1>m. ASSUME NEW k \in Key, NEW S, NEW T, \A x \in Nat : x <= clock /\ x \in S => x \in T
      PROVE  Turns(k, S) <= Turns(k, T) /\ Turns(k, S) \in Nat /\ Turns(k, T) \in Nat
  <2>1. \A i \in PassedIn(passed, k, S) : passed[k][i] \in T
    BY <1>a, <1>m DEF PassedIn
  <2>2. \A c \in InsideIn(caller, k, S) : caller[c].at \in T
    BY <1>a, <1>m DEF InsideIn
  <2>3. QED
    BY <1>t, <2>1, <2>2, UsedMono, UsedNat DEF Turns
<1>1. PastInv'
  BY <1>a, <1>s, <1>t DEF PastInv
<1>2. LiveInv'
  <2> SUFFICES ASSUME NEW k \in Key, Live(k)'
               PROVE  /\ Start(k) \in Nat /\ Start(k) <= clock + 1
                      /\ Turns(k, Since(Start(k))) <= entries[k].count
                      /\ Turns(k, Since(Start(k))) <= MaxRate
                      /\ Turns(k, Before(Start(k))) <= MaxRate
    BY <1>s DEF LiveInv, Turns, Since, Before, Start
  <2>1. Live(k)
    BY <1>s, <1>t DEF Live, LocalLimit
  <2>2. QED
    BY <1>p, <1>t, <2>1 DEF LiveInv
<1>3. IdleInv'
  <2> SUFFICES ASSUME NEW k \in Key, ~Live(k)'
               PROVE  /\ Turns(k, Since(clock + 1)) = 0
                      /\ Turns(k, Before(clock + 1)) <= MaxRate
    BY <1>s DEF IdleInv, Turns, Since, Before
  <2>1. Turns(k, Since(clock + 1)) = 0
    <3>1. PassedIn(passed, k, Since(clock + 1)) = {}
      BY <1>a, <1>t DEF PassedIn, Since
    <3>2. InsideIn(caller, k, Since(clock + 1)) = {}
      BY <1>a, <1>t DEF InsideIn, Since
    <3>3. QED
      BY <3>1, <3>2, FS_EmptySet DEF Turns, Used
  <2>2. CASE Live(k)
    <3>1. k \in DOMAIN entries /\ entries[k].expires = clock + 1
      BY <1>s, <1>t, <2>2 DEF Live, LocalLimit
    <3>2. Start(k) = clock + 1 - Window
      BY <1>t, <3>1 DEF Start
    <3>3. \A x \in Nat : x <= clock /\ x \in Before(clock + 1) => x \in Since(Start(k))
      BY <1>t, <3>2 DEF Before, Since
    <3>4. Turns(k, Before(clock + 1)) <= Turns(k, Since(Start(k)))
          /\ Turns(k, Before(clock + 1)) \in Nat /\ Turns(k, Since(Start(k))) \in Nat
      BY <1>m, <3>3
    <3>5. Turns(k, Since(Start(k))) <= MaxRate
      BY <1>p, <2>2 DEF LiveInv
    <3>6. QED
      BY <1>t, <2>1, <3>4, <3>5
  <2>3. CASE ~Live(k)
    <3> DEFINE S == Before(clock) \cup Since(clock)
    <3>1. \A x \in Nat : x <= clock /\ x \in Before(clock + 1) => x \in S
      BY <1>t DEF Before, Since
    <3>2. Turns(k, Before(clock + 1)) <= Turns(k, S)
          /\ Turns(k, Before(clock + 1)) \in Nat /\ Turns(k, S) \in Nat
      BY <1>m, <3>1
    <3>3. Turns(k, S) <= Turns(k, Before(clock)) + Turns(k, Since(clock))
          /\ Turns(k, Before(clock)) \in Nat
      BY <1>t, UsedUnion, UsedNat DEF Turns
    <3>4. Turns(k, Since(clock)) = 0 /\ Turns(k, Before(clock)) <= MaxRate
      BY <1>p, <2>3 DEF IdleInv
    <3>5. QED
      BY <1>t, <2>1, <3>2, <3>3, <3>4
  <2>4. QED
    BY <2>2, <2>3
<1>4. SpanInv'
  BY <1>p, <1>s DEF SpanInv, Turns
<1>5. QED
  BY <1>1, <1>2, <1>3, <1>4 DEF BudgetInv

\* A turn: of a window that is open, or the first of a new one.
LEMMA BudgetTaken ==
    ASSUME GateInv, GateInv', BudgetInv, NEW c \in Caller, NEW k \in Key, TakeAllowed(c, k)
    PROVE  BudgetInv'
<1> DEFINE h == [pc |-> "taken", key |-> k, at |-> clock, probe |-> FALSE]
<1>t. /\ passed \in [Key -> Seq(Nat)] /\ caller \in [Caller -> CallerState]
      /\ clock \in Nat /\ entries \in [DOMAIN entries -> LocalLimit]
      /\ MaxRate \in Nat /\ MaxRate # 0 /\ Window \in Nat /\ Window # 0
  BY GateConstants DEF GateInv, GateTypeOK
<1>s. /\ caller[c].pc = "out" /\ ~LimiterFull(k) /\ Counted(k) /\ Turn(k).count <= MaxRate
      /\ caller' = [caller EXCEPT ![c] = h] /\ UNCHANGED <<clock, passed>>
  BY DEF TakeAllowed
<1>h. h \in CallerState /\ h.key = k /\ h.at = clock
  BY <1>t DEF CallerState
<1> HIDE DEF h
<1>p. PastInv /\ LiveInv /\ IdleInv /\ SpanInv
  BY DEF BudgetInv
<1>e. /\ DOMAIN entries' = DOMAIN Swept(k) \cup {k}
      /\ entries'[k] = Turn(k)
      /\ \A x \in DOMAIN entries' \ {k} : x \in DOMAIN entries /\ entries'[x] = entries[x]
      /\ \A x \in DOMAIN entries : clock < entries[x].expires => x \in DOMAIN Swept(k)
  BY <1>s, CountedType, SweptType
<1>u. ASSUME NEW j \in Key, NEW S
      PROVE  /\ Turns(j, S) \in Nat /\ Used(passed', caller', j, S) \in Nat
             /\ Used(passed', caller', j, S) <= Turns(j, S) + 1
             /\ j # k \/ clock \notin S => Used(passed', caller', j, S) <= Turns(j, S)
  <2>1. caller' \in [Caller -> CallerState] /\ passed' = passed
    BY <1>s, <1>t, <1>h
  <2>2. QED
    BY <1>s, <1>t, <1>h, <2>1, UsedNat, UsedTaken DEF Turns
<1>1. PastInv'
  BY <1>s, <1>t, <1>h, <1>p DEF PastInv
<1>k. /\ Live(k)' /\ Start(k)' \in Nat /\ Start(k)' <= clock
      /\ Used(passed', caller', k, Since(Start(k)')) <= Turn(k).count
      /\ Used(passed', caller', k, Before(Start(k)')) <= MaxRate
  <2>1. CASE Live(k)
    <3>1. Turn(k) = [entries[k] EXCEPT !.count = @ + 1] /\ entries[k] \in LocalLimit
      BY <1>t, <2>1 DEF Live, Turn
    <3>2. Turn(k).count = entries[k].count + 1 /\ Turn(k).expires = entries[k].expires
          /\ entries[k].count \in Nat /\ entries[k].expires \in Nat
      BY <3>1 DEF LocalLimit
    <3>3. Start(k)' = Start(k) /\ Live(k)'
      BY <1>s, <1>e, <2>1, <3>2 DEF Start, Live
    <3>4. /\ Start(k) \in Nat /\ Start(k) <= clock
          /\ Turns(k, Since(Start(k))) <= entries[k].count
          /\ Turns(k, Before(Start(k))) <= MaxRate
      BY <1>p, <2>1 DEF LiveInv
    <3>5. clock \notin Before(Start(k))
      BY <1>t, <3>4 DEF Before
    <3> DEFINE a == Used(passed', caller', k, Since(Start(k)))
               b == Used(passed', caller', k, Before(Start(k)))
    <3>6. a <= Turns(k, Since(Start(k))) + 1 /\ a \in Nat /\ Turns(k, Since(Start(k))) \in Nat
      BY <1>u
    <3>7. b <= Turns(k, Before(Start(k))) /\ b \in Nat /\ Turns(k, Before(Start(k))) \in Nat
      BY <1>u, <3>5
    <3> HIDE DEF a, b
    <3>8. a <= Turn(k).count /\ b <= MaxRate
      BY <1>t, <3>2, <3>4, <3>6, <3>7
    <3>9. QED
      BY <3>3, <3>4, <3>8 DEF a, b
  <2>2. CASE ~Live(k)
    <3>1. Turn(k) = [count |-> 1, expires |-> clock + Window]
      BY <2>2 DEF Live, Turn
    <3>2. Turn(k).count = 1 /\ Turn(k).expires = clock + Window
      BY <3>1
    <3>3. Start(k)' = clock /\ Live(k)'
      BY <1>s, <1>t, <1>e, <3>2 DEF Start, Live
    <3>4. Turns(k, Since(clock)) = 0 /\ Turns(k, Before(clock)) <= MaxRate
      BY <1>p, <2>2 DEF IdleInv
    <3>5. clock \notin Before(clock)
      BY <1>t DEF Before
    <3> DEFINE a == Used(passed', caller', k, Since(clock))
               b == Used(passed', caller', k, Before(clock))
    <3>6. a <= Turns(k, Since(clock)) + 1 /\ a \in Nat
      BY <1>u
    <3>7. b <= Turns(k, Before(clock)) /\ b \in Nat /\ Turns(k, Before(clock)) \in Nat
      BY <1>u, <3>5
    <3> HIDE DEF a, b
    <3>8. a <= Turn(k).count /\ b <= MaxRate
      BY <1>t, <3>2, <3>4, <3>6, <3>7
    <3>9. QED
      BY <1>t, <3>3, <3>8 DEF a, b
  <2>3. QED
    BY <2>1, <2>2
<1>c. Turn(k).count \in Nat
  BY TurnType DEF LocalLimit
<1>j. ASSUME NEW j \in Key, j # k
      PROVE  (Live(j)' <=> Live(j)) /\ (Live(j) => entries'[j] = entries[j])
  BY <1>s, <1>e, <1>j DEF Live
<1>2. LiveInv'
  <2> SUFFICES ASSUME NEW j \in Key, Live(j)'
               PROVE  /\ Start(j)' \in Nat /\ Start(j)' <= clock
                      /\ Used(passed', caller', j, Since(Start(j)')) <= entries'[j].count
                      /\ Used(passed', caller', j, Since(Start(j)')) <= MaxRate
                      /\ Used(passed', caller', j, Before(Start(j)')) <= MaxRate
    BY <1>s DEF LiveInv, Turns, Since, Before
  <2>1. CASE j = k
    <3>1. Used(passed', caller', k, Since(Start(k)')) \in Nat
      BY <1>u
    <3>2. Used(passed', caller', k, Since(Start(k)')) <= MaxRate
      BY <1>t, <1>s, <1>c, <1>k, <3>1
    <3>3. QED
      BY <1>e, <1>k, <2>1, <3>2
  <2>2. CASE j # k
    <3>1. Live(j) /\ entries'[j] = entries[j]
      BY <1>j, <2>2
    <3>2. Start(j)' = Start(j)
      BY <3>1 DEF Start
    <3>3. entries[j].count \in Nat
      BY <1>t, <3>1 DEF Live, LocalLimit
    <3> DEFINE a == Used(passed', caller', j, Since(Start(j)))
               b == Used(passed', caller', j, Before(Start(j)))
               x == Turns(j, Since(Start(j)))
               y == Turns(j, Before(Start(j)))
    <3>4. a <= x /\ a \in Nat /\ x \in Nat /\ b <= y /\ b \in Nat /\ y \in Nat
      BY <1>u, <2>2
    <3>5. Start(j) \in Nat /\ Start(j) <= clock /\ x <= entries[j].count /\ x <= MaxRate
          /\ y <= MaxRate
      BY <1>p, <3>1 DEF LiveInv
    <3> HIDE DEF a, b, x, y
    <3>6. a <= entries[j].count /\ a <= MaxRate /\ b <= MaxRate
      BY <1>t, <3>3, <3>4, <3>5
    <3>7. QED
      BY <3>1, <3>2, <3>5, <3>6 DEF a, b
  <2>3. QED
    BY <2>1, <2>2
<1>3. IdleInv'
  <2> SUFFICES ASSUME NEW j \in Key, ~Live(j)'
               PROVE  /\ Used(passed', caller', j, Since(clock)) = 0
                      /\ Used(passed', caller', j, Before(clock)) <= MaxRate
    BY <1>s DEF IdleInv, Turns, Since, Before
  <2>1. j # k /\ ~Live(j)
    BY <1>j, <1>k
  <2> DEFINE a == Used(passed', caller', j, Since(clock))
             b == Used(passed', caller', j, Before(clock))
             x == Turns(j, Since(clock))
             y == Turns(j, Before(clock))
  <2>2. a <= x /\ a \in Nat /\ b <= y /\ b \in Nat /\ y \in Nat
    BY <1>u, <2>1
  <2>3. x = 0 /\ y <= MaxRate
    BY <1>p, <2>1 DEF IdleInv
  <2> HIDE DEF a, b, x, y
  <2>4. a = 0 /\ b <= MaxRate
    BY <1>t, <2>2, <2>3
  <2>5. QED
    BY <2>4 DEF a, b
<1>4. SpanInv'
  <2> SUFFICES ASSUME NEW j \in Key, NEW t \in Nat
               PROVE  Used(passed', caller', j, t..(t + Window - 1)) <= 2 * MaxRate
    BY DEF SpanInv, Turns
  <2> DEFINE S == t..(t + Window - 1)
             a == Used(passed', caller', j, S)
  <2>0. a \in Nat /\ Turns(j, S) \in Nat /\ Turns(j, S) <= 2 * MaxRate /\ 2 * MaxRate \in Nat
    <3>1. a \in Nat /\ Turns(j, S) \in Nat
      BY <1>u
    <3>2. Turns(j, S) <= 2 * MaxRate
      BY <1>p DEF SpanInv
    <3>3. QED
      BY <1>t, <3>1, <3>2
  <2>1. CASE j # k \/ clock \notin S
    <3>1. a <= Turns(j, S)
      BY <1>u, <2>1
    <3> HIDE DEF a
    <3>2. a <= 2 * MaxRate
      BY <2>0, <3>1
    <3>3. QED
      BY <3>2 DEF a
  <2>2. CASE j = k /\ clock \in S
    <3> DEFINE b == Start(k)'
               x == Used(passed', caller', k, Before(b))
               y == Used(passed', caller', k, Since(b))
               z == Used(passed', caller', k, Before(b) \cup Since(b))
    <3>1. passed' \in [Key -> Seq(Nat)] /\ caller' \in [Caller -> CallerState]
      BY DEF GateInv, GateTypeOK
    <3>2. z <= x + y /\ x \in Nat /\ y \in Nat /\ z \in Nat
      BY <3>1, UsedUnion, UsedNat
    <3>3. x <= MaxRate /\ y <= MaxRate
      <4>1. y <= Turn(k).count
        BY <1>k
      <4> HIDE DEF y
      <4>2. y <= MaxRate
        BY <1>t, <1>s, <1>c, <3>2, <4>1
      <4>3. QED
        BY <1>k, <4>2
    <3>4. a <= z
      <4>1. \A q \in S : q \in Before(b) \cup Since(b)
        BY <1>t, <1>k, <2>2 DEF Before, Since
      <4>2. \A i \in PassedIn(passed', k, S) : passed'[k][i] \in Before(b) \cup Since(b)
        BY <4>1 DEF PassedIn
      <4>3. \A i \in InsideIn(caller', k, S) : caller'[i].at \in Before(b) \cup Since(b)
        BY <4>1 DEF InsideIn
      <4>4. QED
        BY <2>2, <3>1, <4>2, <4>3, UsedMono
    <3> HIDE DEF a, x, y, z
    <3>5. a <= 2 * MaxRate
      BY <1>t, <2>0, <3>2, <3>3, <3>4
    <3>6. QED
      BY <3>5 DEF a
  <2>3. QED
    BY <2>1, <2>2
<1>5. QED
  BY <1>1, <1>2, <1>3, <1>4 DEF BudgetInv

\* Nothing was taken yet.
LEMMA BudgetInit == GateInit => BudgetInv
<1> SUFFICES ASSUME GateInit PROVE BudgetInv
  OBVIOUS
<1>1. /\ \A k \in Key : passed[k] = <<>> /\ DOMAIN passed[k] = {}
      /\ \A c \in Caller : caller[c].pc = "out"
      /\ DOMAIN entries = {}
  BY OutCallerType DEF GateInit
<1>2. \A k \in Key : \A S : Turns(k, S) = 0
  <2>1. ASSUME NEW k \in Key, NEW S PROVE PassedIn(passed, k, S) = {} /\ InsideIn(caller, k, S) = {}
    BY <1>1 DEF PassedIn, InsideIn
  <2>2. QED
    BY <2>1, FS_EmptySet DEF Turns, Used
<1>3. MaxRate \in Nat /\ 0 <= MaxRate /\ 0 <= 2 * MaxRate
  BY GateConstants
<1>4. PastInv /\ LiveInv
  BY <1>1 DEF PastInv, LiveInv, Live
<1>5. IdleInv /\ SpanInv
  BY <1>2, <1>3 DEF IdleInv, SpanInv
<1>6. QED
  BY <1>4, <1>5 DEF BudgetInv

\* A key never passes more than two budgets within one window, whatever Redis
\* does, whichever other keys crowd the limiter and however long a request that
\* has its turn waits for Redis: no outage and no sweep starts a fresh window.
THEOREM LocalBudgetHolds == GateSpec => []LocalBudget
<1>1. GateSpec => []GateInv
  BY GateInvInit, GateInvNext, PTL DEF GateSpec
<1>2. ASSUME GateInv, GateInv', BudgetInv, [GateNext]_gateVars PROVE BudgetInv'
  <2>1. CASE UNCHANGED gateVars
    BY <1>2, <2>1 DEF gateVars, BudgetInv, PastInv, LiveInv, IdleInv, SpanInv, Live, Start, Turns
  <2>2. CASE GateNext
    BY <1>2, <2>2, BudgetTick, BudgetTaken, BudgetQuietStep
  <2>3. QED
    BY <1>2, <2>1, <2>2
<1>3. GateInv /\ BudgetInv => LocalBudget
  <2> SUFFICES ASSUME GateInv, BudgetInv, NEW k \in Key, NEW t \in 1..clock
               PROVE  Cardinality({i \in DOMAIN passed[k] : passed[k][i] \in t..(t + Window - 1)})
                        <= 2 * MaxRate
    BY DEF LocalBudget
  <2> DEFINE S == t..(t + Window - 1)
             a == Cardinality(PassedIn(passed, k, S))
             b == Cardinality(InsideIn(caller, k, S))
  <2>1. t \in Nat /\ MaxRate \in Nat
    BY GateConstants DEF GateInv, GateTypeOK
  <2>2. a \in Nat /\ b \in Nat
    BY UsedNat DEF GateInv, GateTypeOK
  <2>3. a + b <= 2 * MaxRate
    BY <2>1 DEF BudgetInv, SpanInv, Turns, Used
  <2>4. {i \in DOMAIN passed[k] : passed[k][i] \in S} = PassedIn(passed, k, S)
    BY DEF PassedIn
  <2> HIDE DEF S
  <2>5. Cardinality({i \in DOMAIN passed[k] : passed[k][i] \in S}) = a
    BY <2>4
  <2> HIDE DEF a, b
  <2>6. a <= 2 * MaxRate
    BY <2>1, <2>2, <2>3
  <2>7. QED
    BY <2>5, <2>6 DEF S
<1>4. QED
  BY <1>1, <1>2, <1>3, BudgetInit, PTL DEF GateSpec

-----------------------------------------------------------------------------
(***************************************************************************)
(* Both together.                                                          *)
(***************************************************************************)

\* The process implements both of its parts: a step of one leaves the other's
\* variables alone.
THEOREM FrontDoorParts == Spec => AccountsSpec /\ GateSpec
<1>1. Init => AccountsInit /\ GateInit
  BY DEF Init
<1>2. [Next]_<<focus, accountsVars, gateVars>> =>
        [AccountsNext]_accountsVars /\ [GateNext]_gateVars
  BY DEF Next
<1>3. QED
  BY <1>1, <1>2, PTL DEF Spec, AccountsSpec, GateSpec

\* The account tables and the gate are well typed in every reachable state of
\* the process.
THEOREM FrontDoorTyped == Spec => []FrontDoorTypeOK
<1>1. AccountsTypeOK /\ GateTypeOK => FrontDoorTypeOK
  BY DEF FrontDoorTypeOK
<1>2. QED
  BY <1>1, FrontDoorParts, AccountsTyped, GateTyped, PTL
=============================================================================

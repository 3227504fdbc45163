--------------------------- MODULE VideoCacheProofs ---------------------------
(***************************************************************************)
(* Proofs about VideoCache, for any number of processes, flights, requests *)
(* and writers.                                                            *)
(***************************************************************************)
EXTENDS VideoCache, FiniteSetTheorems, TLAPS

\* What was evicted has been committed, and bounds the fences from above.
VersionInv ==
    /\ evicted <= db
    /\ \A p \in Proc : fence[p] <= evicted
    /\ \A w \in Writer : writer[w].ver <= db

\* A flight's value may still become visible: it is no older than the floor.
Valid(f) == flight[f].ver # Absent => flight[f].ver >= flight[f].floor

\* A flight keyed by the current generation began after the last invalidation,
\* so its floor is the fence; one that holds the lock read no evicted version.
FlightOK(f) ==
    flight[f].pc # "idle" =>
      /\ flight[f].proc \in Proc
      /\ flight[f].gen <= epoch[flight[f].proc]
      /\ flight[f].floor <= fence[flight[f].proc]
      /\ flight[f].gen = epoch[flight[f].proc] => flight[f].floor = fence[flight[f].proc]
      /\ Valid(f)
      /\ flight[f].pc \in {"publish", "put"} => flight[f].ver # Absent
      /\ flight[f].pc = "publish" /\ lock = f => flight[f].ver >= evicted

FlightInv == \A f \in Flight : FlightOK(f)

\* A request's floor is no higher than that of any flight it waits on or may join.
ReqOK(r) ==
    /\ req[r].pc # "idle" => req[r].proc \in Proc /\ req[r].floor <= fence[req[r].proc]
    /\ req[r].pc = "keyed" =>
         /\ req[r].gen <= epoch[req[r].proc]
         /\ \A f \in Running(req[r].proc, req[r].gen) : req[r].floor <= flight[f].floor
    /\ req[r].pc = "waiting" =>
         /\ req[r].on \in Flight
         /\ flight[req[r].on].pc # "idle"
         /\ flight[req[r].on].proc = req[r].proc
         /\ req[r].floor <= flight[req[r].on].floor
    /\ req[r].pc = "answered" => req[r].ver >= req[r].floor

ReqInv == \A r \in Req : ReqOK(r)

\* Only a present entry is fresh.
FreshPresent == \A p \in Proc : l1[p].fresh => l1[p].ver # Absent

IInv == TypeOK /\ VersionInv /\ L2Coherent /\ L1Fenced /\ FreshPresent /\ FlightInv /\ ReqInv

-----------------------------------------------------------------------------
\* The actions, one by one.
LEMMA NextCases ==
    ASSUME Next
    PROVE  \/ \E r \in Req, p \in Proc : Lookup(r, p)
           \/ \E r \in Req : ReadGeneration(r) \/ FlightsFull(r) \/ Leave(r)
           \/ \E r \in Req, f \in Flight : Join(r, f) \/ StartFlight(r, f)
           \/ \E f \in Flight : \/ ReadHit(f) \/ ReadMiss(f) \/ ReadError(f)
                                \/ TakeLock(f) \/ LockBusy(f) \/ LockError(f) \/ WaitDeadline(f)
                                \/ NoDatabase(f) \/ Query(f) \/ Publish(f) \/ PublishRevoked(f)
                                \/ PublishError(f) \/ PutLocal(f)
           \/ \E f \in Flight : Return(f)
           \/ \E w \in Writer, p \in Proc : Commit(w, p)
           \/ \E w \in Writer : InvalidateLocal(w) \/ Evict(w) \/ EvictError(w)
           \/ \E p \in Proc : OtherInvalidated(p) \/ L1Ages(p) \/ L1Drops(p) \/ Restart(p)
           \/ L2Expires \/ LockExpires
BY DEF Next, Request, Load, Write, Surroundings

\* The idle records are well typed.
LEMMA IdleTypes ==
    /\ NoEntry \in [ver: Version, fresh: BOOLEAN]
    /\ IdleFlight \in FlightState /\ IdleFlight.pc = "idle"
    /\ IdleReq \in ReqState /\ IdleReq.pc = "idle"
    /\ IdleWriter \in WriterState /\ IdleWriter.ver = 0
    /\ NoEntry.ver = Absent /\ ~NoEntry.fresh
BY DEF NoEntry, Version, Absent, IdleFlight, FlightState, FlightPC, IdleReq, ReqState, IdleWriter,
       WriterState

\* The fields of a flight that moves on.
LEMMA GotoWithFacts ==
    ASSUME TypeOK, NEW f \in Flight, NEW pc \in FlightPC, NEW v \in Version, GotoWith(f, pc, v)
    PROVE  /\ flight' \in [Flight -> FlightState]
           /\ flight'[f].pc = pc /\ flight'[f].ver = v
           /\ flight'[f].proc = flight[f].proc /\ flight'[f].gen = flight[f].gen
           /\ flight'[f].floor = flight[f].floor /\ flight'[f].locked = flight[f].locked
           /\ \A h \in Flight \ {f} : flight'[h] = flight[h]
BY DEF TypeOK, GotoWith, FlightState

\* The same, when the flight keeps its value.
LEMMA GotoFacts ==
    ASSUME TypeOK, NEW f \in Flight, NEW pc \in FlightPC, Goto(f, pc)
    PROVE  /\ flight' \in [Flight -> FlightState]
           /\ flight'[f].pc = pc /\ flight'[f].ver = flight[f].ver
           /\ flight'[f].proc = flight[f].proc /\ flight'[f].gen = flight[f].gen
           /\ flight'[f].floor = flight[f].floor /\ flight'[f].locked = flight[f].locked
           /\ \A h \in Flight \ {f} : flight'[h] = flight[h]
BY DEF TypeOK, Goto, FlightState

\* With cold caches and nobody at work the invariant holds.
LEMMA InitIInv == Init => IInv
<1> SUFFICES ASSUME Init PROVE IInv
  OBVIOUS
<1> USE IdleTypes
<1>1. TypeOK
  <2>1. Absent \in Version /\ None \in Flight \cup {None}
    BY DEF Version
  <2>2. QED
    BY <2>1 DEF Init, TypeOK
<1>2. VersionInv /\ L2Coherent /\ L1Fenced /\ FreshPresent
  BY DEF Init, VersionInv, L2Coherent, L1Fenced, FreshPresent
<1>3. FlightInv /\ ReqInv
  BY DEF Init, FlightInv, FlightOK, ReqInv, ReqOK
<1>4. QED
  BY <1>1, <1>2, <1>3 DEF IInv

-----------------------------------------------------------------------------
\* What a step of a loader does to its flight, short of returning.
Moves(f) ==
    /\ flight' \in [Flight -> FlightState]
    /\ flight[f].pc # "idle" /\ flight'[f].pc # "idle"
    /\ flight'[f].proc = flight[f].proc /\ flight'[f].gen = flight[f].gen
    /\ flight'[f].floor = flight[f].floor
    /\ \A h \in Flight \ {f} : flight'[h] = flight[h]

\* The version it carries on with: its own, or one read now.
Carries(f) ==
    \/ flight'[f].ver = flight[f].ver
    \/ flight'[f].ver = db
    \/ l2 # Absent /\ flight'[f].ver = l2
    \/ flight'[f].ver = l1[flight[f].proc].ver
    \/ flight'[f].ver = Absent

\* Only the query leads to "publish", and only a read leads to "put" from elsewhere.
Reads(f) ==
    /\ flight'[f].pc = "publish" => flight'[f].ver = db
    /\ flight'[f].pc = "put" =>
         \/ flight[f].pc = "publish" /\ flight'[f].ver = flight[f].ver
         \/ flight'[f].ver = db
         \/ l2 # Absent /\ flight'[f].ver = l2

Loading(f) ==
    \/ ReadHit(f) \/ ReadMiss(f) \/ ReadError(f)
    \/ TakeLock(f) \/ LockBusy(f) \/ LockError(f) \/ WaitDeadline(f)
    \/ NoDatabase(f) \/ Query(f) \/ Publish(f) \/ PublishRevoked(f)
    \/ PublishError(f) \/ PutLocal(f)

\* What every step of the loader before its return does to the flight.
LEMMA LoadingMoves ==
    ASSUME TypeOK, FlightInv, NEW f \in Flight, Loading(f)
    PROVE  Moves(f) /\ Carries(f) /\ Reads(f)
<1> USE DEF FlightPC
<1>1. CASE ReadHit(f)
  <2>1. l2 \in Version /\ l2 # Absent /\ GotoWith(f, "put", l2) /\ flight[f].pc # "idle"
    BY <1>1 DEF ReadHit, TypeOK
  <2>2. QED
    BY <2>1, GotoWithFacts DEF Moves, Carries, Reads
<1>2. CASE ReadMiss(f)
  <2>1. PICK pc \in {"lock", "query"} : Goto(f, pc) /\ flight[f].pc # "idle"
    BY <1>2 DEF ReadMiss
  <2>2. QED
    BY <2>1, GotoFacts DEF Moves, Carries, Reads
<1>3. CASE ReadError(f) \/ LockError(f)
  <2>1. Goto(f, "query") /\ flight[f].pc # "idle"
    BY <1>3 DEF ReadError, LockError
  <2>2. QED
    BY <2>1, GotoFacts DEF Moves, Carries, Reads
<1>4. CASE TakeLock(f)
  <2>1. flight' = [flight EXCEPT ![f].pc = "recheck", ![f].locked = TRUE] /\ flight[f].pc = "lock"
    BY <1>4 DEF TakeLock
  <2>2. flight[f] \in FlightState
    BY DEF TypeOK
  <2>3. [flight[f] EXCEPT !.pc = "recheck", !.locked = TRUE] \in FlightState
    BY <2>2 DEF FlightState
  <2>4. flight' \in [Flight -> FlightState]
    BY <2>1, <2>3 DEF TypeOK
  <2>5. QED
    BY <2>1, <2>2, <2>4 DEF Moves, Carries, Reads, TypeOK, FlightState
<1>5. ASSUME StaleOrError(f), flight[f].pc # "idle" PROVE Moves(f) /\ Carries(f) /\ Reads(f)
  <2>1. PICK v \in Version : GotoWith(f, "return", v) /\ v \in {Absent, l1[flight[f].proc].ver}
    <3>1. Absent \in Version
      BY DEF Version
    <3>2. flight[f].proc \in Proc
      BY <1>5 DEF FlightInv, FlightOK
    <3>3. l1[flight[f].proc].ver \in Version
      BY <3>2 DEF TypeOK
    <3>4. QED
      BY <1>5, <3>1, <3>3 DEF StaleOrError
  <2>2. QED
    BY <1>5, <2>1, GotoWithFacts DEF Moves, Carries, Reads
<1>6. CASE LockBusy(f)
  <2>1. CASE StaleOrError(f)
    BY <1>5, <1>6, <2>1 DEF LockBusy
  <2>2. CASE Goto(f, "wait")
    BY <1>6, <2>2, GotoFacts DEF Moves, Carries, Reads, LockBusy
  <2>3. QED
    BY <1>6, <2>1, <2>2 DEF LockBusy
<1>7. CASE NoDatabase(f)
  BY <1>5, <1>7 DEF NoDatabase
<1>8. CASE WaitDeadline(f) \/ PublishRevoked(f) \/ PutLocal(f)
  <2>1. Goto(f, "return") /\ flight[f].pc # "idle"
    BY <1>8 DEF WaitDeadline, AfterDeadline, PublishRevoked, PutLocal
  <2>2. QED
    BY <2>1, GotoFacts DEF Moves, Carries, Reads
<1>9. CASE Query(f)
  <2>1. PICK pc \in {"publish", "put"} : GotoWith(f, pc, db) /\ flight[f].pc # "idle"
    BY <1>9 DEF Query
  <2>2. db \in Version
    BY DEF TypeOK, Version
  <2>3. QED
    BY <2>1, <2>2, GotoWithFacts DEF Moves, Carries, Reads
<1>10. CASE Publish(f) \/ PublishError(f)
  <2>1. Goto(f, "put") /\ flight[f].pc = "publish"
    BY <1>10 DEF Publish, PublishError
  <2>2. QED
    BY <2>1, GotoFacts DEF Moves, Carries, Reads
<1>11. QED
  BY <1>1, <1>2, <1>3, <1>4, <1>6, <1>7, <1>8, <1>9, <1>10 DEF Loading

-----------------------------------------------------------------------------
\* No step leaves the types.
LEMMA TypeStep == IInv /\ Next => TypeOK'
<1> SUFFICES ASSUME IInv, Next PROVE TypeOK'
  OBVIOUS
<1> TypeOK /\ FlightInv /\ ReqInv
  BY DEF IInv
<1> USE IdleTypes
<1>1. ASSUME NEW r \in Req, NEW p \in Proc, Lookup(r, p) PROVE TypeOK'
  <2>1. l1[p].ver \in Version /\ Absent \in Version /\ fence[p] \in Nat
    BY DEF TypeOK, Version
  <2>2. req' \in [Req -> ReqState]
    BY <1>1, <2>1 DEF Lookup, TypeOK, ReqState, IdleReq
  <2>3. QED
    BY <1>1, <2>2 DEF Lookup, TypeOK
<1>2. ASSUME NEW r \in Req, ReadGeneration(r) PROVE TypeOK'
  <2>1. epoch[req[r].proc] \in Nat
    BY <1>2 DEF ReadGeneration, ReqInv, ReqOK, TypeOK
  <2>2. req' \in [Req -> ReqState]
    BY <1>2, <2>1 DEF ReadGeneration, TypeOK, ReqState
  <2>3. QED
    BY <1>2, <2>2 DEF ReadGeneration, TypeOK
<1>3. ASSUME NEW r \in Req, Leave(r) \/ FlightsFull(r) PROVE TypeOK'
  BY <1>3 DEF Leave, FlightsFull, TypeOK
<1>4. ASSUME NEW r \in Req, NEW f \in Flight, Join(r, f) PROVE TypeOK'
  <2>1. req' = [req EXCEPT ![r].pc = "waiting", ![r].on = f]
    BY <1>4 DEF Join
  <2>2. req' \in [Req -> ReqState]
    <3>1. req \in [Req -> ReqState]
      BY DEF TypeOK
    <3>2. QED
      BY <2>1, <3>1 DEF ReqState
  <2>3. QED
    BY <1>4, <2>2 DEF Join, TypeOK
<1>5. ASSUME NEW r \in Req, NEW f \in Flight, StartFlight(r, f) PROVE TypeOK'
  <2>1. req[r].proc \in Proc /\ req[r].gen \in Nat /\ fence[req[r].proc] \in Nat
    BY <1>5 DEF StartFlight, ReqInv, ReqOK, TypeOK, ReqState
  <2>2. req' \in [Req -> ReqState]
    <3>1. req' = [req EXCEPT ![r].pc = "waiting", ![r].on = f]
      BY <1>5 DEF StartFlight
    <3>2. QED
      BY <3>1 DEF TypeOK, ReqState
  <2>3. flight' \in [Flight -> FlightState]
    BY <1>5, <2>1 DEF StartFlight, TypeOK, FlightState, FlightPC, IdleFlight
  <2>4. QED
    BY <1>5, <2>2, <2>3 DEF StartFlight, TypeOK
<1>6. ASSUME NEW f \in Flight, Loading(f) PROVE TypeOK'
  <2>1. flight' \in [Flight -> FlightState]
    BY <1>6, LoadingMoves DEF Moves
  <2>2. flight[f] \in FlightState /\ flight[f].ver \in Version
    BY DEF TypeOK, FlightState
  <2>3. l1' \in [Proc -> [ver: Version, fresh: BOOLEAN]]
    <3>1. CASE PutLocal(f)
      BY <2>2, <3>1 DEF PutLocal, TypeOK
    <3>2. CASE UNCHANGED l1
      BY <3>2 DEF TypeOK
    <3>3. QED
      BY <1>6, <3>1, <3>2 DEF Loading, ReadHit, ReadMiss, ReadError, TakeLock, LockBusy, LockError,
         WaitDeadline, NoDatabase, Query, Publish, PublishRevoked, PublishError
  <2>4. l2' \in {l2, flight[f].ver} /\ lock' \in {lock, f, None}
    BY <1>6 DEF Loading, ReadHit, ReadMiss, ReadError, TakeLock, LockBusy, LockError,
       WaitDeadline, NoDatabase, Query, Publish, PublishRevoked, PublishError, PutLocal
  <2>5. faults' \in Nat
    BY <1>6 DEF Loading, ReadHit, ReadMiss, ReadError, TakeLock, LockBusy, LockError,
       WaitDeadline, NoDatabase, Query, Publish, PublishRevoked, PublishError, PutLocal, TypeOK, Fault
  <2>6. UNCHANGED <<db, epoch, req, writer, evicted, fence>>
    BY <1>6 DEF Loading, ReadHit, ReadMiss, ReadError, TakeLock, LockBusy, LockError,
       WaitDeadline, NoDatabase, Query, Publish, PublishRevoked, PublishError, PutLocal
  <2>7. QED
    BY <2>1, <2>2, <2>3, <2>4, <2>5, <2>6 DEF TypeOK
<1>7. ASSUME NEW f \in Flight, Return(f) PROVE TypeOK'
  <2>1. flight[f].ver \in Version
    BY DEF TypeOK, FlightState
  <2>2. req' \in [Req -> ReqState]
    BY <1>7, <2>1 DEF Return, TypeOK, ReqState
  <2>3. flight' \in [Flight -> FlightState]
    BY <1>7 DEF Return, TypeOK
  <2>4. lock' \in {lock, None} /\ faults' \in {faults, faults + 1}
    <3>1. \/ /\ lock' = IF flight[f].locked /\ lock = f THEN None ELSE lock
             /\ faults' = faults
          \/ faults' = faults + 1 /\ lock' = lock
      BY <1>7 DEF Return, Fault
    <3>2. QED
      BY <3>1
  <2>5. UNCHANGED <<db, l1, epoch, l2, writer, evicted, fence>>
    BY <1>7 DEF Return
  <2>6. lock' \in Flight \cup {None} /\ faults' \in Nat
    BY <2>4 DEF TypeOK
  <2>7. QED
    BY <2>2, <2>3, <2>5, <2>6 DEF TypeOK
<1>8. ASSUME NEW w \in Writer, NEW p \in Proc, Commit(w, p) PROVE TypeOK'
  <2>1. db + 1 \in Nat
    BY DEF TypeOK
  <2>2. [pc |-> "committed", proc |-> p, ver |-> db + 1] \in WriterState
    BY <2>1 DEF WriterState
  <2>3. QED
    BY <1>8, <2>1, <2>2 DEF Commit, TypeOK
<1>9. ASSUME NEW w \in Writer, InvalidateLocal(w) PROVE TypeOK'
  <2>1. epoch' \in [Proc -> Nat]
    <3>1. epoch' = [p \in Proc |-> IF p = writer[w].proc THEN epoch[p] + 1 ELSE epoch[p]]
      BY <1>9 DEF InvalidateLocal, TypeOK
    <3>2. QED
      BY <3>1 DEF TypeOK
  <2>2. l1' \in [Proc -> [ver: Version, fresh: BOOLEAN]] /\ fence' \in [Proc -> Nat]
    BY <1>9 DEF InvalidateLocal, TypeOK
  <2>3. writer' \in [Writer -> WriterState]
    BY <1>9 DEF InvalidateLocal, TypeOK, WriterState
  <2>4. QED
    BY <1>9, <2>1, <2>2, <2>3 DEF InvalidateLocal, TypeOK
<1>10. ASSUME NEW w \in Writer, Evict(w) \/ EvictError(w) PROVE TypeOK'
  <2>1. l2' \in Version /\ lock' \in Flight \cup {None}
    <3>1. l2' \in {l2, Absent} /\ lock' \in {lock, None}
      BY <1>10 DEF Evict, EvictError, EvictKeys, LockAfterEvict
    <3>2. QED
      BY <3>1 DEF TypeOK, Version
  <2>2. evicted' \in Nat /\ faults' \in Nat
    BY <1>10 DEF Evict, EvictError, Fault, TypeOK, WriterState
  <2>3. writer' \in [Writer -> WriterState]
    BY <1>10 DEF Evict, EvictError, TypeOK
  <2>4. QED
    BY <1>10, <2>1, <2>2, <2>3 DEF Evict, EvictError, TypeOK
<1>11. ASSUME NEW p \in Proc, OtherInvalidated(p) PROVE TypeOK'
  BY <1>11 DEF OtherInvalidated, TypeOK
<1>12. ASSUME NEW p \in Proc, L1Ages(p) \/ L1Drops(p) PROVE TypeOK'
  <2>1. l1' \in [Proc -> [ver: Version, fresh: BOOLEAN]]
    <3>1. l1[p] \in [ver: Version, fresh: BOOLEAN]
      BY DEF TypeOK
    <3>2. [l1[p] EXCEPT !.fresh = FALSE] \in [ver: Version, fresh: BOOLEAN]
      BY <3>1
    <3>3. QED
      BY <1>12, <3>2 DEF L1Ages, L1Drops, TypeOK
  <2>2. QED
    BY <1>12, <2>1 DEF L1Ages, L1Drops, TypeOK
<1>13. ASSUME NEW p \in Proc, Restart(p) PROVE TypeOK'
  <2>1. l1' \in [Proc -> [ver: Version, fresh: BOOLEAN]] /\ fence' \in [Proc -> Nat]
    BY <1>13 DEF Restart, TypeOK
  <2>2. epoch' \in [Proc -> Nat] /\ faults' \in Nat
    BY <1>13 DEF Restart, Fault, TypeOK
  <2>3. flight' \in [Flight -> FlightState] /\ req' \in [Req -> ReqState]
        /\ writer' \in [Writer -> WriterState]
    BY <1>13 DEF Restart, TypeOK
  <2>4. QED
    BY <1>13, <2>1, <2>2, <2>3 DEF Restart, TypeOK
<1>14. CASE L2Expires \/ LockExpires
  BY <1>14 DEF L2Expires, LockExpires, TypeOK, Version
<1>15. QED
  BY <1>1, <1>2, <1>3, <1>4, <1>5, <1>6, <1>7, <1>8, <1>9, <1>10, <1>11, <1>12, <1>13, <1>14,
     NextCases DEF Loading

-----------------------------------------------------------------------------
\* Fences and evictions follow the commits.
LEMMA VersionStep == IInv /\ Next => VersionInv'
<1> SUFFICES ASSUME IInv, Next PROVE VersionInv'
  OBVIOUS
<1> TypeOK /\ VersionInv
  BY DEF IInv
<1> USE IdleTypes
<1>1. CASE UNCHANGED <<db, evicted, fence, writer>>
  BY <1>1 DEF VersionInv
<1>2. ASSUME NEW w \in Writer, NEW p \in Proc, Commit(w, p) PROVE VersionInv'
  <2>1. \A x \in Writer : writer'[x].ver \in {writer[x].ver, db + 1}
    BY <1>2 DEF Commit, TypeOK
  <2>2. \A x \in Writer : writer[x].ver \in Nat
    BY DEF TypeOK, WriterState
  <2>3. db \in Nat /\ evicted \in Nat /\ db' = db + 1 /\ UNCHANGED <<evicted, fence>>
    BY <1>2 DEF Commit, TypeOK
  <2>4. QED
    BY <2>1, <2>2, <2>3 DEF VersionInv
<1>3. ASSUME NEW w \in Writer, InvalidateLocal(w) PROVE VersionInv'
  <2>1. \A x \in Writer : writer'[x].ver = writer[x].ver
    BY <1>3 DEF InvalidateLocal, TypeOK, WriterState
  <2>2. \A p \in Proc : fence'[p] \in {fence[p], evicted}
    BY <1>3 DEF InvalidateLocal, TypeOK
  <2>3. QED
    BY <1>3, <2>1, <2>2 DEF InvalidateLocal, VersionInv, TypeOK
<1>4. ASSUME NEW w \in Writer, Evict(w) \/ EvictError(w) PROVE VersionInv'
  <2>1. \A x \in Writer : writer'[x].ver \in {writer[x].ver, 0}
    BY <1>4 DEF Evict, EvictError, TypeOK
  <2>2. evicted' \in {evicted, writer[w].ver} /\ evicted' >= evicted
    BY <1>4 DEF Evict, EvictError, TypeOK, WriterState
  <2>3. \A p \in Proc : fence[p] \in Nat
    BY DEF TypeOK
  <2>4. UNCHANGED <<db, fence>>
    BY <1>4 DEF Evict, EvictError
  <2>5. evicted \in Nat /\ db \in Nat /\ writer[w].ver \in Nat
    BY DEF TypeOK, WriterState
  <2>6. QED
    BY <2>1, <2>2, <2>3, <2>4, <2>5 DEF VersionInv
<1>5. ASSUME NEW p \in Proc, Restart(p) PROVE VersionInv'
  <2>1. \A x \in Writer : writer'[x].ver \in {writer[x].ver, 0}
    BY <1>5 DEF Restart, TypeOK
  <2>2. \A q \in Proc : fence'[q] \in {fence[q], evicted}
    BY <1>5 DEF Restart, TypeOK
  <2>3. QED
    BY <1>5, <2>1, <2>2 DEF Restart, VersionInv, TypeOK
<1>6. QED
  BY <1>1, <1>2, <1>3, <1>4, <1>5, NextCases
  DEF Lookup, ReadGeneration, FlightsFull, Leave, Join, StartFlight, ReadHit, ReadMiss, ReadError, TakeLock,
      LockBusy, LockError, WaitDeadline, NoDatabase, Query, Publish, PublishRevoked, PublishError,
      PutLocal, Return, OtherInvalidated, L1Ages, L1Drops, L2Expires, LockExpires

\* What is published to L2 was read under the lock, after the last eviction.
LEMMA L2Step == IInv /\ Next => L2Coherent'
<1> SUFFICES ASSUME IInv, Next PROVE L2Coherent'
  OBVIOUS
<1> TypeOK /\ L2Coherent /\ FlightInv
  BY DEF IInv
<1>1. CASE UNCHANGED evicted /\ l2' \in {l2, Absent}
  BY <1>1 DEF L2Coherent
<1>2. ASSUME NEW f \in Flight, flight[f].pc = "publish", MayPublish(f), l2' = flight[f].ver,
             UNCHANGED evicted
      PROVE  L2Coherent'
  BY <1>2 DEF MayPublish, FlightInv, FlightOK, L2Coherent
<1>3. ASSUME NEW w \in Writer, Evict(w) \/ EvictError(w) PROVE L2Coherent'
  <2>1. l2' = Absent \/ UNCHANGED <<l2, evicted>>
    BY <1>3 DEF Evict, EvictError, EvictKeys
  <2>2. QED
    BY <2>1 DEF L2Coherent
<1>4. QED
  BY <1>1, <1>2, <1>3, NextCases
  DEF Lookup, ReadGeneration, FlightsFull, Leave, Join, StartFlight, ReadHit, ReadMiss, ReadError, TakeLock,
      LockBusy, LockError, WaitDeadline, NoDatabase, Query, Publish, PublishRevoked, PublishError,
      PutLocal, Return, OtherInvalidated, L1Ages, L1Drops, L2Expires, LockExpires,
      Commit, InvalidateLocal, Restart

\* What is put into L1 was read in the current generation, so it is not below the fence.
LEMMA L1Step == IInv /\ Next => L1Fenced'
<1> SUFFICES ASSUME IInv, Next PROVE L1Fenced'
  OBVIOUS
<1> TypeOK /\ L1Fenced /\ FlightInv
  BY DEF IInv
<1> USE IdleTypes
<1>1. CASE UNCHANGED <<l1, fence>>
  BY <1>1 DEF L1Fenced
<1>2. ASSUME NEW f \in Flight, PutLocal(f) PROVE L1Fenced'
  <2>1. CASE MayPut(f)
    <3>1. flight[f].proc \in Proc /\ flight[f].ver >= fence[flight[f].proc]
      BY <1>2, <2>1 DEF PutLocal, MayPut, FlightInv, FlightOK, Valid
    <3>2. l1'[flight[f].proc].ver = flight[f].ver
      BY <1>2, <2>1, <3>1 DEF PutLocal, TypeOK
    <3>3. \A p \in Proc \ {flight[f].proc} : l1'[p] = l1[p]
      BY <1>2, <2>1 DEF PutLocal, TypeOK
    <3>4. QED
      BY <1>2, <3>1, <3>2, <3>3 DEF PutLocal, L1Fenced
  <2>2. CASE ~MayPut(f)
    BY <1>1, <1>2, <2>2 DEF PutLocal
  <2>3. QED
    BY <2>1, <2>2
<1>3. ASSUME NEW p \in Proc, L1Ages(p) \/ L1Drops(p) PROVE L1Fenced'
  <2>1. \A q \in Proc : l1'[q].ver \in {l1[q].ver, Absent}
    BY <1>3 DEF L1Ages, L1Drops, TypeOK
  <2>2. QED
    BY <1>3, <2>1 DEF L1Ages, L1Drops, L1Fenced
<1>4. ASSUME NEW p, l1' = [l1 EXCEPT ![p] = NoEntry], fence' = [fence EXCEPT ![p] = evicted]
      PROVE  L1Fenced'
  BY <1>4 DEF L1Fenced, TypeOK
<1>5. QED
  BY <1>1, <1>2, <1>3, <1>4, NextCases
  DEF Lookup, ReadGeneration, FlightsFull, Leave, Join, StartFlight, ReadHit, ReadMiss, ReadError, TakeLock,
      LockBusy, LockError, WaitDeadline, NoDatabase, Query, Publish, PublishRevoked, PublishError,
      Return, OtherInvalidated, L2Expires, LockExpires, Commit, InvalidateLocal, Evict, EvictError,
      Restart

\* A fresh entry of L1 always has a value.
LEMMA FreshStep == IInv /\ Next => FreshPresent'
<1> SUFFICES ASSUME IInv, Next PROVE FreshPresent'
  OBVIOUS
<1> TypeOK /\ FreshPresent /\ FlightInv
  BY DEF IInv
<1> USE IdleTypes
<1>1. CASE UNCHANGED l1
  BY <1>1 DEF FreshPresent
<1>2. ASSUME NEW f \in Flight, PutLocal(f) PROVE FreshPresent'
  <2>1. flight[f].ver # Absent
    BY <1>2 DEF PutLocal, FlightInv, FlightOK
  <2>2. QED
    BY <1>2, <2>1 DEF PutLocal, FreshPresent, TypeOK
<1>3. ASSUME NEW p \in Proc, L1Ages(p) PROVE FreshPresent'
  BY <1>3 DEF L1Ages, FreshPresent, TypeOK
<1>4. ASSUME NEW p, l1' = [l1 EXCEPT ![p] = NoEntry] PROVE FreshPresent'
  BY <1>4 DEF FreshPresent, TypeOK
<1>5. QED
  BY <1>1, <1>2, <1>3, <1>4, NextCases
  DEF Lookup, ReadGeneration, FlightsFull, Leave, Join, StartFlight, ReadHit, ReadMiss, ReadError, TakeLock,
      LockBusy, LockError, WaitDeadline, NoDatabase, Query, Publish, PublishRevoked, PublishError,
      Return, OtherInvalidated, L1Drops, L2Expires, LockExpires, Commit, InvalidateLocal, Evict,
      EvictError, Restart

-----------------------------------------------------------------------------
\* How the epoch and the fence of a process change together.
FenceMoves(p) ==
    \/ epoch'[p] = epoch[p] /\ fence'[p] = fence[p]
    \/ epoch'[p] > epoch[p] /\ fence'[p] >= fence[p]

\* A flight that does not move keeps its invariant: a lock does not come back to
\* it, and an eviction takes the lock away.
LEMMA FlightFrame ==
    ASSUME TypeOK, TypeOK', NEW f \in Flight, FlightOK(f), flight'[f] = flight[f],
           flight[f].proc \in Proc => FenceMoves(flight[f].proc),
           lock' = f => lock = f /\ evicted' = evicted
    PROVE  FlightOK(f)'
<1> SUFFICES ASSUME flight[f].pc # "idle" PROVE FlightOK(f)'
  BY DEF FlightOK
<1> DEFINE p == flight[f].proc
<1>1. p \in Proc /\ FenceMoves(p)
  BY DEF FlightOK
<1>2. /\ epoch[p] \in Nat /\ epoch'[p] \in Nat /\ fence[p] \in Nat /\ fence'[p] \in Nat
      /\ flight[f].gen \in Nat /\ flight[f].floor \in Nat
  BY <1>1 DEF TypeOK, FlightState
<1>3. /\ flight[f].gen <= epoch'[p]
      /\ flight[f].floor <= fence'[p]
      /\ flight[f].gen = epoch'[p] => flight[f].floor = fence'[p]
  BY <1>1, <1>2 DEF FenceMoves, FlightOK
<1>4. Valid(f)' /\ (flight[f].pc = "publish" /\ lock' = f => flight[f].ver >= evicted')
  BY DEF FlightOK, Valid
<1>5. QED
  BY <1>1, <1>3, <1>4 DEF FlightOK

\* Every step keeps the flights' values no older than their floors, and those of lock
\* holders no older than what was evicted.
LEMMA FlightStep == IInv /\ Next => FlightInv'
<1> SUFFICES ASSUME IInv, Next, NEW h \in Flight PROVE FlightOK(h)'
  BY DEF FlightInv
<1> TypeOK /\ TypeOK' /\ FlightInv /\ FlightOK(h) /\ VersionInv /\ VersionInv'
    /\ L2Coherent /\ L1Fenced /\ ReqInv
  BY TypeStep, VersionStep DEF IInv, FlightInv
<1> None \notin Flight
  BY CacheConstants
<1> USE IdleTypes
<1>1. CASE UNCHANGED <<flight, epoch, fence, lock, evicted>>
  BY <1>1, FlightFrame DEF FenceMoves
<1>2. CASE UNCHANGED <<flight, epoch, fence>> /\ lock' = None
  BY <1>2, FlightFrame DEF FenceMoves
<1>3. ASSUME NEW r \in Req, NEW f \in Flight, StartFlight(r, f) PROVE FlightOK(h)'
  <2>1. UNCHANGED <<epoch, fence, lock, evicted>>
    BY <1>3 DEF StartFlight
  <2>2. CASE h = f
    <3>1. flight'[f] = [IdleFlight EXCEPT !.pc = "read", !.proc = req[r].proc, !.gen = req[r].gen,
                                          !.floor = fence[req[r].proc]]
      BY <1>3 DEF StartFlight, TypeOK
    <3>2. /\ flight'[f].pc = "read" /\ flight'[f].proc = req[r].proc /\ flight'[f].ver = Absent
          /\ flight'[f].gen = req[r].gen /\ flight'[f].floor = fence[req[r].proc]
      BY <3>1 DEF IdleFlight
    <3>3. req[r].proc \in Proc /\ req[r].gen <= epoch[req[r].proc] /\ fence[req[r].proc] \in Nat
      BY <1>3 DEF StartFlight, ReqInv, ReqOK, TypeOK
    <3>4. QED
      BY <2>1, <2>2, <3>2, <3>3 DEF FlightOK, Valid
  <2>3. CASE h # f
    <3>1. flight'[h] = flight[h]
      BY <1>3, <2>3 DEF StartFlight, TypeOK
    <3>2. QED
      BY <2>1, <3>1, FlightFrame DEF FenceMoves
  <2>4. QED
    BY <2>2, <2>3
<1>4. ASSUME NEW f \in Flight, Loading(f) PROVE FlightOK(h)'
  <2>1. Moves(f) /\ Carries(f) /\ Reads(f)
    BY <1>4, LoadingMoves
  <2>2. UNCHANGED <<epoch, fence, evicted>> /\ lock' \in {lock, f, None}
    BY <1>4 DEF Loading, ReadHit, ReadMiss, ReadError, TakeLock, LockBusy, LockError,
       WaitDeadline, NoDatabase, Query, Publish, PublishRevoked, PublishError, PutLocal
  <2>3. CASE h # f
    <3>1. flight'[h] = flight[h]
      BY <2>1, <2>3 DEF Moves
    <3>2. lock' = h => lock = h
      BY <2>2, <2>3
    <3>3. QED
      BY <2>2, <3>1, <3>2, FlightFrame DEF FenceMoves
  <2>4. CASE h = f
    <3> DEFINE p == flight[f].proc
    <3>1. /\ flight'[f].pc # "idle" /\ flight'[f].proc = p
          /\ flight'[f].gen = flight[f].gen /\ flight'[f].floor = flight[f].floor
      BY <2>1 DEF Moves
    <3>2. /\ p \in Proc /\ flight[f].gen <= epoch[p] /\ flight[f].floor <= fence[p]
          /\ flight[f].gen = epoch[p] => flight[f].floor = fence[p]
      BY <2>1, <2>4 DEF FlightOK, Moves
    <3>3. /\ flight[f].floor \in Nat /\ fence[p] \in Nat /\ evicted \in Nat /\ db \in Nat
          /\ fence[p] <= evicted /\ evicted <= db
      BY <3>2 DEF TypeOK, FlightState, VersionInv
    <3>4. Valid(f)
      BY <2>1, <2>4 DEF FlightOK, Moves
    <3>5. Valid(f)'
      <4> SUFFICES ASSUME flight'[f].ver # Absent PROVE flight'[f].ver >= flight[f].floor
        BY <3>1 DEF Valid
      <4>1. CASE flight'[f].ver = flight[f].ver
        BY <3>4, <4>1 DEF Valid
      <4>2. CASE flight'[f].ver = db
        BY <3>2, <3>3, <4>2
      <4>3. CASE l2 # Absent /\ flight'[f].ver = l2
        <5>1. l2 \in Nat /\ l2 >= evicted
          BY <4>3 DEF TypeOK, Version, L2Coherent
        <5>2. QED
          BY <3>2, <3>3, <4>3, <5>1
      <4>4. CASE flight'[f].ver = l1[p].ver
        <5>1. l1[p].ver \in Nat /\ l1[p].ver >= fence[p]
          BY <3>2, <4>4 DEF TypeOK, Version, L1Fenced
        <5>2. QED
          BY <3>2, <3>3, <4>4, <5>1
      <4>5. QED
        BY <2>1, <4>1, <4>2, <4>3, <4>4 DEF Carries
    <3>6. flight'[f].pc \in {"publish", "put"} => flight'[f].ver # Absent
      BY <2>1, <2>4, <3>3 DEF Reads, FlightOK, Absent
    <3>7. flight'[f].pc = "publish" => flight'[f].ver >= evicted
      BY <2>1, <3>3 DEF Reads
    <3>8. QED
      BY <2>2, <2>4, <3>1, <3>2, <3>5, <3>6, <3>7 DEF FlightOK
  <2>5. QED
    BY <2>3, <2>4
<1>5. ASSUME NEW f \in Flight, Return(f) PROVE FlightOK(h)'
  <2>1. UNCHANGED <<epoch, fence, evicted>>
    BY <1>5 DEF Return
  <2>2. lock' \in {lock, None}
    <3>1. \/ lock' = IF flight[f].locked /\ lock = f THEN None ELSE lock
          \/ lock' = lock
      BY <1>5 DEF Return
    <3>2. QED
      BY <3>1
  <2>3. flight'[f].pc = "idle" /\ \A k \in Flight \ {f} : flight'[k] = flight[k]
    BY <1>5 DEF Return, TypeOK
  <2>4. CASE h = f
    BY <2>3, <2>4 DEF FlightOK
  <2>5. CASE h # f
    BY <2>1, <2>2, <2>3, <2>5, FlightFrame DEF FenceMoves
  <2>6. QED
    BY <2>4, <2>5
<1>6. ASSUME NEW w \in Writer, InvalidateLocal(w) PROVE FlightOK(h)'
  <2>1. \A p \in Proc : FenceMoves(p)
    BY <1>6 DEF InvalidateLocal, TypeOK, FenceMoves, VersionInv
  <2>2. QED
    BY <1>6, <2>1, FlightFrame DEF InvalidateLocal
<1>7. ASSUME NEW w \in Writer, Evict(w) \/ EvictError(w) PROVE FlightOK(h)'
  <2>1. UNCHANGED <<flight, epoch, fence>>
    BY <1>7 DEF Evict, EvictError
  <2>2. lock' = None \/ UNCHANGED <<lock, evicted>>
    BY <1>7 DEF Evict, EvictError, EvictKeys, LockAfterEvict
  <2>3. QED
    BY <1>1, <1>2, <2>1, <2>2
<1>8. ASSUME NEW p \in Proc, OtherInvalidated(p) PROVE FlightOK(h)'
  <2>1. \A q \in Proc : FenceMoves(q)
    BY <1>8 DEF OtherInvalidated, TypeOK, FenceMoves
  <2>2. QED
    BY <1>8, <2>1, FlightFrame DEF OtherInvalidated
<1>9. ASSUME NEW p \in Proc, Restart(p) PROVE FlightOK(h)'
  <2>1. UNCHANGED <<lock, evicted>> /\ \A q \in Proc \ {p} : FenceMoves(q)
    BY <1>9 DEF Restart, TypeOK, FenceMoves
  <2>2. CASE flight[h].proc = p
    <3>1. flight'[h].pc = "idle"
      BY <1>9, <2>2 DEF Restart
    <3>2. QED
      BY <3>1 DEF FlightOK
  <2>3. CASE flight[h].proc # p
    <3>1. flight'[h] = flight[h]
      BY <1>9, <2>3 DEF Restart
    <3>2. QED
      BY <2>1, <2>3, <3>1, FlightFrame
  <2>4. QED
    BY <2>2, <2>3
<1>10. QED
  BY <1>1, <1>2, <1>3, <1>4, <1>5, <1>6, <1>7, <1>8, <1>9, NextCases
  DEF Loading, Lookup, ReadGeneration, FlightsFull, Leave, Join, Commit, L1Ages, L1Drops, L2Expires, LockExpires

-----------------------------------------------------------------------------
\* The flight goes on under its key.
SameFlight(f) ==
    /\ flight[f].pc # "idle" /\ flight'[f].pc # "idle"
    /\ flight'[f].proc = flight[f].proc /\ flight'[f].gen = flight[f].gen
    /\ flight'[f].floor = flight[f].floor

\* A request that does not move keeps its invariant, as long as the flight it
\* waits on goes on and new flights start at the fence.
LEMMA ReqFrame ==
    ASSUME TypeOK, TypeOK', NEW r \in Req, ReqOK(r), req'[r] = req[r],
           \A p \in Proc : p = req[r].proc => FenceMoves(p),
           req[r].pc = "waiting" => SameFlight(req[r].on),
           \A f \in Flight : flight'[f].pc # "idle" /\ flight'[f].proc \in Proc =>
              SameFlight(f) \/ flight'[f].floor = fence[flight'[f].proc]
    PROVE  ReqOK(r)'
<1> SUFFICES ASSUME req[r].pc # "idle" PROVE ReqOK(r)'
  BY DEF ReqOK
<1> DEFINE p == req[r].proc
<1>1. p \in Proc /\ FenceMoves(p) /\ req[r].floor <= fence[p]
  BY DEF ReqOK
<1>2. /\ epoch[p] \in Nat /\ epoch'[p] \in Nat /\ fence[p] \in Nat /\ fence'[p] \in Nat
      /\ req[r].gen \in Nat /\ req[r].floor \in Nat
  BY <1>1 DEF TypeOK, ReqState
<1>3. req[r].floor <= fence'[p] /\ (req[r].pc = "keyed" => req[r].gen <= epoch'[p])
  BY <1>1, <1>2 DEF FenceMoves, ReqOK
<1>4. ASSUME req[r].pc = "keyed", NEW f \in Flight, flight'[f].pc # "idle", flight'[f].proc = p,
             flight'[f].gen = req[r].gen
      PROVE  req[r].floor <= flight'[f].floor
  <2>1. CASE SameFlight(f)
    <3>1. f \in Running(p, req[r].gen)
      BY <1>4, <2>1 DEF SameFlight, Running
    <3>2. QED
      BY <1>4, <2>1, <3>1 DEF SameFlight, ReqOK
  <2>2. CASE flight'[f].floor = fence[p]
    BY <1>1, <2>2
  <2>3. QED
    BY <1>1, <1>4, <2>1, <2>2
<1>5. req[r].pc = "keyed" => \A f \in Running(p, req[r].gen)' : req[r].floor <= flight'[f].floor
  BY <1>4 DEF Running
<1>6. req[r].pc = "waiting" => /\ req[r].on \in Flight
                               /\ flight'[req[r].on].pc # "idle"
                               /\ flight'[req[r].on].proc = p
                               /\ req[r].floor <= flight'[req[r].on].floor
  BY DEF ReqOK, SameFlight
<1>7. QED
  BY <1>1, <1>3, <1>5, <1>6 DEF ReqOK

\* Every step keeps requests with flights that began under their own generation.
LEMMA ReqStep == IInv /\ Next => ReqInv'
<1> SUFFICES ASSUME IInv, Next, NEW q \in Req PROVE ReqOK(q)'
  BY DEF ReqInv
<1> TypeOK /\ TypeOK' /\ FlightInv /\ FlightInv' /\ VersionInv /\ ReqInv /\ ReqOK(q)
    /\ L1Fenced /\ FreshPresent
  BY TypeStep, FlightStep DEF IInv, ReqInv
<1> USE IdleTypes
<1>1. ASSUME UNCHANGED <<flight, epoch, fence>>, req'[q] = req[q] PROVE ReqOK(q)'
  <2>1. req[q].pc = "waiting" => SameFlight(req[q].on)
    BY <1>1 DEF ReqOK, SameFlight
  <2>2. \A f \in Flight : flight'[f].pc # "idle" => SameFlight(f)
    BY <1>1 DEF SameFlight
  <2>3. QED
    BY <1>1, <2>1, <2>2, ReqFrame DEF FenceMoves
<1>2. ASSUME NEW r \in Req, NEW p \in Proc, Lookup(r, p) PROVE ReqOK(q)'
  <2>1. CASE q = r
    <3>1. req'[r] = [IdleReq EXCEPT !.pc = IF l1[p].fresh THEN "answered" ELSE "missed",
                                    !.proc = p, !.floor = fence[p],
                                    !.ver = IF l1[p].fresh THEN l1[p].ver ELSE Absent]
      BY <1>2 DEF Lookup, TypeOK
    <3>2. /\ req'[r].pc = (IF l1[p].fresh THEN "answered" ELSE "missed")
          /\ req'[r].proc = p /\ req'[r].floor = fence[p]
          /\ req'[r].ver = (IF l1[p].fresh THEN l1[p].ver ELSE Absent)
      BY <3>1 DEF IdleReq
    <3>3. fence'[p] = fence[p] /\ fence[p] \in Nat
      BY <1>2 DEF Lookup, TypeOK
    <3>4. l1[p].fresh => l1[p].ver >= fence[p]
      BY DEF L1Fenced, FreshPresent
    <3>5. QED
      BY <2>1, <3>2, <3>3, <3>4 DEF ReqOK
  <2>2. CASE q # r
    BY <1>1, <1>2, <2>2 DEF Lookup, TypeOK
  <2>3. QED
    BY <2>1, <2>2
<1>3. ASSUME NEW r \in Req, ReadGeneration(r) PROVE ReqOK(q)'
  <2>1. CASE q = r
    <3> DEFINE p == req[r].proc
    <3>1. p \in Proc /\ req[r].floor <= fence[p] /\ UNCHANGED <<epoch, fence, flight>>
      BY <1>3, <2>1 DEF ReadGeneration, ReqOK
    <3>2. /\ req'[r].pc = "keyed" /\ req'[r].proc = p /\ req'[r].gen = epoch[p]
          /\ req'[r].floor = req[r].floor
      BY <1>3 DEF ReadGeneration, TypeOK, ReqState
    <3>3. \A f \in Running(p, epoch[p]) : flight[f].floor = fence[p]
      BY DEF Running, FlightInv, FlightOK
    <3>4. Running(p, epoch[p])' = Running(p, epoch[p])
      BY <3>1, <3>2 DEF Running
    <3>5. epoch[p] \in Nat
      BY <3>1 DEF TypeOK
    <3>6. QED
      <4>1. req'[r].gen <= epoch'[p]
        BY <3>1, <3>2, <3>5
      <4>2. \A f \in Running(p, epoch[p])' : req'[r].floor <= flight'[f].floor
        BY <3>1, <3>2, <3>3, <3>4
      <4>3. req'[r].proc \in Proc /\ req'[r].floor <= fence'[req'[r].proc]
        BY <3>1, <3>2
      <4>4. Running(req[r].proc, req[r].gen)' = Running(p, epoch[p])'
        BY <3>1, <3>2 DEF Running
      <4>5. QED
        BY <2>1, <3>2, <4>1, <4>2, <4>3, <4>4 DEF ReqOK
  <2>2. CASE q # r
    BY <1>1, <1>3, <2>2 DEF ReadGeneration, TypeOK
  <2>3. QED
    BY <2>1, <2>2
<1>4. ASSUME NEW r \in Req, Leave(r) \/ FlightsFull(r) PROVE ReqOK(q)'
  <2>1. CASE q = r
    <3>1. req'[q].pc = "idle"
      BY <1>4, <2>1 DEF Leave, FlightsFull, TypeOK
    <3>2. QED
      BY <3>1 DEF ReqOK
  <2>2. CASE q # r
    BY <1>1, <1>4, <2>2 DEF Leave, FlightsFull, TypeOK
  <2>3. QED
    BY <2>1, <2>2
<1>5. ASSUME NEW r \in Req, NEW f \in Flight, Join(r, f) PROVE ReqOK(q)'
  <2>1. CASE q = r
    <3>1. /\ flight[f].pc # "idle" /\ flight[f].proc = req[r].proc
          /\ req[r].floor <= flight[f].floor
      BY <1>5, <2>1 DEF Join, Running, ReqOK
    <3>2. /\ req'[r].pc = "waiting" /\ req'[r].on = f /\ req'[r].proc = req[r].proc
          /\ req'[r].floor = req[r].floor
      BY <1>5 DEF Join, TypeOK, ReqState
    <3>3. req[r].proc \in Proc /\ req[r].floor <= fence[req[r].proc] /\ UNCHANGED <<fence, flight>>
      BY <1>5, <2>1 DEF Join, ReqOK
    <3>4. QED
      BY <2>1, <3>1, <3>2, <3>3 DEF ReqOK
  <2>2. CASE q # r
    BY <1>1, <1>5, <2>2 DEF Join, TypeOK
  <2>3. QED
    BY <2>1, <2>2
<1>6. ASSUME NEW r \in Req, NEW f \in Flight, StartFlight(r, f) PROVE ReqOK(q)'
  <2>1. /\ req[r].proc \in Proc /\ flight'[f].pc = "read" /\ flight'[f].proc = req[r].proc
        /\ flight'[f].floor = fence[req[r].proc]
    <3>1. req[r].proc \in Proc
      BY <1>6 DEF StartFlight, ReqInv, ReqOK
    <3>2. flight'[f] = [IdleFlight EXCEPT !.pc = "read", !.proc = req[r].proc, !.gen = req[r].gen,
                                          !.floor = fence[req[r].proc]]
      BY <1>6 DEF StartFlight, TypeOK
    <3>3. QED
      BY <3>1, <3>2 DEF IdleFlight
  <2>2. \A h \in Flight \ {f} : flight'[h] = flight[h]
    BY <1>6 DEF StartFlight, TypeOK
  <2>3. UNCHANGED <<epoch, fence>> /\ flight[f].pc = "idle"
    BY <1>6 DEF StartFlight
  <2>4. CASE q = r
    <3>1. req' = [req EXCEPT ![r].pc = "waiting", ![r].on = f]
      BY <1>6 DEF StartFlight
    <3>2. /\ req'[r].pc = "waiting" /\ req'[r].on = f /\ req'[r].proc = req[r].proc
          /\ req'[r].floor = req[r].floor
      BY <3>1 DEF TypeOK, ReqState
    <3>3. req[r].floor <= fence[req[r].proc]
      BY <1>6, <2>4 DEF StartFlight, ReqOK
    <3>4. QED
      BY <2>1, <2>3, <2>4, <3>2, <3>3 DEF ReqOK
  <2>5. CASE q # r
    <3>1. req'[q] = req[q]
      BY <1>6, <2>5 DEF StartFlight, TypeOK
    <3>2. req[q].pc = "waiting" => SameFlight(req[q].on)
      BY <2>2, <2>3 DEF ReqOK, SameFlight
    <3>3. \A h \in Flight : flight'[h].pc # "idle" =>
            SameFlight(h) \/ flight'[h].floor = fence[flight'[h].proc]
      BY <2>1, <2>2 DEF SameFlight
    <3>4. QED
      BY <2>3, <3>1, <3>2, <3>3, ReqFrame DEF FenceMoves
  <2>6. QED
    BY <2>4, <2>5
<1>7. ASSUME NEW f \in Flight, Loading(f) PROVE ReqOK(q)'
  <2>1. Moves(f)
    BY <1>7, LoadingMoves
  <2>2. UNCHANGED <<epoch, fence, req>>
    BY <1>7 DEF Loading, ReadHit, ReadMiss, ReadError, TakeLock, LockBusy, LockError,
       WaitDeadline, NoDatabase, Query, Publish, PublishRevoked, PublishError, PutLocal
  <2>3. \A h \in Flight : flight[h].pc # "idle" \/ flight'[h].pc # "idle" => SameFlight(h)
    BY <2>1 DEF Moves, SameFlight
  <2>4. req[q].pc = "waiting" => SameFlight(req[q].on)
    BY <2>3 DEF ReqOK
  <2>5. QED
    BY <2>2, <2>3, <2>4, ReqFrame DEF FenceMoves
<1>8. ASSUME NEW f \in Flight, Return(f) PROVE ReqOK(q)'
  <2>1. UNCHANGED <<epoch, fence>>
    BY <1>8 DEF Return
  <2>2. flight[f].pc = "return" /\ \A h \in Flight \ {f} : flight'[h] = flight[h]
    BY <1>8 DEF Return, TypeOK
  <2>3. flight'[f].pc = "idle"
    BY <1>8 DEF Return, TypeOK
  <2>4. req'[q] = IF ~AnsweredBy(f, q) THEN req[q]
                  ELSE IF flight[f].ver = Absent THEN IdleReq
                  ELSE [req[q] EXCEPT !.pc = "answered", !.ver = flight[f].ver, !.on = None]
    BY <1>8 DEF Return
  <2>5. CASE AnsweredBy(f, q) /\ flight[f].ver = Absent
    BY <2>4, <2>5 DEF ReqOK
  <2>6. CASE AnsweredBy(f, q) /\ flight[f].ver # Absent
    <3>1. req'[q] = [req[q] EXCEPT !.pc = "answered", !.ver = flight[f].ver, !.on = None]
      BY <2>4, <2>6
    <3>2. /\ req'[q].pc = "answered" /\ req'[q].ver = flight[f].ver
          /\ req'[q].proc = req[q].proc /\ req'[q].floor = req[q].floor
      BY <3>1 DEF TypeOK, ReqState
    <3>3. /\ req[q].proc \in Proc /\ req[q].floor <= fence[req[q].proc]
          /\ req[q].floor <= flight[f].floor
      BY <2>6 DEF AnsweredBy, ReqOK
    <3>4. flight[f].ver >= flight[f].floor
      BY <2>2, <2>6 DEF FlightInv, FlightOK, Valid
    <3>5. flight[f].ver \in Nat /\ flight[f].floor \in Nat /\ req[q].floor \in Nat
      BY <2>6 DEF TypeOK, FlightState, ReqState, Version
    <3>6. flight[f].ver >= req[q].floor
      BY <3>3, <3>4, <3>5
    <3>7. QED
      BY <2>1, <3>2, <3>3, <3>6 DEF ReqOK
  <2>7. CASE ~AnsweredBy(f, q)
    <3>1. req'[q] = req[q]
      BY <2>4, <2>7
    <3>2. req[q].pc = "waiting" => SameFlight(req[q].on)
      BY <2>2, <2>7 DEF AnsweredBy, ReqOK, SameFlight
    <3>3. \A h \in Flight : flight'[h].pc # "idle" => SameFlight(h)
      BY <2>2, <2>3 DEF SameFlight
    <3>4. QED
      BY <2>1, <3>1, <3>2, <3>3, ReqFrame DEF FenceMoves
  <2>8. QED
    BY <2>5, <2>6, <2>7
<1>9. ASSUME UNCHANGED <<flight, req>>, \A p \in Proc : FenceMoves(p) PROVE ReqOK(q)'
  <2>1. req[q].pc = "waiting" => SameFlight(req[q].on)
    BY <1>9 DEF ReqOK, SameFlight
  <2>2. \A f \in Flight : flight'[f].pc # "idle" => SameFlight(f)
    BY <1>9 DEF SameFlight
  <2>3. QED
    BY <1>9, <2>1, <2>2, ReqFrame
<1>10. ASSUME NEW w \in Writer, InvalidateLocal(w) PROVE ReqOK(q)'
  <2>1. \A p \in Proc : FenceMoves(p)
    BY <1>10 DEF InvalidateLocal, TypeOK, FenceMoves, VersionInv
  <2>2. QED
    BY <1>9, <1>10, <2>1 DEF InvalidateLocal
<1>11. ASSUME NEW p \in Proc, OtherInvalidated(p) PROVE ReqOK(q)'
  <2>1. \A x \in Proc : FenceMoves(x)
    BY <1>11 DEF OtherInvalidated, TypeOK, FenceMoves
  <2>2. QED
    BY <1>9, <1>11, <2>1 DEF OtherInvalidated
<1>12. ASSUME NEW p \in Proc, Restart(p) PROVE ReqOK(q)'
  <2>1. CASE req[q].proc = p
    <3>1. req'[q].pc = "idle"
      BY <1>12, <2>1 DEF Restart
    <3>2. QED
      BY <3>1 DEF ReqOK
  <2>2. CASE req[q].proc # p
    <3>1. req'[q] = req[q] /\ \A x \in Proc \ {p} : FenceMoves(x)
      BY <1>12, <2>2 DEF Restart, TypeOK, FenceMoves
    <3>2. \A f \in Flight : flight'[f] = flight[f] \/ flight'[f].pc = "idle"
      BY <1>12 DEF Restart
    <3>3. req[q].pc = "waiting" => SameFlight(req[q].on)
      <4>1. \A f \in Flight : flight[f].proc = req[q].proc => flight'[f] = flight[f]
        BY <1>12, <2>2 DEF Restart
      <4>2. QED
        BY <4>1 DEF ReqOK, SameFlight
    <3>4. \A f \in Flight : flight'[f].pc # "idle" => SameFlight(f)
      BY <3>2 DEF SameFlight
    <3>5. QED
      BY <2>2, <3>1, <3>3, <3>4, ReqFrame
  <2>3. QED
    BY <2>1, <2>2
<1>13. QED
  BY <1>1, <1>2, <1>3, <1>4, <1>5, <1>6, <1>7, <1>8, <1>10, <1>11, <1>12, NextCases
  DEF Loading, Commit, Evict, EvictError, L1Ages, L1Drops, L2Expires, LockExpires

-----------------------------------------------------------------------------
\* The invariant the properties below follow from holds in every reachable state.
THEOREM Inductive == Spec => []IInv
<1>1. IInv /\ [Next]_vars => IInv'
  <2> SUFFICES ASSUME IInv, [Next]_vars PROVE IInv'
    OBVIOUS
  <2>1. CASE Next
    BY <2>1, TypeStep, VersionStep, L2Step, L1Step, FreshStep, FlightStep, ReqStep DEF IInv
  <2>2. CASE UNCHANGED vars
    <3>1. TypeOK' /\ VersionInv' /\ L2Coherent' /\ L1Fenced' /\ FreshPresent'
      BY <2>2 DEF vars, IInv, TypeOK, VersionInv, L2Coherent, L1Fenced, FreshPresent
    <3>2. FlightInv' /\ ReqInv'
      BY <2>2 DEF vars, IInv, FlightInv, FlightOK, Valid, ReqInv, ReqOK, Running
    <3>3. QED
      BY <3>1, <3>2 DEF IInv
  <2>3. QED
    BY <2>1, <2>2
<1>2. QED
  BY <1>1, InitIInv, PTL DEF Spec

\* Every variable stays in its type.
THEOREM TypeCorrect == Spec => []TypeOK
<1>1. IInv => TypeOK
  BY DEF IInv
<1>2. QED
  BY <1>1, Inductive, PTL

\* Redis never holds a version older than one that was evicted from it, whatever
\* flights, writers, failed calls, expired locks and restarts interleave.
THEOREM RedisCoherent == Spec => []L2Coherent
<1>1. IInv => L2Coherent
  BY DEF IInv
<1>2. QED
  BY <1>1, Inductive, PTL

\* No entry of L1 is older than the fence of its process.
THEOREM MemoryFenced == Spec => []L1Fenced
<1>1. IInv => L1Fenced
  BY DEF IInv
<1>2. QED
  BY <1>1, Inductive, PTL

\* No request is answered with a version older than the fence it began behind,
\* also when it shares the flight of another request or gets a stale value.
THEOREM AnswersFenced == Spec => []AnswerFenced
<1>1. IInv => AnswerFenced
  BY DEF IInv, ReqInv, ReqOK, AnswerFenced
<1>2. QED
  BY <1>1, Inductive, PTL


-----------------------------------------------------------------------------
\* While Redis works and locks outlive the loads, whoever is between the lock and
\* the publication holds the lock; an eviction is of a version that was committed.
LeaseInv ==
    /\ \A w \in Writer : writer[w].pc # "idle" => writer[w].ver >= 1
    /\ faults = 0 /\ evicted = 0 /\ LockExpiry = FALSE =>
          \A f \in Flight : flight[f].pc \in {"recheck", "query", "publish"} =>
              flight[f].locked = TRUE /\ lock = f

\* No step takes the lock from a flight that needs it.
LEMMA LeaseStep == IInv /\ LeaseInv /\ [Next]_vars => LeaseInv'
<1> SUFFICES ASSUME IInv, LeaseInv, [Next]_vars PROVE LeaseInv'
  OBVIOUS
<1>1. TypeOK /\ FlightInv
  BY DEF IInv
<1>2. \A w \in Writer : writer'[w].pc # "idle" => writer'[w].ver >= 1
  <2>1. writer \in [Writer -> WriterState] /\ db \in Nat
    BY <1>1 DEF TypeOK
  <2>2. \A w \in Writer : writer[w].pc # "idle" => writer[w].ver >= 1
    BY DEF LeaseInv
  <2>3. IdleWriter.pc = "idle"
    BY DEF IdleWriter
  <2>4. CASE writer' = writer
    BY <2>2, <2>4
  <2>5. ASSUME NEW w \in Writer, NEW p \in Proc, Commit(w, p)
        PROVE  \A x \in Writer : writer'[x].pc # "idle" => writer'[x].ver >= 1
    BY <2>1, <2>2, <2>5 DEF Commit
  <2>6. ASSUME NEW w \in Writer, InvalidateLocal(w)
        PROVE  \A x \in Writer : writer'[x].pc # "idle" => writer'[x].ver >= 1
    <3>1. writer[w].pc = "committed" /\ writer' = [writer EXCEPT ![w].pc = "invalidated"]
      BY <2>6 DEF InvalidateLocal
    <3>2. QED
      BY <2>1, <2>2, <3>1 DEF WriterState
  <2>7. ASSUME NEW w \in Writer, Evict(w) \/ EvictError(w)
        PROVE  \A x \in Writer : writer'[x].pc # "idle" => writer'[x].ver >= 1
    BY <2>1, <2>2, <2>3, <2>7 DEF Evict, EvictError
  <2>8. ASSUME NEW p \in Proc, Restart(p)
        PROVE  \A x \in Writer : writer'[x].pc # "idle" => writer'[x].ver >= 1
    BY <2>1, <2>2, <2>3, <2>8 DEF Restart
  <2>9. CASE Next
    BY <2>4, <2>5, <2>6, <2>7, <2>8, <2>9, NextCases
    DEF Lookup, ReadGeneration, FlightsFull, Leave, Join, StartFlight, ReadHit, ReadMiss, ReadError,
        TakeLock, LockBusy, LockError, WaitDeadline, NoDatabase, Query, Publish, PublishRevoked,
        PublishError, PutLocal, Return, OtherInvalidated, L1Ages, L1Drops, L2Expires, LockExpires
  <2>10. QED
    BY <2>4, <2>9 DEF vars
<1>3. SUFFICES ASSUME faults' = 0, evicted' = 0, LockExpiry = FALSE,
                      NEW f \in Flight, flight'[f].pc \in {"recheck", "query", "publish"}
               PROVE  flight'[f].locked = TRUE /\ lock' = f
  BY <1>2 DEF LeaseInv
<1>4. faults = 0 /\ evicted = 0
  <2>1. faults \in Nat /\ evicted \in Nat
    BY <1>1 DEF TypeOK
  <2>2. faults' = faults \/ faults' = faults + 1
    BY NextCases DEF vars, Lookup, ReadGeneration, FlightsFull, Leave, Join, StartFlight, ReadHit,
       ReadMiss, ReadError, TakeLock, LockBusy, LockError, WaitDeadline, NoDatabase, Query, Publish,
       PublishRevoked, PublishError, PutLocal, Return, Commit, InvalidateLocal, Evict, EvictError,
       OtherInvalidated, L1Ages, L1Drops, Restart, L2Expires, LockExpires, Fault
  <2>3. evicted' = evicted \/ \E w \in Writer : Evict(w)
    BY NextCases DEF vars, Lookup, ReadGeneration, FlightsFull, Leave, Join, StartFlight, ReadHit,
       ReadMiss, ReadError, TakeLock, LockBusy, LockError, WaitDeadline, NoDatabase, Query, Publish,
       PublishRevoked, PublishError, PutLocal, Return, Commit, InvalidateLocal, EvictError,
       OtherInvalidated, L1Ages, L1Drops, Restart, L2Expires, LockExpires
  <2>4. ASSUME NEW w \in Writer, Evict(w) PROVE FALSE
    <3>1. writer[w].ver >= 1 /\ writer[w].ver \in Nat
      BY <1>1, <2>4 DEF LeaseInv, Evict, TypeOK, WriterState
    <3>2. evicted' = IF writer[w].ver > evicted THEN writer[w].ver ELSE evicted
      BY <2>4 DEF Evict
    <3>3. QED
      BY <1>3, <2>1, <3>1, <3>2
  <2>5. QED
    BY <1>3, <2>1, <2>2, <2>3, <2>4
<1>5. \A h \in Flight : flight[h].pc \in {"recheck", "query", "publish"} =>
          flight[h].locked = TRUE /\ lock = h
  BY <1>3, <1>4 DEF LeaseInv
<1>6. ~Fault
  <2>1. faults \in Nat
    BY <1>1 DEF TypeOK
  <2>2. QED
    BY <1>3, <1>4, <2>1 DEF Fault
<1>7. CASE flight' = flight /\ lock' = lock
  BY <1>3, <1>5, <1>7
<1>8. ASSUME NEW g \in Flight, NEW pc \in {"lock", "wait", "put", "return"}, NEW v \in Version,
             Goto(g, pc) \/ GotoWith(g, pc, v)
      PROVE  f # g /\ flight'[f] = flight[f]
  <2>1. pc \in FlightPC
    BY DEF FlightPC
  <2>2. flight'[g].pc = pc /\ \A h \in Flight \ {g} : flight'[h] = flight[h]
    BY <1>1, <1>8, <2>1, GotoFacts, GotoWithFacts
  <2>3. QED
    BY <1>3, <2>2
<1>9. ASSUME NEW r \in Req, NEW g \in Flight, StartFlight(r, g)
      PROVE  flight'[f].locked = TRUE /\ lock' = f
  <2>1. PICK x : x = [IdleFlight EXCEPT !.pc = "read", !.proc = req[r].proc, !.gen = req[r].gen,
                                        !.floor = fence[req[r].proc]]
    OBVIOUS
  <2>2. x.pc = "read"
    BY <2>1 DEF IdleFlight
  <2>3. flight' = [flight EXCEPT ![g] = x] /\ lock' = lock
    BY <1>9, <2>1 DEF StartFlight
  <2>4. f # g /\ flight'[f] = flight[f]
    BY <1>1, <1>3, <2>2, <2>3 DEF TypeOK
  <2>5. QED
    BY <1>3, <1>5, <2>3, <2>4
<1>10. ASSUME NEW g \in Flight, ReadHit(g) PROVE flight'[f].locked = TRUE /\ lock' = f
  <2>1. l2 \in Version /\ GotoWith(g, "put", l2) /\ lock' = lock
    BY <1>1, <1>10 DEF ReadHit, TypeOK
  <2>2. QED
    BY <1>3, <1>5, <1>8, <2>1
<1>11. ASSUME NEW g \in Flight, ReadMiss(g) PROVE flight'[f].locked = TRUE /\ lock' = f
  <2>1. lock' = lock
    BY <1>11 DEF ReadMiss
  <2>2. CASE flight[g].pc = "read"
    <3>1. Goto(g, "lock")
      BY <1>11, <2>2 DEF ReadMiss
    <3>2. Absent \in Version
      BY DEF Version
    <3>3. QED
      BY <1>3, <1>5, <1>8, <2>1, <3>1, <3>2
  <2>3. CASE flight[g].pc = "recheck"
    <3>1. Goto(g, "query")
      BY <1>11, <2>3 DEF ReadMiss
    <3>2. /\ flight'[g].locked = flight[g].locked
          /\ \A h \in Flight \ {g} : flight'[h] = flight[h]
      BY <1>1, <3>1, GotoFacts DEF FlightPC
    <3>3. QED
      BY <1>3, <1>5, <2>1, <2>3, <3>2
  <2>4. QED
    BY <1>11, <2>2, <2>3 DEF ReadMiss
<1>12. ASSUME NEW g \in Flight, TakeLock(g) PROVE flight'[f].locked = TRUE /\ lock' = f
  <2>1. /\ lock = None /\ lock' = g /\ flight[g].pc = "lock"
        /\ flight' = [flight EXCEPT ![g].pc = "recheck", ![g].locked = TRUE]
    BY <1>12 DEF TakeLock
  <2>2. flight[g] \in FlightState /\ flight \in [Flight -> FlightState]
    BY <1>1 DEF TypeOK
  <2>3. flight'[g].locked = TRUE /\ \A h \in Flight \ {g} : flight'[h] = flight[h]
    BY <2>1, <2>2 DEF FlightState
  <2>4. f = g
    <3>1. SUFFICES ASSUME f # g PROVE FALSE
      OBVIOUS
    <3>2. lock = f
      BY <1>3, <1>5, <2>3, <3>1
    <3>3. QED
      BY <2>1, <3>2, CacheConstants
  <2>5. QED
    BY <2>1, <2>3, <2>4
<1>13. ASSUME NEW g \in Flight, LockBusy(g) PROVE flight'[f].locked = TRUE /\ lock' = f
  <2>1. lock' = lock /\ (StaleOrError(g) \/ Goto(g, "wait")) /\ flight[g].pc = "lock"
    BY <1>13 DEF LockBusy
  <2>2. PICK pc \in {"lock", "wait", "put", "return"}, v \in Version : Goto(g, pc) \/ GotoWith(g, pc, v)
    <3>1. Absent \in Version
      BY DEF Version
    <3>2. flight[g].proc \in Proc
      BY <1>1, <2>1 DEF FlightInv, FlightOK
    <3>3. l1[flight[g].proc].ver \in Version
      BY <1>1, <3>2 DEF TypeOK
    <3>4. QED
      BY <2>1, <3>1, <3>3 DEF StaleOrError
  <2>3. QED
    BY <1>3, <1>5, <1>8, <2>1, <2>2
<1>14. ASSUME NEW g \in Flight, WaitDeadline(g) \/ PublishRevoked(g) \/ PutLocal(g)
       PROVE  flight'[f].locked = TRUE /\ lock' = f
  <2>1. lock' = lock /\ Goto(g, "return")
    BY <1>14 DEF WaitDeadline, AfterDeadline, PublishRevoked, PutLocal
  <2>2. Absent \in Version
    BY DEF Version
  <2>3. QED
    BY <1>3, <1>5, <1>8, <2>1, <2>2
<1>15. ASSUME NEW g \in Flight, Query(g) PROVE flight'[f].locked = TRUE /\ lock' = f
  <2>1. lock' = lock /\ flight[g].pc = "query"
    BY <1>15 DEF Query
  <2>2. PICK pc \in {"publish", "put"} : GotoWith(g, pc, db)
    BY <1>15 DEF Query
  <2>3. db \in Version
    BY <1>1 DEF TypeOK, Version
  <2>4. flight'[g].locked = flight[g].locked /\ \A h \in Flight \ {g} : flight'[h] = flight[h]
    BY <1>1, <2>2, <2>3, GotoWithFacts DEF FlightPC
  <2>5. QED
    BY <1>3, <1>5, <2>1, <2>4
<1>16. ASSUME NEW g \in Flight, Publish(g) PROVE flight'[f].locked = TRUE /\ lock' = f
  <2>1. lock = g /\ Goto(g, "put")
    BY <1>16 DEF Publish, MayPublish
  <2>2. Absent \in Version
    BY DEF Version
  <2>3. f # g /\ flight'[f] = flight[f]
    BY <1>8, <2>1, <2>2
  <2>4. QED
    BY <1>3, <1>5, <2>1, <2>3
<1>17. ASSUME NEW g \in Flight, Return(g) PROVE flight'[f].locked = TRUE /\ lock' = f
  <2>1. /\ flight[g].pc = "return" /\ flight' = [flight EXCEPT ![g] = IdleFlight]
        /\ lock' = IF flight[g].locked /\ lock = g THEN None ELSE lock
    BY <1>6, <1>17 DEF Return
  <2>2. f # g /\ flight'[f] = flight[f]
    BY <1>1, <1>3, <2>1, IdleTypes DEF TypeOK
  <2>3. flight[f].locked = TRUE /\ lock = f
    BY <1>3, <1>5, <2>2
  <2>4. lock' = lock
    BY <2>1, <2>2, <2>3
  <2>5. QED
    BY <2>2, <2>3, <2>4
<1>18. ASSUME LockExpires PROVE flight'[f].locked = TRUE /\ lock' = f
  <2>1. flight' = flight
    BY <1>18 DEF LockExpires
  <2>2. flight[f].locked = TRUE /\ lock = f /\ flight[f].pc # "idle"
    BY <1>3, <1>5, <2>1
  <2>3. ~(flight[f].locked /\ flight[f].pc # "idle")
    BY <1>3, <1>18, <2>2, Zenon DEF LockExpires
  <2>4. QED
    BY <2>2, <2>3
<1>19. \A w \in Writer : ~Evict(w) /\ ~EvictError(w)
  <2>1. ASSUME NEW w \in Writer, Evict(w) PROVE FALSE
    <3>1. writer[w].ver >= 1 /\ writer[w].ver \in Nat
      BY <1>1, <2>1 DEF LeaseInv, Evict, TypeOK, WriterState
    <3>2. evicted' = IF writer[w].ver > evicted THEN writer[w].ver ELSE evicted
      BY <2>1 DEF Evict
    <3>3. QED
      BY <1>3, <1>4, <3>1, <3>2
  <2>2. QED
    BY <1>6, <2>1 DEF EvictError
<1>20. CASE Next
  BY <1>6, <1>7, <1>9, <1>10, <1>11, <1>12, <1>13, <1>14, <1>15, <1>16, <1>17, <1>18, <1>19, <1>20,
     NextCases
  DEF Lookup, ReadGeneration, FlightsFull, Leave, Join, ReadError, LockError, NoDatabase, PublishError,
      Commit, InvalidateLocal, OtherInvalidated, L1Ages, L1Drops, Restart, L2Expires
<1>21. CASE UNCHANGED vars
  BY <1>7, <1>21 DEF vars
<1>22. QED
  BY <1>20, <1>21

\* For any number of processes and flights: while Redis works, nothing was evicted
\* and locks outlive the loads, one flight at most queries MySQL for the video.
THEOREM QueriesOne == Spec => []OneQuery
<1>1. Init => LeaseInv
  BY IdleTypes DEF Init, LeaseInv, IdleWriter
<1>2. IInv /\ LeaseInv => OneQuery
  <2> SUFFICES ASSUME IInv, LeaseInv, faults = 0, evicted = 0, ~LockExpiry
               PROVE  Cardinality({f \in Flight : flight[f].pc = "query"}) <= 1
    BY DEF OneQuery
  <2>1. LockExpiry = FALSE
    BY CacheConstants, Zenon
  <2>2. PICK S : S = {f \in Flight : flight[f].pc = "query"}
    OBVIOUS
  <2>3. S \subseteq {lock}
    BY <2>1, <2>2 DEF LeaseInv
  <2>4. IsFiniteSet({lock}) /\ Cardinality({lock}) = 1
    BY FS_Singleton
  <2>5. Cardinality(S) <= 1
    BY <2>3, <2>4, FS_Subset
  <2>6. QED
    BY <2>2, <2>5
<1>3. IInv /\ LeaseInv /\ [Next]_vars => LeaseInv'
  BY LeaseStep
<1>4. QED
  BY <1>1, <1>2, <1>3, Inductive, PTL DEF Spec
=============================================================================

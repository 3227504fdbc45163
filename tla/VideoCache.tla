----------------------------- MODULE VideoCache -----------------------------
(***************************************************************************)
(* The two-level cache of one video: backend/cache.go with videoMemory and *)
(* flightGroup of resilience.go.  A request looks into the memory of its   *)
(* process (L1); on a miss it joins or starts a flight, which reads Redis  *)
(* (L2), takes the rebuild lock, reads MySQL and publishes what it found   *)
(* to L2 and L1.  A writer commits, then invalidateVideo empties its own   *)
(* L1 and evicts L2 together with the lock.                                *)
(*                                                                         *)
(* A value is the number of the commit that wrote it.  Expiry of a key or  *)
(* an entry may happen at any time; a Redis call may fail with or without  *)
(* having had its effect.  The token of a lock is the flight that set it.  *)
(***************************************************************************)
EXTENDS Integers, FiniteSets

CONSTANTS
    Proc,       \* processes: API instances and workers
    Flight,     \* flights under way, over all processes
    None,       \* no process, no flight; no token under the lock key
    Req,        \* detail requests
    Writer,     \* handlers that change the video
    Missing,    \* versions in which the video is not visible
    LockExpiry, \* a lock may expire before the flight that holds it is done
    MaxWrites,  \* bound: commits
    MaxEpoch,   \* bound: invalidations of other videos while the epoch is below
    MaxFaults   \* bound: failed calls and restarts

ASSUME CacheConstants ==
    /\ None \notin Flight \cup Proc
    /\ Missing \subseteq Nat
    /\ LockExpiry \in BOOLEAN
    /\ MaxWrites \in Nat /\ MaxEpoch \in Nat /\ MaxFaults \in Nat

VARIABLES
    db,        \* the version in MySQL
    l1,        \* videoMemory: the entry of each process
    epoch,     \* videoMemory.epoch
    l2,        \* the version under the video key
    lock,      \* the token under the lock key
    flight,    \* what each flight is doing
    req,       \* requests
    writer,    \* writers
    evicted,   \* the newest version whose writer evicted L2 with success
    fence,     \* evicted, as it was when the process last invalidated the video
    faults

vars == <<db, l1, epoch, l2, lock, flight, req, writer, evicted, fence, faults>>

-----------------------------------------------------------------------------
Absent == -1

Version == Nat \cup {Absent}

NoEntry == [ver |-> Absent, fresh |-> FALSE]

FlightPC == {"idle", "read", "lock", "wait", "recheck", "query",
             "publish", "put", "return"}

FlightState == [pc: FlightPC, proc: Proc \cup {None}, gen: Nat, ver: Version, locked: BOOLEAN, floor: Nat]

\* "floor" is the fence of the process as the request began.
ReqState == [pc: {"idle", "missed", "keyed", "waiting", "answered"}, proc: Proc \cup {None},
             gen: Nat, on: Flight \cup {None}, ver: Version, floor: Nat]

WriterState == [pc: {"idle", "committed", "invalidated"}, proc: Proc \cup {None}, ver: Nat]

IdleFlight == [pc |-> "idle", proc |-> None, gen |-> 0, ver |-> Absent,
               locked |-> FALSE, floor |-> 0]

IdleReq == [pc |-> "idle", proc |-> None, gen |-> 0, on |-> None, ver |-> Absent, floor |-> 0]

IdleWriter == [pc |-> "idle", proc |-> None, ver |-> 0]

TypeOK ==
    /\ db \in Nat
    /\ l1 \in [Proc -> [ver: Version, fresh: BOOLEAN]]
    /\ epoch \in [Proc -> Nat]
    /\ l2 \in Version
    /\ lock \in Flight \cup {None}
    /\ flight \in [Flight -> FlightState]
    /\ req \in [Req -> ReqState]
    /\ writer \in [Writer -> WriterState]
    /\ evicted \in Nat
    /\ fence \in [Proc -> Nat]
    /\ faults \in Nat

Init ==
    /\ db = 0
    /\ l1 = [p \in Proc |-> NoEntry]
    /\ epoch = [p \in Proc |-> 0]
    /\ l2 = Absent
    /\ lock = None
    /\ flight = [f \in Flight |-> IdleFlight]
    /\ req = [r \in Req |-> IdleReq]
    /\ writer = [w \in Writer |-> IdleWriter]
    /\ evicted = 0
    /\ fence = [p \in Proc |-> 0]
    /\ faults = 0

Fault == faults < MaxFaults /\ faults' = faults + 1

-----------------------------------------------------------------------------
(* A request: detail up to flightGroup.do.                                 *)

Lookup(r, p) ==
    /\ req[r].pc = "idle"
    /\ req' = [req EXCEPT ![r] = [IdleReq EXCEPT !.pc = IF l1[p].fresh THEN "answered" ELSE "missed",
                                                 !.proc = p, !.floor = fence[p],
                                                 !.ver = IF l1[p].fresh THEN l1[p].ver ELSE Absent]]
    /\ UNCHANGED <<db, l1, epoch, l2, lock, flight, writer, evicted, fence, faults>>

\* s.videos.generation(), after the lookup has let go of the mutex.
ReadGeneration(r) ==
    /\ req[r].pc = "missed"
    /\ req' = [req EXCEPT ![r].pc = "keyed", ![r].gen = epoch[req[r].proc]]
    /\ UNCHANGED <<db, l1, epoch, l2, lock, flight, writer, evicted, fence, faults>>

\* Mutant: one flight per video, whatever the generation.
RunningAny(p, g) == {f \in Flight : flight[f].pc # "idle" /\ flight[f].proc = p}

\* The entry of flightGroup.calls under "video:id:generation".
Running(p, g) == {f \in Flight : flight[f].pc # "idle" /\ flight[f].proc = p /\ flight[f].gen = g}

Join(r, f) ==
    /\ req[r].pc = "keyed"
    /\ f \in Running(req[r].proc, req[r].gen)
    /\ req' = [req EXCEPT ![r].pc = "waiting", ![r].on = f]
    /\ UNCHANGED <<db, l1, epoch, l2, lock, flight, writer, evicted, fence, faults>>

StartFlight(r, f) ==
    /\ req[r].pc = "keyed"
    /\ Running(req[r].proc, req[r].gen) = {}
    /\ flight[f].pc = "idle"
    /\ flight' = [flight EXCEPT ![f] = [IdleFlight EXCEPT !.pc = "read", !.proc = req[r].proc,
                                                         !.gen = req[r].gen,
                                                         !.floor = fence[req[r].proc]]]
    /\ req' = [req EXCEPT ![r].pc = "waiting", ![r].on = f]
    /\ UNCHANGED <<db, l1, epoch, l2, lock, writer, evicted, fence, faults>>

\* errBusy: 1024 flights are under way in the process, for whatever videos.
FlightsFull(r) ==
    /\ req[r].pc = "keyed"
    /\ Running(req[r].proc, req[r].gen) = {}
    /\ req' = [req EXCEPT ![r] = IdleReq]
    /\ UNCHANGED <<db, l1, epoch, l2, lock, flight, writer, evicted, fence, faults>>

\* The client is gone, or has its answer.
Leave(r) ==
    /\ req[r].pc \in {"waiting", "answered"}
    /\ req' = [req EXCEPT ![r] = IdleReq]
    /\ UNCHANGED <<db, l1, epoch, l2, lock, flight, writer, evicted, fence, faults>>

-----------------------------------------------------------------------------
(* A flight: the loader of detail.                                         *)

Goto(f, pc) == flight' = [flight EXCEPT ![f].pc = pc]

GotoWith(f, pc, v) == flight' = [flight EXCEPT ![f].pc = pc, ![f].ver = v]

\* stale(): an entry of any age that is not a remembered absence.
StaleCopy(p) == l1[p].ver # Absent /\ l1[p].ver \notin Missing

\* return the old value if there is one, else the error.
StaleOrError(f) ==
    GotoWith(f, "return", IF StaleCopy(flight[f].proc) THEN l1[flight[f].proc].ver ELSE Absent)

\* A hit in L2 is put into L1 and returned, at each of the three places that read it.
ReadHit(f) ==
    /\ flight[f].pc \in {"read", "wait", "recheck"}
    /\ l2 # Absent
    /\ GotoWith(f, "put", l2)
    /\ UNCHANGED <<db, l1, epoch, l2, lock, req, writer, evicted, fence, faults>>

ReadMiss(f) ==
    /\ flight[f].pc \in {"read", "recheck"}
    /\ l2 = Absent
    /\ Goto(f, IF flight[f].pc = "read" THEN "lock" ELSE "query")
    /\ UNCHANGED <<db, l1, epoch, l2, lock, req, writer, evicted, fence, faults>>

\* Without Redis the flight goes to the database, without a lock if it has none.
ReadError(f) ==
    /\ Fault
    /\ flight[f].pc \in {"read", "wait", "recheck"}
    /\ Goto(f, "query")
    /\ UNCHANGED <<db, l1, epoch, l2, lock, req, writer, evicted, fence>>

TakeLock(f) ==
    /\ flight[f].pc = "lock"
    /\ lock = None
    /\ lock' = f
    /\ flight' = [flight EXCEPT ![f].pc = "recheck", ![f].locked = TRUE]
    /\ UNCHANGED <<db, l1, epoch, l2, req, writer, evicted, fence, faults>>

LockBusy(f) ==
    /\ flight[f].pc = "lock"
    /\ lock # None
    /\ IF StaleCopy(flight[f].proc) THEN StaleOrError(f) ELSE Goto(f, "wait")
    /\ UNCHANGED <<db, l1, epoch, l2, lock, req, writer, evicted, fence, faults>>

LockError(f) ==
    /\ Fault
    /\ flight[f].pc = "lock"
    /\ \/ UNCHANGED lock
       \/ lock = None /\ lock' = f
    /\ Goto(f, "query")
    /\ UNCHANGED <<db, l1, epoch, l2, req, writer, evicted, fence>>

\* Mutant: a flight that waited in vain queries the database.
AfterDeadlineQuery(f) == Goto(f, "query")

\* errBusy.
AfterDeadline(f) == Goto(f, "return")

WaitDeadline(f) ==
    /\ flight[f].pc = "wait"
    /\ AfterDeadline(f)
    /\ UNCHANGED <<db, l1, epoch, l2, lock, req, writer, evicted, fence, faults>>

\* dbSlot finds no free slot, or the query failed or timed out.
NoDatabase(f) ==
    /\ Fault
    /\ flight[f].pc = "query"
    /\ StaleOrError(f)
    /\ UNCHANGED <<db, l1, epoch, l2, lock, req, writer, evicted, fence>>

Query(f) ==
    /\ flight[f].pc = "query"
    /\ GotoWith(f, IF flight[f].locked THEN "publish" ELSE "put", db)
    /\ UNCHANGED <<db, l1, epoch, l2, lock, req, writer, evicted, fence, faults>>

\* Mutant: SET without looking at the lock.
MayPublishAlways(f) == TRUE

\* publishVideoCache: only while the lock holds this flight's token.
MayPublish(f) == lock = f

Publish(f) ==
    /\ flight[f].pc = "publish"
    /\ MayPublish(f)
    /\ l2' = flight[f].ver
    /\ lock' = None
    /\ Goto(f, "put")
    /\ UNCHANGED <<db, l1, epoch, req, writer, evicted, fence, faults>>

\* "An invalidation revoked our lease: never publish this old read into L1."
PublishRevoked(f) ==
    /\ flight[f].pc = "publish"
    /\ ~MayPublish(f)
    /\ Goto(f, "return")
    /\ UNCHANGED <<db, l1, epoch, l2, lock, req, writer, evicted, fence, faults>>

PublishError(f) ==
    /\ Fault
    /\ flight[f].pc = "publish"
    /\ \/ UNCHANGED <<l2, lock>>
       \/ MayPublish(f) /\ l2' = flight[f].ver /\ lock' = None
    /\ Goto(f, "put")
    /\ UNCHANGED <<db, l1, epoch, req, writer, evicted, fence>>

\* Mutant: the generation is not compared.
MayPutAlways(f) == TRUE

MayPut(f) == epoch[flight[f].proc] = flight[f].gen

\* videoMemory.put.
PutLocal(f) ==
    /\ flight[f].pc = "put"
    /\ l1' = IF MayPut(f)
             THEN [l1 EXCEPT ![flight[f].proc] = [ver |-> flight[f].ver, fresh |-> TRUE]]
             ELSE l1
    /\ Goto(f, "return")
    /\ UNCHANGED <<db, epoch, l2, lock, req, writer, evicted, fence, faults>>

\* Mutant: the result is sent on a channel nobody reads when there are two waiters.
AnsweredOne(f, r) == req[r].on = f /\ \A q \in Req \ {r} : req[q].on # f

AnsweredBy(f, r) == req[r].pc = "waiting" /\ req[r].on = f

\* The deferred release of the lock, then close(f.done): every waiter has the result.
Return(f) ==
    /\ flight[f].pc = "return"
    /\ flight' = [flight EXCEPT ![f] = IdleFlight]
    /\ req' = [r \in Req |-> IF ~AnsweredBy(f, r) THEN req[r]
                             ELSE IF flight[f].ver = Absent THEN IdleReq
                             ELSE [req[r] EXCEPT !.pc = "answered", !.ver = flight[f].ver, !.on = None]]
    /\ \/ /\ lock' = IF flight[f].locked /\ lock = f THEN None ELSE lock
          /\ UNCHANGED faults
       \/ Fault /\ flight[f].locked /\ UNCHANGED lock
    /\ UNCHANGED <<db, l1, epoch, l2, writer, evicted, fence>>

-----------------------------------------------------------------------------
(* A writer: its commit, then invalidateVideo.                             *)

Commit(w, p) ==
    /\ writer[w].pc = "idle"
    /\ db < MaxWrites
    /\ db' = db + 1
    /\ writer' = [writer EXCEPT ![w] = [pc |-> "committed", proc |-> p, ver |-> db + 1]]
    /\ UNCHANGED <<l1, epoch, l2, lock, flight, req, evicted, fence, faults>>

\* videoMemory.invalidate.
InvalidateLocal(w) ==
    /\ writer[w].pc = "committed"
    /\ LET p == writer[w].proc IN
       /\ epoch' = [epoch EXCEPT ![p] = @ + 1]
       /\ l1' = [l1 EXCEPT ![p] = NoEntry]
       /\ fence' = [fence EXCEPT ![p] = evicted]
    /\ writer' = [writer EXCEPT ![w].pc = "invalidated"]
    /\ UNCHANGED <<db, l2, lock, flight, req, evicted, faults>>

\* Mutant: the lock is left alone.
LockAfterEvictKept == lock

\* Mutant: the lock is overwritten by a blank token.
LockAfterEvictBlank == Absent

\* evictVideoCache deletes the lock with the value.
LockAfterEvict == None

EvictKeys ==
    /\ l2' = Absent
    /\ lock' = LockAfterEvict

Evict(w) ==
    /\ writer[w].pc = "invalidated"
    /\ EvictKeys
    /\ evicted' = IF writer[w].ver > evicted THEN writer[w].ver ELSE evicted
    /\ writer' = [writer EXCEPT ![w] = IdleWriter]
    /\ UNCHANGED <<db, l1, epoch, flight, req, fence, faults>>

\* The eviction failed, and invalidateVideo ignores it.
EvictError(w) ==
    /\ Fault
    /\ writer[w].pc = "invalidated"
    /\ EvictKeys \/ UNCHANGED <<l2, lock>>
    /\ writer' = [writer EXCEPT ![w] = IdleWriter]
    /\ UNCHANGED <<db, l1, epoch, flight, req, evicted, fence>>

-----------------------------------------------------------------------------
(* The surroundings.                                                       *)

\* invalidate of another video moves the one epoch of the process.
OtherInvalidated(p) ==
    /\ epoch[p] < MaxEpoch
    /\ epoch' = [epoch EXCEPT ![p] = @ + 1]
    /\ UNCHANGED <<db, l1, l2, lock, flight, req, writer, evicted, fence, faults>>

\* The entry turns stale after a second; an absence is not kept any longer.
L1Ages(p) ==
    /\ l1[p].fresh
    /\ l1' = [l1 EXCEPT ![p] = IF l1[p].ver \in Missing THEN NoEntry ELSE [@ EXCEPT !.fresh = FALSE]]
    /\ UNCHANGED <<db, epoch, l2, lock, flight, req, writer, evicted, fence, faults>>

\* Its minute is over, or 512 other videos were used since.
L1Drops(p) ==
    /\ l1[p].ver # Absent
    /\ l1' = [l1 EXCEPT ![p] = NoEntry]
    /\ UNCHANGED <<db, epoch, l2, lock, flight, req, writer, evicted, fence, faults>>

L2Expires ==
    /\ l2 # Absent
    /\ l2' = Absent
    /\ UNCHANGED <<db, l1, epoch, lock, flight, req, writer, evicted, fence, faults>>

\* A lock left behind by a failed release or a dead process always expires.
LockExpires ==
    /\ lock # None
    /\ LockExpiry \/ ~(flight[lock].locked /\ flight[lock].pc # "idle")
    /\ lock' = None
    /\ UNCHANGED <<db, l1, epoch, l2, flight, req, writer, evicted, fence, faults>>

\* The process dies with its memory, its flights and its handlers.
Restart(p) ==
    /\ Fault
    /\ l1' = [l1 EXCEPT ![p] = NoEntry]
    /\ epoch' = [epoch EXCEPT ![p] = 0]
    /\ fence' = [fence EXCEPT ![p] = evicted]
    /\ flight' = [f \in Flight |-> IF flight[f].proc = p THEN IdleFlight ELSE flight[f]]
    /\ req' = [r \in Req |-> IF req[r].proc = p THEN IdleReq ELSE req[r]]
    /\ writer' = [w \in Writer |-> IF writer[w].proc = p THEN IdleWriter ELSE writer[w]]
    /\ UNCHANGED <<db, l2, lock, evicted>>

-----------------------------------------------------------------------------
Request(r) ==
    \/ \E p \in Proc : Lookup(r, p)
    \/ ReadGeneration(r) \/ FlightsFull(r) \/ Leave(r)
    \/ \E f \in Flight : Join(r, f) \/ StartFlight(r, f)

Load(f) ==
    \/ ReadHit(f) \/ ReadMiss(f) \/ ReadError(f)
    \/ TakeLock(f) \/ LockBusy(f) \/ LockError(f) \/ WaitDeadline(f)
    \/ NoDatabase(f) \/ Query(f)
    \/ Publish(f) \/ PublishRevoked(f) \/ PublishError(f)
    \/ PutLocal(f) \/ Return(f)

Write(w) == (\E p \in Proc : Commit(w, p)) \/ InvalidateLocal(w) \/ Evict(w) \/ EvictError(w)

Surroundings ==
    \/ \E p \in Proc : OtherInvalidated(p) \/ L1Ages(p) \/ L1Drops(p) \/ Restart(p)
    \/ L2Expires \/ LockExpires

Next ==
    \/ \E r \in Req : Request(r)
    \/ \E f \in Flight : Load(f)
    \/ \E w \in Writer : Write(w)
    \/ Surroundings

Spec == Init /\ [][Next]_vars

\* A loader runs to its end: every wait in it has a timeout.
FairSpec == Spec /\ \A f \in Flight : WF_vars(Load(f))

-----------------------------------------------------------------------------
\* Redis never holds a version older than one whose writer has evicted it: a
\* flight that read MySQL before the eviction has lost its lock by the time it
\* publishes (publishVideoCache and evictVideoCache).
L2Coherent == l2 # Absent => l2 >= evicted

\* An entry of L1 is no older than what had been evicted from Redis when the
\* process last invalidated the video: the generation keeps out what was read
\* before (videoMemory.put).
L1Fenced == \A p \in Proc : l1[p].ver # Absent => l1[p].ver >= fence[p]

\* The same holds of every answer, fresh, shared or stale, counted from the
\* moment the request looked into L1.
AnswerFenced == \A r \in Req : req[r].pc = "answered" => req[r].ver >= req[r].floor

\* "Do not turn lock contention into a stampede against the database": while
\* Redis works, nothing was evicted and locks outlive the loads, one flight at
\* most queries MySQL, over all processes.
OneQuery ==
    faults = 0 /\ evicted = 0 /\ ~LockExpiry =>
      Cardinality({f \in Flight : flight[f].pc = "query"}) <= 1

\* Every request gets an answer or an error.
EveryRequestEnds == \A r \in Req : req[r].pc = "waiting" ~> req[r].pc # "waiting"

\* What invalidateVideo is for: when every writer is on the only process, no
\* entry of L1 is older than a version invalidateVideo has finished with.
InvalidatedStaysOut == \A p \in Proc : l1[p].ver # Absent => l1[p].ver >= evicted
=============================================================================

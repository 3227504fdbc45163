-------------------------------- MODULE Gate --------------------------------
(***************************************************************************)
(* What a request passes before its handler: rateLimit of backend/auth.go, *)
(* over the memoryLimiter, the circuitBreaker and withRedis of             *)
(* backend/resilience.go and the counters its script keeps in Redis.  One  *)
(* process; the limiter and the breaker have a mutex each, so a call of    *)
(* either is one step.                                                     *)
(***************************************************************************)
EXTENDS Naturals, Sequences, FiniteSets

CONSTANTS
    Key,          \* limit keys: a route and a user or an address
    Caller,       \* requests inside rateLimit
    MaxRate,      \* max, the same for every key
    Window,       \* window
    Capacity,     \* 10000 entries of the limiter
    Threshold,    \* 3 failures open the circuit
    Cooldown,     \* 2 seconds
    MaxClock,     \* bound: the clock stops here
    MaxGateFaults \* bound: failing Redis calls

ASSUME GateConstants ==
    /\ Key # {} /\ IsFiniteSet(Caller)
    /\ MaxRate \in Nat \ {0} /\ Window \in Nat \ {0} /\ Capacity \in Nat \ {0}
    /\ Threshold \in Nat \ {0} /\ Cooldown \in Nat \ {0}
    /\ MaxClock \in Nat /\ MaxGateFaults \in Nat

VARIABLES
    clock,    \* the process's clock
    entries,  \* memoryLimiter.entries, a function on the keys it holds
    shared,   \* the counters of limitScript in Redis
    breaker,  \* circuitBreaker; until 0 is the zero time: closed
    caller,   \* requests inside rateLimit
    passed,   \* history: when the requests that were let through took their turn
    gateFaults

gateVars == <<clock, entries, shared, breaker, caller, passed, gateFaults>>

-----------------------------------------------------------------------------
LocalLimit == [count: Nat, expires: Nat]

BreakerState == [failures: Nat, until: Nat, probing: BOOLEAN]

CallerState == [pc: {"out", "taken", "calling"}, key: Key, at: Nat, probe: BOOLEAN]

OutCaller == [pc |-> "out", key |-> CHOOSE k \in Key : TRUE, at |-> 0, probe |-> FALSE]

GateTypeOK ==
    /\ clock \in Nat
    /\ DOMAIN entries \subseteq Key
    /\ entries \in [DOMAIN entries -> LocalLimit]
    /\ shared \in [Key -> LocalLimit]
    /\ breaker \in BreakerState
    /\ caller \in [Caller -> CallerState]
    /\ passed \in [Key -> Seq(Nat)]
    /\ gateFaults \in Nat
    /\ Cardinality(DOMAIN entries) <= Capacity

GateInit ==
    /\ clock = 1
    /\ entries = << >>
    /\ shared = [k \in Key |-> [count |-> 0, expires |-> 0]]
    /\ breaker = [failures |-> 0, until |-> 0, probing |-> FALSE]
    /\ caller = [c \in Caller |-> OutCaller]
    /\ passed = [k \in Key |-> <<>>]
    /\ gateFaults = 0

GateTick ==
    /\ clock < MaxClock
    /\ clock' = clock + 1
    /\ UNCHANGED <<entries, shared, breaker, caller, passed, gateFaults>>

-----------------------------------------------------------------------------
(* memoryLimiter.take.                                                     *)

\* Mutant: room is made by dropping everything.
RoomDropAll == << >>

\* The entries left after the sweep: those whose window is not over.
Room == LET live == {k \in DOMAIN entries : clock < entries[k].expires}
        IN  [k \in live |-> entries[k]]

\* The sweep only runs for a key that is not there, with the map full.
Swept(k) ==
    IF k \notin DOMAIN entries /\ Cardinality(DOMAIN entries) >= Capacity
    THEN Room ELSE entries

LimiterFull(k) == k \notin DOMAIN entries /\ Cardinality(DOMAIN Swept(k)) >= Capacity

\* The entry after the turn: a new window, or one more in the present one.
Turn(k) ==
    IF k \in DOMAIN entries /\ clock < entries[k].expires
    THEN [entries[k] EXCEPT !.count = @ + 1]
    ELSE [count |-> 1, expires |-> clock + Window]

Counted(k) ==
    entries' = [x \in DOMAIN Swept(k) \cup {k} |-> IF x = k THEN Turn(k) ELSE entries[x]]

\* 503: the limiter is full of live windows.  The sweep has happened.
TakeBusy(c, k) ==
    /\ caller[c].pc = "out"
    /\ LimiterFull(k)
    /\ entries' = Swept(k)
    /\ UNCHANGED <<clock, shared, breaker, caller, passed, gateFaults>>

\* Bound: counting on after the budget is spent changes nothing any more.
CountCap == MaxRate + 1

\* 429 from the local budget.
TakeDenied(c, k) ==
    /\ caller[c].pc = "out"
    /\ ~LimiterFull(k)
    /\ Turn(k).count > MaxRate
    /\ Turn(k).count <= CountCap
    /\ Counted(k)
    /\ UNCHANGED <<clock, shared, breaker, caller, passed, gateFaults>>

TakeAllowed(c, k) ==
    /\ caller[c].pc = "out"
    /\ ~LimiterFull(k)
    /\ Turn(k).count <= MaxRate
    /\ Counted(k)
    /\ caller' = [caller EXCEPT ![c] = [pc |-> "taken", key |-> k, at |-> clock, probe |-> FALSE]]
    /\ UNCHANGED <<clock, shared, breaker, passed, gateFaults>>

-----------------------------------------------------------------------------
(* withRedis around limitScript.                                           *)

Closed == breaker.until = 0

MayProbe == ~Closed /\ clock >= breaker.until /\ ~breaker.probing

LetThrough(c) ==
    /\ passed' = [passed EXCEPT ![caller[c].key] = Append(@, caller[c].at)]
    /\ caller' = [caller EXCEPT ![c] = OutCaller]

\* errRedisOpen: the request goes on with the local budget alone.
Refused(c) ==
    /\ caller[c].pc = "taken"
    /\ ~Closed /\ ~MayProbe
    /\ LetThrough(c)
    /\ UNCHANGED <<clock, entries, shared, breaker, gateFaults>>

\* circuitBreaker.allow: closed, or the one probe after the cool-down.
Allow(c) ==
    /\ caller[c].pc = "taken"
    /\ Closed \/ MayProbe
    /\ breaker' = [breaker EXCEPT !.probing = @ \/ MayProbe]
    /\ caller' = [caller EXCEPT ![c].pc = "calling", ![c].probe = MayProbe]
    /\ UNCHANGED <<clock, entries, shared, passed, gateFaults>>

\* Mutant: a failure leaves the probing flag alone.
ResultFailedSticky ==
    [failures |-> breaker.failures + 1,
     until |-> IF breaker.failures + 1 >= Threshold THEN clock + Cooldown ELSE breaker.until,
     probing |-> breaker.probing]

\* circuitBreaker.result, of a failure.
ResultFailed ==
    [failures |-> breaker.failures + 1,
     until |-> IF breaker.failures + 1 >= Threshold THEN clock + Cooldown ELSE breaker.until,
     probing |-> FALSE]

\* circuitBreaker.result, of a success: whoever succeeds closes the circuit.
ResultOk == [failures |-> 0, until |-> 0, probing |-> FALSE]

\* limitScript: INCR, and the expiry with the first.
Script(k) ==
    IF clock < shared[k].expires
    THEN [shared[k] EXCEPT !.count = @ + 1]
    ELSE [count |-> 1, expires |-> clock + Window]

\* The script answers; 429 when the shared budget is spent.
CallOk(c) ==
    LET k == caller[c].key IN
    /\ caller[c].pc = "calling"
    /\ shared' = [shared EXCEPT ![k] = Script(k)]
    /\ breaker' = ResultOk
    /\ IF Script(k).count > MaxRate
       THEN caller' = [caller EXCEPT ![c] = OutCaller] /\ UNCHANGED passed
       ELSE LetThrough(c)
    /\ UNCHANGED <<clock, entries, gateFaults>>

\* The call fails or times out, executed by Redis or not; the request goes on.
CallFails(c) ==
    /\ caller[c].pc = "calling"
    /\ gateFaults < MaxGateFaults
    /\ gateFaults' = gateFaults + 1
    /\ shared' \in {shared, [shared EXCEPT ![caller[c].key] = Script(caller[c].key)]}
    /\ breaker' = ResultFailed
    /\ LetThrough(c)
    /\ UNCHANGED <<clock, entries>>

-----------------------------------------------------------------------------
GateNext ==
    \/ GateTick
    \/ \E c \in Caller :
          \/ \E k \in Key : TakeBusy(c, k) \/ TakeDenied(c, k) \/ TakeAllowed(c, k)
          \/ Refused(c)
          \/ Allow(c)
          \/ CallOk(c)
          \/ CallFails(c)

GateSpec == GateInit /\ [][GateNext]_gateVars

-----------------------------------------------------------------------------
(* Properties.                                                             *)

\* A key never passes more than two budgets within one window, whatever Redis
\* does and whichever other keys crowd the limiter: the guarantee of fixed
\* windows, lost if an outage or a full map started a fresh one ("never starts
\* a fresh local allowance in the middle of an outage", rateLimit).
LocalBudget ==
    \A k \in Key, t \in 1..clock :
        Cardinality({i \in DOMAIN passed[k] : passed[k][i] \in t..(t + Window - 1)}) <= 2 * MaxRate

\* While the breaker refuses everybody because of a probe, that probe is still
\* under way, so its result will come: calls that began before the circuit
\* opened and report late cannot leave the circuit open for ever.
ProbeUnderWay ==
    breaker.probing => \E c \in Caller : caller[c].pc = "calling" /\ caller[c].probe
=============================================================================

------------------------- MODULE NotificationStream -------------------------
(***************************************************************************)
(* One notification stream, messaging.go: a client is told to refresh at   *)
(* the start, at every tick and at every Pub/Sub signal.  No part of the   *)
(* program publishes on the channel, so the tick is what a client lives    *)
(* by; a signal may come from elsewhere.  Time is counted in units of the  *)
(* model; a step of the loop takes none, except a subscription that waits  *)
(* for Redis.                                                              *)
(***************************************************************************)
EXTENDS Integers

CONSTANTS
    Period,       \* 20 seconds between two ticks
    RedisTimeout  \* how long a subscription waits at most

ASSUME StreamConstants ==
    /\ Period \in Nat \ {0}
    /\ RedisTimeout \in 0..Period

VARIABLES
    loop,    \* where the handler is
    sub,     \* the Pub/Sub subscription is open
    phase,   \* time since the ticker fired
    pending, \* a tick waits in the ticker's channel, which holds one
    waited,  \* time spent in the subscription under way
    unseen   \* age of the oldest message the client was not told of, or -1

streamVars == <<loop, sub, phase, pending, waited, unseen>>

-----------------------------------------------------------------------------
StreamTypeOK ==
    /\ loop \in {"closed", "opening", "select", "resubscribing"}
    /\ sub \in BOOLEAN
    /\ phase \in 0..Period
    /\ pending \in BOOLEAN
    /\ waited \in 0..RedisTimeout
    /\ unseen \in {-1} \cup 0..(3 * Period)
    /\ sub => loop = "select"

StreamInit ==
    /\ loop = "closed"
    /\ sub = FALSE
    /\ phase = 0
    /\ pending = FALSE
    /\ waited = 0
    /\ unseen = -1

Refresh == unseen' = -1

\* The client connects; the first subscription comes before the first refresh.
StreamOpen ==
    /\ loop = "closed"
    /\ loop' = "opening"
    /\ waited' = 0
    /\ UNCHANGED <<sub, phase, pending, unseen>>

\* The first subscription ends, one way or the other; refresh, then the ticker.
StreamOpened(ok) ==
    /\ loop = "opening"
    /\ loop' = "select"
    /\ sub' = ok
    /\ Refresh
    /\ phase' = 0
    /\ pending' = FALSE
    /\ UNCHANGED waited

\* Mutant: a tick refreshes only the client that has no subscription.
StreamTickUnlessSubscribed ==
    /\ loop = "select"
    /\ pending
    /\ pending' = FALSE
    /\ IF sub THEN UNCHANGED <<unseen, loop>> ELSE Refresh /\ loop' = "resubscribing"
    /\ waited' = 0
    /\ UNCHANGED <<sub, phase>>

StreamTick ==
    /\ loop = "select"
    /\ pending
    /\ pending' = FALSE
    /\ Refresh
    /\ loop' = IF sub THEN "select" ELSE "resubscribing"
    /\ waited' = 0
    /\ UNCHANGED <<sub, phase>>

Resubscribed(ok) ==
    /\ loop = "resubscribing"
    /\ loop' = "select"
    /\ sub' = ok
    /\ UNCHANGED <<phase, pending, waited, unseen>>

StreamSignal ==
    /\ loop = "select"
    /\ sub
    /\ Refresh
    /\ UNCHANGED <<loop, sub, phase, pending, waited>>

\* The channel is closed: the next tick subscribes again.
ChannelClosed ==
    /\ loop = "select"
    /\ sub
    /\ sub' = FALSE
    /\ UNCHANGED <<loop, phase, pending, waited, unseen>>

StreamClose ==
    /\ loop # "closed"
    /\ loop' = "closed"
    /\ sub' = FALSE
    /\ pending' = FALSE
    /\ unseen' = -1
    /\ phase' = 0
    /\ waited' = 0

MessageCommitted ==
    /\ loop # "closed"
    /\ unseen = -1
    /\ unseen' = 0
    /\ UNCHANGED <<loop, sub, phase, pending, waited>>

\* A select with a tick at hand does not wait, and a subscription waits no
\* longer than its timeout.
TimePasses ==
    LET waiting == loop \in {"opening", "resubscribing"} IN
    /\ loop # "closed"
    /\ ~(loop = "select" /\ pending)
    /\ waiting => waited < RedisTimeout
    /\ waited' = IF waiting THEN waited + 1 ELSE waited
    /\ IF loop = "opening" THEN UNCHANGED <<phase, pending>>
       ELSE /\ phase' = (phase + 1) % Period
            /\ pending' = (pending \/ phase + 1 = Period)
    /\ unseen' = IF unseen = -1 THEN -1 ELSE unseen + 1
    /\ UNCHANGED <<loop, sub>>

StreamNext ==
    \/ StreamOpen
    \/ \E ok \in BOOLEAN : StreamOpened(ok)
    \/ StreamTick
    \/ \E ok \in BOOLEAN : Resubscribed(ok)
    \/ StreamSignal
    \/ ChannelClosed
    \/ StreamClose
    \/ MessageCommitted
    \/ TimePasses

StreamSpec == StreamInit /\ [][StreamNext]_streamVars

-----------------------------------------------------------------------------
\* No connected client is more than one period behind the message centre, with
\* Redis up, down or coming and going: "periodic refresh also repairs lost
\* Pub/Sub signals after reconnect, regardless of whether Redis is healthy"
\* (notificationStream).
NeverFarBehind == unseen <= Period
=============================================================================

------------------------------- MODULE Tally --------------------------------
(***************************************************************************)
(* What a counter column promises about the rows it counts: members join   *)
(* and leave one at a time, and the number moves in the same step.         *)
(***************************************************************************)
EXTENDS Integers

CONSTANTS
    Member,  \* what is counted
    Ledger   \* the counters

VARIABLES
    chosen,  \* the members counted by each ledger
    tally    \* its number

TallyInit ==
    /\ chosen = [c \in Ledger |-> {}]
    /\ tally = [c \in Ledger |-> 0]

Join(c, m) ==
    /\ m \notin chosen[c]
    /\ chosen' = [chosen EXCEPT ![c] = @ \cup {m}]
    /\ tally' = [tally EXCEPT ![c] = @ + 1]

Leave(c, m) ==
    /\ m \in chosen[c]
    /\ chosen' = [chosen EXCEPT ![c] = @ \ {m}]
    /\ tally' = [tally EXCEPT ![c] = @ - 1]

\* The first conjunct follows from the second and spares TLC its evaluation.
TallyNext ==
    /\ tally' # tally
    /\ \E c \in Ledger, m \in Member : Join(c, m) \/ Leave(c, m)

TallySpec == TallyInit /\ [][TallyNext]_<<chosen, tally>>
=============================================================================

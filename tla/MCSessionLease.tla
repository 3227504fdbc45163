--------------------------- MODULE MCSessionLease ---------------------------
(* Model values and small times for SessionLease.                          *)
EXTENDS SessionLease, TLC

\* Every session expires with the last tick of the model.
MCExpiry == [s \in Sid |-> MaxTime]

Symmetry == Permutations(Req) \cup Permutations(Rev)
=============================================================================

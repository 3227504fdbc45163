---------------------------- MODULE MCOutboxRelay ----------------------------
(* Model values for OutboxRelay.                                            *)
EXTENDS OutboxRelay, TLC

Symmetry == Permutations(Consumer)
=============================================================================

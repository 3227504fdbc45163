---------------------------- MODULE MCVideoCache ----------------------------
(* Model values for VideoCache.                                            *)
EXTENDS VideoCache, TLC

Symmetry == Permutations(Proc) \cup Permutations(Flight) \cup Permutations(Req)
             \cup Permutations(Writer)
=============================================================================

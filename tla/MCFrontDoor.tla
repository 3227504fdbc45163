---------------------------- MODULE MCFrontDoor -----------------------------
(* The way in: Accounts and Gate.  They share no variable, so their steps   *)
(* commute and an interleaving of both reaches nothing that each alone does *)
(* not; a behaviour of this module therefore follows one of them.           *)
EXTENDS Accounts, Gate, TLC

VARIABLE focus

Init ==
    /\ focus \in {"accounts", "gate"}
    /\ AccountsInit
    /\ GateInit

Next ==
    /\ UNCHANGED focus
    /\ \/ focus = "accounts" /\ AccountsNext /\ UNCHANGED gateVars
       \/ focus = "gate" /\ GateNext /\ UNCHANGED accountsVars

Spec == Init /\ [][Next]_<<focus, accountsVars, gateVars>>

FrontDoorTypeOK == AccountsTypeOK /\ GateTypeOK

Symmetry == Permutations(User) \cup Permutations(Name) \cup Permutations(Proc)
=============================================================================

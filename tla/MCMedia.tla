------------------------------- MODULE MCMedia -------------------------------
(* Files and rows that must agree: uploads and videos, and the migration of *)
(* an old installation.  The two share no variable: their steps commute,    *)
(* and a behaviour of this module follows one of them.                      *)
EXTENDS Uploads, CoreMigration, TLC

VARIABLE focus

Init ==
    /\ focus \in {"uploads", "migration"}
    /\ UploadsInit
    /\ MigrationInit

Next ==
    /\ UNCHANGED focus
    /\ \/ /\ focus = "uploads"
          /\ UploadsNext
          /\ UNCHANGED migrationVars
       \/ /\ focus = "migration"
          /\ MigrationNext
          /\ UNCHANGED uploadVars

Spec == Init /\ [][Next]_<<focus, uploadVars, migrationVars>>

MediaTypeOK == UploadsTypeOK /\ MigrationTypeOK

Symmetry == Permutations(Caller) \cup Permutations(Name)
=============================================================================

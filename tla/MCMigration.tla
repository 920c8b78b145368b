---------------------------- MODULE MCMigration ----------------------------
(***************************************************************************)
(* Three runs of the command over the three files of migrations/: 001      *)
(* creates what the others alter and commits itself, and the SQL of 003    *)
(* may be executed again.                                                  *)
(***************************************************************************)
EXTENDS Migration

CONSTANTS m1, m2, m3

RepoVersions == [f \in Files |-> f]
SharedPrefix == [f \in Files |-> IF f = 3 THEN 2 ELSE f]
RepoNeeds == [f \in Files |-> IF f = 1 THEN {} ELSE {1}]
=============================================================================

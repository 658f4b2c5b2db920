---------------------------- MODULE MCMigrations ----------------------------
(* Small instances of Migrations for TLC. *)
EXTENDS Migrations, TLC

CONSTANTS p1, p2

(* The statements of the three migrations of the code. *)
MCStatements == <<12, 2, 2>>

Symmetry == Permutations(Procs)
=============================================================================

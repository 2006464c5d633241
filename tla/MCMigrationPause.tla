-------------------------- MODULE MCMigrationPause --------------------------
(* Small instances of MigrationPause for TLC. *)
EXTENDS MigrationPause, TLC

Symmetry == Permutations(Writer) \cup Permutations(Migration)
=============================================================================

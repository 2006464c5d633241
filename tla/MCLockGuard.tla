---------------------------- MODULE MCLockGuard -----------------------------
(* Small instances of LockGuard for TLC. *)
EXTENDS LockGuard, TLC

Symmetry == Permutations(Script) \cup Permutations(Run)
=============================================================================

----------------------------- MODULE MCHostLock -----------------------------
(* Small instances of HostLock for TLC.                                    *)
EXTENDS HostLock, TLC

CONSTANTS r1, r2, h1, h2, f1, f2

\* One lock file; the host's seconds start one tick before the controller's.
OneTarget == [h \in {h1} |-> f1]
OnePhase == [f \in {f1} |-> 1]
ZeroPhase == [f \in {f1} |-> 0]

\* Two lock files, one second in step with the controller and one not.
TwoTargets == [h \in {h1, h2} |-> IF h = h1 THEN f1 ELSE f2]
TwoPhases == [f \in {f1, f2} |-> IF f = f1 THEN 0 ELSE 1]
ZeroPhases == [f \in {f1, f2} |-> 0]

RunSymmetry == Permutations(Run)

\* Two host names for one lock file.
AliasTargets == [h \in {h1, h2} |-> f1]
=============================================================================

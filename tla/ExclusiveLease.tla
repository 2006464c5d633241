--------------------------- MODULE ExclusiveLease ---------------------------
(***************************************************************************)
(* What the host locks promise the commands that use them: at every moment *)
(* at most one run is permitted to change what a lock file protects.  A    *)
(* permission is given to one run, on files nobody else is permitted on,   *)
(* and taken away from any number of runs at once, because a deadline      *)
(* passes without anybody acting.                                          *)
(***************************************************************************)
CONSTANTS Run, File

VARIABLE permitted   \* permitted[f]: the runs that may change what f protects

AtMostOne(S) == \A r, s \in S : r = s

Init == permitted = [f \in File |-> {}]

\* Run r becomes permitted on some files; other runs may lose permissions.
Grant(r) ==
  /\ permitted' \in [File -> SUBSET Run]
  /\ \A f \in File : permitted'[f] \subseteq permitted[f] \cup {r}
  /\ \A f \in File : AtMostOne(permitted'[f])

\* Permissions end.
Revoke ==
  /\ permitted' \in [File -> SUBSET Run]
  /\ \A f \in File : permitted'[f] \subseteq permitted[f]

Next == Revoke \/ \E r \in Run : Grant(r)

Spec == Init /\ [][Next]_permitted

\* Two runs are never permitted on the same lock file.
Exclusive == \A f \in File : AtMostOne(permitted[f])
=============================================================================

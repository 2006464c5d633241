--------------------------- MODULE WriteAdmission ---------------------------
(***************************************************************************)
(* What the migration pause promises: an ordinary infrastructure writer    *)
(* and a state migration that has touched a backend and is not yet proved  *)
(* never coexist, and at most one migration is in that condition.          *)
(***************************************************************************)
CONSTANTS Writer, Migration

VARIABLES
  admitted,   \* the writers that may change infrastructure
  moving      \* the migrations that changed a backend and are not verified

vars == <<admitted, moving>>

Init == admitted = {} /\ moving = {}

Admit(w) ==
  /\ moving = {}
  /\ admitted' = admitted \cup {w}
  /\ UNCHANGED moving

\* Writers end, or are killed together with their processes.
Leave ==
  /\ admitted' \in SUBSET admitted
  /\ UNCHANGED moving

Begin(m) ==
  /\ admitted = {}
  /\ moving \subseteq {m}
  /\ moving' = {m}
  /\ UNCHANGED admitted

Prove(m) ==
  /\ moving' = moving \ {m}
  /\ UNCHANGED admitted

Next ==
  \/ Leave
  \/ \E w \in Writer : Admit(w)
  \/ \E m \in Migration : Begin(m) \/ Prove(m)

Spec == Init /\ [][Next]_vars

\* No writer is admitted while a migration is under way.
Excluded == admitted = {} \/ moving = {}
=============================================================================

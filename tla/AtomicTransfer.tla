--------------------------- MODULE AtomicTransfer ---------------------------
(***************************************************************************)
(* What a state migration promises ordinary writers: they see every        *)
(* instance where it was, or nothing at all while the transfer is under    *)
(* way, or every instance where the manifest assigns it.  The outcome is   *)
(* decided once, before anything is shown again, and never revised.        *)
(***************************************************************************)
VARIABLES
  visible,   \* the assignment of instances that a writer may act on
  outcome    \* the assignment that was proved, "none" before that

vars == <<visible, outcome>>

Layouts == {"home", "dest"}

Init == visible = "home" /\ outcome = "none"

\* The pause begins.
Hide ==
  /\ visible = "home"
  /\ outcome = "none"
  /\ visible' = "hidden"
  /\ UNCHANGED outcome

\* Every backend and every plan was checked.
Decide ==
  /\ visible = "hidden"
  /\ outcome = "none"
  /\ outcome' \in Layouts
  /\ UNCHANGED visible

\* The pause ends.
Show ==
  /\ visible = "hidden"
  /\ outcome # "none"
  /\ visible' = outcome
  /\ UNCHANGED outcome

Next == Hide \/ Decide \/ Show

Spec == Init /\ [][Next]_vars
=============================================================================

----------------------------- MODULE MCMutation -----------------------------
(***************************************************************************)
(* Two commands for TLC.  The first plans into the file that the second    *)
(* applies, or both apply plans of their own; e1 guards the credential.    *)
(***************************************************************************)
EXTENDS Mutation, TLC

CONSTANTS r1, r2, e1, g1, s1

PlanOut == [op |-> "plan", saved |-> FALSE, credential |-> FALSE, auto |-> FALSE]
OwnPlan == [op |-> "apply", saved |-> FALSE, credential |-> FALSE, auto |-> FALSE]
OfSaved == [op |-> "apply", saved |-> TRUE, credential |-> FALSE, auto |-> FALSE]
WithCredential(j) == [j EXCEPT !.credential = TRUE]

JobsOfTwo ==
  { r1 :> PlanOut @@ r2 :> OfSaved,
    r1 :> WithCredential(PlanOut) @@ r2 :> WithCredential(OfSaved),
    r1 :> WithCredential(OwnPlan) @@ r2 :> [OwnPlan EXCEPT !.auto = TRUE] }

LockedOrStray == {{g1}, {e1, s1}}
=============================================================================

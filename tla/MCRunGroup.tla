----------------------------- MODULE MCRunGroup -----------------------------
(***************************************************************************)
(* A command, descendants, and secrets that overlap each other.            *)
(***************************************************************************)
EXTENDS RunGroup

Overlapping ==
  { [value |-> <<"a", "b">>, label |-> 1], [value |-> <<"b", "a">>, label |-> 2] }
=============================================================================

----------------------------- MODULE MCMigration ----------------------------
(***************************************************************************)
(* Instances of Migration for TLC: a and b exchange an instance each, a    *)
(* also gives one to the fresh workspace n.  In the small instance a keeps *)
(* an instance and gives one to n.                                         *)
(***************************************************************************)
EXTENDS Migration

Workspaces == {"a", "b", "n"}
Positions == [w \in Workspaces |-> CASE w = "a" -> 1 [] w = "n" -> 2 [] w = "b" -> 3]
Instances == {"x", "y", "z"}
Homes == [i \in Instances |-> IF i = "z" THEN "b" ELSE "a"]
Dests == [i \in Instances |-> CASE i = "x" -> "b" [] i = "y" -> "n" [] i = "z" -> "a"]
Freshes == {"n"}

TwoWorkspaces == {"a", "n"}
TwoPositions == [w \in TwoWorkspaces |-> IF w = "a" THEN 1 ELSE 2]
TwoInstances == {"x", "y"}
TwoHomes == [i \in TwoInstances |-> "a"]
TwoDests == [i \in TwoInstances |-> IF i = "x" THEN "a" ELSE "n"]
=============================================================================

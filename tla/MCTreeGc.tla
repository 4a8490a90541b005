------------------------------ MODULE MCTreeGc ------------------------------
(* Instances of TreeGc for TLC. *)
EXTENDS TreeGc

Keys4 == 1..4
Nodes == Permutations(Node)
=============================================================================

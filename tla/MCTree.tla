------------------------------- MODULE MCTree -------------------------------
(* Instances of Tree for TLC. *)
EXTENDS Tree

Keys3 == 1..3
Keys4 == 1..4
Keys5 == 1..5
Nodes == Permutations(Node)
=============================================================================

---------------------------- MODULE Reachability ----------------------------
(***************************************************************************)
(* What a collector means by "reachable": the least set of cells that      *)
(* holds the starting points and is closed under following references.     *)
(* gc.c computes it by the recursion of mark_obj (a recursion the model    *)
(* does not need: the set it ends with is what matters), so it is defined  *)
(* here by its characteristic property, which is also the form the proofs  *)
(* use.                                                                    *)
(***************************************************************************)

\* A set closed under the references succ (a function from cells to sets of
\* cells).
IsClosed(S, succ) == \A o \in S : succ[o] \subseteq S

\* The least closed set that holds start: the cells a marker that begins at
\* start and follows succ visits.
ReachedFrom(start, succ) ==
  {o \in DOMAIN succ :
     \A S \in SUBSET DOMAIN succ :
        (start \subseteq S /\ IsClosed(S, succ)) => o \in S}
=============================================================================

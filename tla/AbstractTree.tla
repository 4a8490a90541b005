---------------------------- MODULE AbstractTree ----------------------------
(***************************************************************************)
(* What the manual promises of a search tree: a sequence of nodes in the   *)
(* order of their keys, in which a duplicate stands after its equals.      *)
(* There are no links, no sizes and no rebuilding here.                    *)
(***************************************************************************)
EXTENDS Naturals, SequencesExt

CONSTANTS Key, Node

VARIABLES order   \* the nodes in tree order, each a pair of a node and its key

Entry == Node \X Key

Init == order = <<>>

\* The orders that can follow old when an entry is added: it replaces one with an
\* equal key, unless duplicates are allowed, or follows all that are not greater.
Added(old, e, dup) ==
  LET equals == {i \in DOMAIN old : old[i][2] = e[2]}
      before == {i \in DOMAIN old : old[i][2] <= e[2]}
  IN  IF dup \/ equals = {} THEN {InsertAt(old, Cardinality(before) + 1, e)}
      ELSE {[old EXCEPT ![i] = e] : i \in equals}

Insert(old) ==
  \E e \in Entry, dup \in BOOLEAN :
    /\ \A i \in DOMAIN old : old[i][1] # e[1]
    /\ order' \in Added(old, e, dup)

\* A node is removed: one with a given key (which of several is not specified),
\* a given node, or the first.
Delete(old) == order' \in {RemoveAt(old, i) : i \in DOMAIN old}

Clear == order' = <<>>

Next == Clear \/ \E old \in {order} : Delete(old) \/ Insert(old)

Spec == Init /\ [][Next]_order
=============================================================================

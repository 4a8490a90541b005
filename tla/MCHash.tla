------------------------------- MODULE MCHash -------------------------------
(* Instances of Hash for TLC.  Tables begin with four slots, or with eight *)
(* of which three may be in use; the hash codes make clusters that wrap    *)
(* round the end of the table and fall apart when it grows.                *)
EXTENDS Hash, TLC

CONSTANTS h, g

Three == {1, 2, 3}
Four == {1, 2, 3, 4}
Five == {1, 2, 3, 4, 5}

\* Homes 7, 7, 6, 0 of eight, 15, 7, 6, 0 of sixteen.
Codes == [k \in Key |-> CASE k = 1 -> 15 [] k = 2 -> 7 [] k = 3 -> 6
                          [] k = 4 -> 0 [] OTHER -> 5]

Tables == {{"get", "remove", "clear"}, {"remove", "gc"}}
Traversals == {{"remove", "iterate"}, {"clear", "iterate"},
               {"iterate", "reset", "dissociate", "gc", "copy"}}
Removal == {{"remove", "iterate"}}
Sweeping == {{"gc"}}
Losing == {{"iterate", "gc"}}
Resetting == {{"iterate", "dissociate"}}
Copying == {{"gc", "copy"}}

One == {h}
Both == {h, g}

\* Iterators are interchangeable.
Symmetry == Permutations(Both)
=============================================================================

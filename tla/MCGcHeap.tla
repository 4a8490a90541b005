------------------------------ MODULE MCGcHeap ------------------------------
(* Instances of GcHeap for TLC: two heap blocks of HeapSize cells. *)
EXTENDS GcHeap, TLC

CONSTANTS a, b, c, d

TwoBlocks == {{a, b}, {c, d}}
OneAndOne == {{a}, {b}, {c}}
OneBlock == {{a, b}}

\* Cells of a block are interchangeable, and so are blocks.
Symmetry2 == {f \in Permutations({a, b, c, d}) :
                {f[a], f[b]} \in TwoBlocks /\ {f[c], f[d]} \in TwoBlocks}
Symmetry1 == Permutations({a, b, c})
Symmetry3 == Permutations({a, b})
=============================================================================

------------------------------- MODULE Sorting ------------------------------
(***************************************************************************)
(* The sorting functions of lib.c: the merge sort of lists, the quicksort  *)
(* of vectors behind sort and nsort, and the merge sort of vectors behind  *)
(* ssort and snsort.  Elements are records with a key and their position   *)
(* in the original sequence.                                               *)
(***************************************************************************)
EXTENDS Integers, SequencesExt

CONSTANT MedianAbove   \* the longest range sorted with the middle as its pivot: 15

\* A key function that extracts the key, and lessfun on keys; or the identity, and a
\* lessfun that compares elements by their keys.
Key(e)     == e.key
Less(a, b) == a < b

Sorted(v)       == \A i, j \in DOMAIN v : i < j => Key(v[i]) <= Key(v[j])
Permutes(v, w)  == /\ DOMAIN v = DOMAIN w
                   /\ \A e \in ToSet(v) \cup ToSet(w) :
                        Cardinality({i \in DOMAIN v : v[i] = e})
                          = Cardinality({i \in DOMAIN w : w[i] = e})
InOrder(v)      == \A i, j \in DOMAIN v : i < j /\ Key(v[i]) = Key(v[j]) => v[i].at < v[j].at

-----------------------------------------------------------------------------
(* Lists.                                                                  *)

\* merge prefers the first list.
TakesSecond(a, b) == Less(Key(b), Key(a))

RECURSIVE Merge(_, _)
Merge(l1, l2) ==
  IF l1 = <<>> \/ l2 = <<>> THEN l1 \o l2
  ELSE IF TakesSecond(Head(l1), Head(l2)) THEN <<Head(l2)>> \o Merge(l1, Tail(l2))
       ELSE <<Head(l1)>> \o Merge(Tail(l1), l2)

\* sort_list: the fast iterator starts two cells ahead, the bisection at the first.
RECURSIVE SortList(_)
SortList(l) ==
  LET n   == Len(l)
      mid == 1 + (n - 1) \div 2
  IN  CASE n < 2 -> l
        [] n = 2 -> IF Less(Key(l[2]), Key(l[1])) THEN Reverse(l) ELSE l
        [] n > 2 -> Merge(SortList(SubSeq(l, 1, mid)), SortList(SubSeq(l, mid + 1, n)))

-----------------------------------------------------------------------------
(* Vectors: quicksort.  Positions count from zero.                         *)

At(v, i)      == v[i + 1]
Swap(v, i, j) == [v EXCEPT ![i + 1] = v[j + 1], ![j + 1] = v[i + 1]]

Middle(from, to) == from + (to - from) \div 2

\* An element that is compared in place of its key: the same with the identity;
\* with another key function, elements compare by their positions here.
Whole(e, identity) == IF identity THEN Key(e) ELSE e.at

\* The key that med_of_three takes for the pivot; two comparisons are with the last
\* element and not with its key.
MedOfThree(v, from, to, identity) ==
  LET f == Key(At(v, from))
      m == Key(At(v, Middle(from, to)))
      t == Key(At(v, to - 1))
      w == Whole(At(v, to - 1), identity)
  IN  IF Less(f, m)
      THEN IF Less(m, w) THEN m ELSE IF Less(f, t) THEN t ELSE f
      ELSE IF Less(f, w) THEN f ELSE IF Less(m, t) THEN t ELSE m

Pivot(v, from, to, identity) ==
  IF to - from > MedianAbove THEN MedOfThree(v, from, to, identity)
  ELSE Key(At(v, Middle(from, to)))

\* Where the scan from the right stops.
Down(v, i, j, pk) == Max({i} \cup {k \in i..(j - 1) : ~Less(pk, Key(At(v, k)))})

\* Where the scan from the left stops; it has no bound of its own.
Up(v, i, pk) == Min({k \in (i + 1)..(Len(v) - 1) : ~Less(Key(At(v, k)), pk)})

\* The scans and the swaps of one pass, from i and j on.
RECURSIVE Parted(_, _, _, _)
Parted(v, i, j, pk) ==
  LET i1 == Up(v, i, pk)
      j1 == IF i1 < j - 1 THEN Down(v, i1, j, pk) ELSE j - 1
  IN  IF i1 >= j1 THEN [v |-> v, i |-> i1, j |-> j1]
      ELSE Parted(Swap(v, i1, j1), i1, j1, pk)

\* quicksort: the smaller part by recursion, the larger by another turn.
RECURSIVE Quicksort(_, _, _, _)
Quicksort(v, from, to, identity) ==
  IF to - from < 2 THEN v
  ELSE LET p == Parted(v, from - 1, to, Pivot(v, from, to, identity)) IN
       IF p.j - from > to - p.j
         THEN Quicksort(Quicksort(p.v, p.i, to, identity), from, p.i, identity)
         ELSE Quicksort(Quicksort(p.v, from, p.i, identity), p.i, to, identity)

SortVec(v, identity) == Quicksort(v, 0, Len(v), identity)

-----------------------------------------------------------------------------
(* Vectors: merge sort, with the identity for a key function or without.   *)

\* mergesort takes the left element only if it is less.
TakesLeft(a, b) == Less(Key(a), Key(b))

RECURSIVE MergeHalves(_, _)
MergeHalves(l, r) ==
  IF l = <<>> \/ r = <<>> THEN l \o r
  ELSE IF TakesLeft(Head(l), Head(r)) THEN <<Head(l)>> \o MergeHalves(Tail(l), r)
       ELSE <<Head(r)>> \o MergeHalves(l, Tail(r))

\* Two elements are compared without the key function, unless that is the identity.
PairLess(a, b, identity) == Less(Whole(a, identity), Whole(b, identity))

RECURSIVE Mergesort(_, _)
Mergesort(v, identity) ==
  LET n   == Len(v)
      mid == n \div 2
  IN  CASE n < 2 -> v
        [] n = 2 -> IF PairLess(v[2], v[1], identity) THEN Reverse(v) ELSE v
        [] n > 2 -> MergeHalves(Mergesort(SubSeq(v, 1, mid), identity),
                                Mergesort(SubSeq(v, mid + 1, n), identity))

SsortVec(v, identity) == Mergesort(v, identity)
=============================================================================

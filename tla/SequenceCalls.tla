--------------------------- MODULE SequenceCalls ----------------------------
(***************************************************************************)
(* The functions on sequences, called with any of the arguments of the     *)
(* instance, and what they have to return.                                 *)
(***************************************************************************)
EXTENDS Calls, Integers, SequencesExt

CONSTANTS
  T, Nowhere,   \* as in Slices
  SeqMax,       \* bound: the length of sequences
  SortMax,      \* bound: the length of sequences to sort
  MedianAbove,  \* as in Sorting
  ChooseMax     \* bound: the elements to choose from, and how many are chosen

Slices  == INSTANCE Slices
Sorting == INSTANCE Sorting
Combi   == INSTANCE Combi WITH Error <- Nowhere

-----------------------------------------------------------------------------
(* Slices.                                                                 *)

\* Sequences of distinct elements, and items to put in.
Numbered == {[i \in 1..n |-> i] : n \in 0..SeqMax}
Items    == {[i \in 1..n |-> -i] : n \in 0..2}
Bounds   == (-SeqMax - 1)..(SeqMax + 1) \cup {T, Missing}

\* Lists of up to three positions, in the order the manual asks for.
Positions(s) ==
  {wh \in BoundedSeq((-SeqMax)..(SeqMax + 1), 3) : Slices!Rising(wh, Len(s))}

\* ... that begin within the sequence: what a list does with one before its start
\* differs from what a vector does.
Within(s) == {wh \in Positions(s) : wh # <<>> => wh[1] >= -Len(s)}

\* The lazy strings that stand for s: some of it forced, the rest in two pieces.
Lazies(s) ==
  {[prefix |-> SubSeq(s, 1, i), list |-> <<SubSeq(s, i + 1, j), SubSeq(s, j + 1, Len(s))>>,
    limit |-> Missing] : <<i, j>> \in {x \in (0..Len(s)) \X (0..Len(s)) : x[1] <= x[2]}}

Sub ==
  \E s \in Numbered, from, to \in Bounds :
    Call("sub", <<s, from, to>>,
         {Slices!SubList(s, from, to), Slices!SubStr(s, from, to),
          Slices!SubVec(s, from, to), Slices!SubBuf(s, from, to),
          Slices!SubCarray(s, from, to)})

SubLazy ==
  \E s \in Numbered, from, to \in Bounds :
    Call("sub-lazy", <<s, from, to>>,
         {Slices!LazySubStr(l, from, to) : l \in Lazies(s)})

Replace ==
  \E s \in Numbered, items \in Items, from, to \in Bounds :
    Call("replace", <<s, items, from, to>>,
         {Slices!ReplaceList(s, items, from, to), Slices!ReplaceStr(s, items, from, to),
          Slices!ReplaceVec(s, items, from, to), Slices!ReplaceBuf(s, items, from, to)})

ReplaceCarray ==
  \E s \in Numbered, items \in Items, from, to \in Bounds :
    Call("carray-replace", <<s, items, from, to>>,
         Slices!ReplaceCarray(s, items, from, to))

Edit ==
  \E s \in Numbered \ {<<>>}, items \in Items :
    \E wh \in Within(s) :
      Call("replace-at", <<s, items, wh>>,
           {Slices!EditList(s, items, wh), Slices!EditStr(s, items, wh),
            Slices!EditVec(s, items, wh), Slices!EditBuf(s, items, wh)})

Select ==
  \E s \in Numbered :
    \E wh \in Within(s) :
      Call("select", <<s, wh>>, {Slices!SelectList(s, wh), Slices!SelectVec(s, wh)})

Divide ==
  \E s \in Numbered \ {<<>>} :
    \E wh \in Positions(s) :
      Call("split", <<s, wh>>,
           [partition |-> Slices!Partition(s, wh), split |-> Slices!Split(s, wh),
            split_star |-> Slices!SplitStar(s, wh), reject |-> Slices!Reject(s, wh),
            partition_star |-> Slices!PartitionStar(s, wh)])

\* Sequences of two letters.
Words == BoundedSeq({1, 2}, SeqMax)

Compare ==
  \E l, r \in Words :
    Call("mismatch", <<l, r>>,
         [left |-> Slices!Mismatch(l, r), starts |-> Slices!StartsWith(l, r),
          right |-> {Slices!RmismatchLists(l, r), Slices!RmismatchMixed(l, r),
                     Slices!RmismatchVecs(l, r)},
          ends |-> Slices!EndsWith(l, r)])

Search ==
  \E s, key \in Words :
    Call("search", <<s, key>>,
         [all |-> Slices!SearchAll(s, key), left |-> Slices!SearchLeft(s, key),
          right |-> Slices!SearchRight(s, key)])

-----------------------------------------------------------------------------
(* Sorting.                                                                *)

Sort ==
  \E keys \in BoundedSeq(1..3, SortMax) :
    LET v == [i \in DOMAIN keys |-> [key |-> keys[i], at |-> i]] IN
    Call("sort", v, [list |-> Sorting!SortList(v),
                     vec |-> {Sorting!SortVec(v, identity) : identity \in BOOLEAN},
                     ssort |-> Sorting!SsortVec(v, TRUE),
                     keyed |-> Sorting!SsortVec(v, FALSE)])

-----------------------------------------------------------------------------
(* Permutations and combinations.                                          *)

Choose ==
  \/ \E n \in 0..ChooseMax, k \in 0..ChooseMax \cup {Missing} :
       Call("perm", <<n, k>>,
            {Combi!PermList(n, k), Combi!PermVec(n, k), Combi!PermSeq(n, k), Combi!Permi(n, k)})
  \/ \E n, k \in 0..ChooseMax :
       \/ Call("comb", <<n, k>>,
               {Combi!CombList(n, k), Combi!CombSeq(n, k), Combi!Combi_(n, k)})
       \/ Call("rperm", <<n, k>>, {Combi!Rperm(n, k)})
       \/ Call("rcomb", <<n, k>>, {Combi!Rcomb(n, k), Combi!Rcombi(n, k)})

-----------------------------------------------------------------------------
(* Properties.                                                             *)

Resized(s, len) == [i \in 1..len |-> IF i <= Len(s) THEN s[i] ELSE Nil]

\* A range of a sequence, or a list of positions in it, means the same for every
\* kind of sequence, whether it is taken or replaced.  Left out are ranges replaced
\* that end before they start, or start at t and end at a number, and ranges of lazy
\* strings that end before the string starts.
RangesExact ==
  LET a == Args IN
  /\ Called("sub") => Result = {Slices!Range_(a[1], a[2], a[3])}
  /\ Called("sub-lazy") =>
       (a[3] \in Int /\ a[3] < -Len(a[1])) \/ Result = {Slices!Range_(a[1], a[2], a[3])}
  /\ Called("replace") =>
       \/ Slices!Start(a[3], Len(a[1])) > Slices!Finish(a[3], a[4], Len(a[1]))
       \/ a[3] = T /\ a[4] \in Int
       \/ Result = {Slices!Spliced(a[1], a[2], a[3], a[4])}
  /\ Called("carray-replace") =>
       Result = Resized(Slices!Spliced(a[1], a[2], a[3], a[4]), Len(a[1]))
  /\ Called("replace-at") => Result = {Slices!Edited(a[1], a[2], a[3])}
  /\ Called("select") => Result = {Slices!Selected(a[1], a[2])}

\* The pieces of a sequence lie between the positions given, for every lazy division;
\* what reject and partition* leave out is what the positions name.
PiecesExact ==
  Called("split") =>
    LET s     == Args[1]
        at    == ToSet(Slices!Places(Args[2], Len(s)))
        cuts  == at \cap 0..Len(s)
        plain == \A i \in DOMAIN Args[2] : Args[2][i] >= 0
    IN  /\ Result.split = Slices!Divided(s, cuts, 0)
        /\ Result.partition = Slices!NonEmpty(Slices!Divided(s, cuts, 0))
        /\ Len(s) \notin cuts => Result.split_star = Slices!Divided(s, cuts, 1)
        /\ Result.reject = Slices!Without(s, at)
        /\ plain => Result.partition_star = Slices!NonEmpty(Slices!Divided(s, cuts, 1))

\* Ranges, positions and divisions of a sequence are those of the manual.
SlicesExact == RangesExact /\ PiecesExact

\* mismatch and rmismatch find the first and the last difference, whatever the kinds
\* of the sequences, and search finds every occurrence and nothing else.
DifferencesExact ==
  LET a == Args IN
  /\ Called("mismatch") =>
       /\ Result.starts <=> IsPrefix(a[1], a[2])
       /\ Result.ends <=> IsSuffix(a[1], a[2])
       /\ Result.right = {IF Result.left = Nowhere THEN Nowhere
                          ELSE -1 - Slices!Mismatch(Reverse(a[1]), Reverse(a[2]))}
       /\ Result.left = Nowhere <=> a[1] = a[2]
  /\ Called("search") =>
       LET found == Slices!Occurrences(a[1], a[2]) IN
       /\ Result.all = found
       /\ Result.left = IF found = {} THEN Nowhere ELSE Min(found)
       /\ Result.right = IF found = {} THEN Nowhere ELSE Max(found)

\* Every sort puts its sequence in order, whatever the key function, and loses
\* nothing; that of lists is stable.  Two things the manual promises of ssort on
\* vectors are left out, for they fail: order, with a key function that is not the
\* identity, since two elements are compared without it (the result is then only
\* some permutation), and stability.
SortsExact ==
  Called("sort") =>
    /\ \A v \in {Result.list, Result.ssort} \cup Result.vec :
         Sorting!Sorted(v) /\ Sorting!Permutes(v, Args)
    /\ Sorting!InOrder(Result.list)
    /\ Sorting!Permutes(Result.keyed, Args)

\* Sequences are compared, searched and sorted alike, whatever their kinds.
ComparesExact == DifferencesExact /\ SortsExact

\* The permutations and combinations of a sequence are all its choices, once each and in
\* order, whether they come in a list or from an iterator.  An iterator over nothing is
\* nil.  Left out: the permutations of an empty sequence, without a length.
ChoicesExact ==
  LET n == Args[1]
      k == IF Args[2] = Missing THEN n ELSE Args[2]
      all == CASE Called("perm") -> Combi!Distinct(n, k) [] Called("comb") -> Combi!Increasing(n, k)
               [] Called("rperm") -> Combi!Tuples(n, k) [] OTHER -> Combi!Rising(n, k)
  IN  (\E fn \in {"perm", "comb", "rperm", "rcomb"} : Called(fn)) /\ Args # <<0, Missing>> =>
        \A r \in Result : IF r = Nil THEN k > n ELSE Combi!Enumerates(r, all)

\* The ranges, divisions, differences, orders and choices of a sequence are those of the
\* manual, for every kind of sequence, but for what the parts say they leave out.
SequencesExact == SlicesExact /\ ComparesExact /\ ChoicesExact
=============================================================================

------------------------------- MODULE Slices -------------------------------
(***************************************************************************)
(* Sequence operations of lib.c, buf.c and ffi.c that are written once for *)
(* every kind of sequence: the extraction and the replacement of a range   *)
(* or of a list of positions, the divisions of a sequence at positions,    *)
(* comparison from either end and search.  Positions count from zero;      *)
(* elements are whatever the instance makes them.                          *)
(***************************************************************************)
EXTENDS Integers, SequencesExt

CONSTANTS T,        \* the symbol t: one past the end
          Missing,  \* an omitted argument
          Nil,      \* what a vector or a carray is filled with
          Nowhere   \* nil for "no position"

Least(a, b) == IF a < b THEN a ELSE b
Most(a, b)  == IF a > b THEN a ELSE b

Clamp(n, len) == Most(0, Least(n, len))
Given(arg)    == arg \in Int
Wrap(n, len)  == IF n < 0 THEN n + len ELSE n

\* The elements at the positions from, ..., to - 1 of s.
Cut(s, from, to) == SubSeq(s, from + 1, to)

-----------------------------------------------------------------------------
(* Ranges.                                                                 *)

\* Range Indexing in the manual: negative positions count from the end, t is the
\* end, a zero that ends a range that starts below zero is the end, and what lies
\* outside is left out.
Start(from, len) == CASE from = Missing -> 0 [] from = T -> len
                      [] OTHER -> Clamp(Wrap(from, len), len)
Finish(from, to, len) ==
  IF ~Given(to) \/ (to = 0 /\ Given(from) /\ from < 0) THEN len
  ELSE Clamp(Wrap(to, len), len)

Range_(s, from, to) == Cut(s, Start(from, Len(s)), Finish(from, to, Len(s)))

\* The adjusted end of a range, as most of the functions compute it.
Ending_Plain(from, to, len) == IF ~Given(to) THEN len ELSE Wrap(to, len)

Ending(from, to, len) ==
  IF ~Given(to) \/ (Given(from) /\ from < 0 /\ to = 0) THEN len ELSE Wrap(to, len)

SubList(s, from, to) ==
  LET len     == Len(s)
      first   == IF Given(from) THEN Wrap(from, len) ELSE 0
      last    == IF ~Given(to) \/ (Given(from) /\ from < 0 /\ to = 0) THEN T
                 ELSE Wrap(to, len)
      counted == (Given(from) /\ from < 0) \/ (Given(to) /\ to < 0)
  IN  IF s = <<>> \/ from = T \/ (last # T /\ first > last) THEN <<>>
      ELSE IF last = T \/ (counted /\ last >= len) THEN Cut(s, Most(first, 0), len)
      ELSE Cut(s, Most(first, 0), Least(last, len))

SubStr(s, from, to) ==
  IF from = T THEN <<>>
  ELSE Cut(s, Clamp(IF Given(from) THEN Wrap(from, Len(s)) ELSE 0, Len(s)),
              Clamp(Ending(from, to, Len(s)), Len(s)))

First(from, len) == CASE from = T -> len [] Given(from) -> Wrap(from, len) [] OTHER -> 0

SubVec(s, from, to) ==
  Cut(s, Clamp(First(from, Len(s)), Len(s)), Clamp(Ending(from, to, Len(s)), Len(s)))

SubBuf(s, from, to) == SubVec(s, from, to)

SubCarray(s, from, to) ==
  LET fn == Clamp(First(from, Len(s)), Len(s))
      tn == Clamp(Ending(from, to, Len(s)), Len(s))
  IN  Cut(s, fn, Most(fn, tn))

\* A lazy string: what has been forced, the pieces that have not, and how many of
\* those may be.
Pieces(l)  == IF l.limit = Missing THEN Len(l.list) ELSE Least(l.limit, Len(l.list))
Forced(l, n) == [l EXCEPT !.prefix = @ \o FlattenSeq(SubSeq(l.list, 1, n)),
                          !.list = SubSeq(@, n + 1, Len(@)),
                          !.limit = IF @ = Missing THEN @ ELSE @ - n]
Whole(l) == Forced(l, Pieces(l)).prefix

\* lazy_str_force_upto: piece by piece, until there is an element at the position.
ForceUpto(l, at) ==
  Forced(l, Min({n \in 0..Pieces(l) : Len(Forced(l, n).prefix) > at} \cup {Pieces(l)}))

\* lazy_sub_str, and what it returns when forced.  (Its max of zero and to is C's, of
\* two pointers, and leaves a negative number what it is.)
LazySubStr(l, from, to) ==
  LET len   == Len(Whole(l))
      first == CASE ~Given(from) -> 0 [] from < 0 -> Most(0, from + len) [] OTHER -> from
      l1    == IF Given(from) /\ from < 0 THEN Forced(l, Pieces(l)) ELSE l
      l2    == IF first >= Len(l.prefix) /\ Given(from) THEN ForceUpto(l1, first) ELSE l1
      past  == Given(from) /\ first >= Len(l.prefix) /\ first >= Len(l2.prefix)
      toEnd == ~Given(to) \/ (Given(from) /\ from < 0 /\ to = 0)
      last  == IF toEnd THEN T ELSE Wrap(to, len)
      l3    == CASE ~toEnd /\ to < 0 -> Forced(l2, Pieces(l2))
                 [] ~toEnd /\ to >= Len(l.prefix) -> ForceUpto(l2, to - 1)
                 [] OTHER -> l2
      open  == toEnd \/ (last >= Len(l.prefix) /\ last > Len(l3.prefix))
  IN  IF from = T \/ past THEN <<>>
      ELSE IF open THEN Whole([l3 EXCEPT !.prefix = SubStr(@, first, T)])
      ELSE SubStr(l3.prefix, first, last)

-----------------------------------------------------------------------------
(* Replacement of a range.                                                 *)

\* What Overwriting a slice means.
Spliced(s, items, from, to) ==
  LET first == Start(from, Len(s)) IN
  Cut(s, 0, first) \o items
    \o Cut(s, Most(first, Finish(from, to, Len(s))), Len(s))

ReplaceList(s, items, from, to) ==
  LET len     == Len(s)
      none    == from = T
      first   == IF Given(from) THEN Wrap(from, len) ELSE 0
      zeroEnd == Given(from) /\ from < 0 /\ to = 0
      last    == IF ~Given(to) THEN T ELSE IF zeroEnd THEN len ELSE Wrap(to, len)
      counted == (Given(from) /\ from < 0) \/ (Given(to) /\ to < 0)
      kept    == IF none THEN <<>> ELSE Cut(s, 0, Clamp(Least(first, last), len))
  IN  CASE s = <<>> -> items
        [] s # <<>> /\ (last = T \/ (counted /\ last >= len)) ->
             (IF none THEN s ELSE Cut(s, 0, Clamp(first, len))) \o items
        [] OTHER -> kept \o items \o Cut(s, Clamp(last, len), len)

\* replace_str, replace_vec, replace_buf: the elements from position to on move up or
\* down to make room, and the items are stored at from.
ReplaceArray(s, items, from, to) ==
  LET f == Clamp(First(from, Len(s)), Len(s))
      t == Clamp(Ending(from, to, Len(s)), Len(s))
  IN  Cut(s, 0, f) \o items \o Cut(s, t, Len(s))

ReplaceStr(s, items, from, to) == ReplaceArray(s, items, from, to)
ReplaceVec(s, items, from, to) == ReplaceArray(s, items, from, to)
ReplaceBuf(s, items, from, to) == ReplaceArray(s, items, from, to)

\* A carray keeps its size.
ReplaceCarray(s, items, from, to) ==
  LET len   == Len(s)
      f     == Clamp(First(from, len), len)
      t     == Most(f, Clamp(Ending(from, to, len), len))
      sn    == Least(f + Len(items), len)
      moved == (sn - f) - (t - f)
  IN  [k \in 1..len |->
         CASE k > f /\ k <= sn -> items[k - f]
           [] k > sn /\ k - moved > t /\ k - moved <= len -> s[k - moved]
           [] k <= f -> s[k]
           [] OTHER -> Nil]

-----------------------------------------------------------------------------
(* Lists of positions.                                                     *)

Places(wh, len) == [j \in DOMAIN wh |-> Wrap(wh[j], len)]

\* The leading positions that exist; the manual has processing stop at the first
\* that does not.
Valid(wh, len) ==
  LET out == {j \in DOMAIN wh : Wrap(wh[j], len) \notin 0..(len - 1)}
  IN  SubSeq(Places(wh, len), 1, Min(out \cup {Len(wh) + 1}) - 1)

Rising(wh, len) ==
  \A j, k \in DOMAIN wh : j < k => Wrap(wh[j], len) < Wrap(wh[k], len)

Without(s, gone) ==
  FlattenSeq([i \in DOMAIN s |-> IF i - 1 \in gone THEN <<>> ELSE <<s[i]>>])

\* What replace with a list of positions means.
Edited(s, items, wh) ==
  LET at     == Valid(wh, Len(s))
      stored == FoldLeft(LAMBDA r, j : [r EXCEPT ![at[j] + 1] = items[j]], s,
                         [j \in 1..Least(Len(at), Len(items)) |-> j])
  IN  Without(stored, {at[j] : j \in {k \in DOMAIN at : k > Len(items)}})

Rest(items) == IF items = <<>> THEN <<>> ELSE Tail(items)

\* replace_list, from the cells s, the first of them at position i.
RECURSIVE EditCells(_, _, _, _, _)
EditCells(s, i, items, wh, len) ==
  IF s = <<>> \/ wh = <<>> THEN s
  ELSE LET w == Wrap(Head(wh), len) IN
       CASE w < i -> EditCells(s, i, Rest(items), Tail(wh), len)
         [] w = i -> (IF items = <<>> THEN <<>> ELSE <<Head(items)>>)
                       \o EditCells(Tail(s), i + 1, Rest(items), Tail(wh), len)
         [] w > i -> <<Head(s)>> \o EditCells(Tail(s), i + 1, items, wh, len)

EditList(s, items, wh) == IF s = <<>> THEN items ELSE EditCells(s, 0, items, wh, Len(s))

\* How far what follows the deletions has moved.
Shift(offs) == offs

RECURSIVE Deleted(_, _, _, _)
Deleted(s, wh, offs, len) ==
  IF wh = <<>> THEN s
  ELSE LET w == Wrap(Head(wh), len) - Shift(offs) IN
       IF Wrap(Head(wh), len) < 0 \/ w >= Len(s) THEN s
       ELSE Deleted(RemoveAt(s, w + 1), Tail(wh), offs + 1, len)

\* replace_str, replace_vec, replace_buf: first all that is stored, then all that is
\* deleted.  A position that is too large ends the storing and is used up.
EditArray(s, items, wh) ==
  LET len    == Len(s)
      big    == {j \in DOMAIN wh : wh[j] >= len}
      n      == Min({Len(items), Len(wh)} \cup {j - 1 : j \in big})
      used   == IF n < Len(items) /\ n < Len(wh) THEN n + 1 ELSE n
      stored == FoldLeft(LAMBDA r, j : [r EXCEPT ![Wrap(wh[j], len) + 1] = items[j]], s,
                         [j \in 1..n |-> j])
  IN  Deleted(stored, SubSeq(wh, used + 1, Len(wh)), 0, len)

EditStr(s, items, wh) == EditArray(s, items, wh)
EditVec(s, items, wh) == EditArray(s, items, wh)
EditBuf(s, items, wh) == EditArray(s, items, wh)

\* sel on a list, and on a vector.
RECURSIVE SelectCells(_, _, _, _)
SelectCells(s, i, wh, len) ==
  IF s = <<>> \/ wh = <<>> THEN <<>>
  ELSE LET w == Wrap(Head(wh), len) IN
       CASE w < i -> SelectCells(s, i, Tail(wh), len)
         [] w = i -> <<Head(s)>> \o SelectCells(Tail(s), i + 1, Tail(wh), len)
         [] w > i -> SelectCells(Tail(s), i + 1, wh, len)

SelectList(s, wh) == SelectCells(s, 0, wh, Len(s))

SelectVec(s, wh) ==
  LET big == {j \in DOMAIN wh : wh[j] >= Len(s)}
      n   == Min({Len(wh)} \cup {j - 1 : j \in big})
  IN  [j \in 1..n |-> s[Wrap(wh[j], Len(s)) + 1]]

Selected(s, wh) == LET at == Valid(wh, Len(s)) IN [j \in DOMAIN at |-> s[at[j] + 1]]

-----------------------------------------------------------------------------
(* Division at positions.  s is what is left of the sequence, and base the *)
(* position of its first element.                                          *)

Rebased(index, len, base) == (IF index < 0 THEN index + len + base ELSE index) - base

RECURSIVE PartitionFrom(_, _, _)
PartitionFrom(s, wh, base) ==
  IF wh = <<>> THEN <<s>>
  ELSE LET n    == Rebased(Head(wh), Len(s), base)
           rest == SubList(s, n, T)
       IN  CASE n <= 0 -> PartitionFrom(s, Tail(wh), base)
             [] n > 0 -> <<SubList(s, 0, n)>> \o
                         (IF rest = <<>> THEN <<>>
                          ELSE PartitionFrom(rest, Tail(wh), base + n))

\* split_func (skip = 0) and split_star_func (skip = 1).
RECURSIVE SplitFrom(_, _, _, _)
SplitFrom(s, wh, base, skip) ==
  IF wh = <<>> THEN <<s>>
  ELSE LET n    == Rebased(Head(wh), Len(s), base)
           rest == SubList(s, n + skip, T)
       IN  IF n < 0 \/ n > Len(s) THEN SplitFrom(s, Tail(wh), base, skip)
           ELSE <<SubList(s, 0, n)>> \o
                (IF rest = <<>> THEN <<rest>>
                 ELSE SplitFrom(rest, Tail(wh), base + n + skip, skip))

\* Positions that directly follow are removed with the last.
RECURSIVE Skipped(_, _, _)
Skipped(s, wh, base) ==
  IF s # <<>> /\ wh # <<>> /\ Head(wh) = base THEN Skipped(Tail(s), Tail(wh), base + 1)
  ELSE [s |-> s, wh |-> wh, base |-> base]

\* known: the length that an earlier turn measured, which is kept when that turn made no
\* piece, or Missing.
RECURSIVE PartitionStarFrom(_, _, _, _)
PartitionStarFrom(s, wh, base, known) ==
  IF wh = <<>> THEN <<s>>
  ELSE LET len   == IF Head(wh) < 0 /\ known = Missing THEN Len(s) ELSE known
           index == IF Head(wh) < 0 THEN Head(wh) + len ELSE Head(wh)
           first == SubList(s, 0, index - base)
           next  == Skipped(SubList(s, index - base + 1, T), Tail(wh), index + 1)
       IN  IF first = <<>> THEN PartitionStarFrom(next.s, next.wh, next.base, len)
           ELSE <<first>> \o
                (IF next.s = <<>> THEN <<>>
                 ELSE PartitionStarFrom(next.s, next.wh, next.base, Missing))

\* partition_split_common, partition_star.
Partition(s, wh) == CASE s = <<>> -> <<>> [] wh = <<>> -> <<s>>
                      [] OTHER -> PartitionFrom(s, wh, 0)
Split(s, wh)     == CASE s = <<>> -> <<>> [] wh = <<>> -> <<s>>
                      [] OTHER -> SplitFrom(s, wh, 0, 0)
SplitStar(s, wh) == CASE s = <<>> -> <<>> [] wh = <<>> -> <<s>>
                      [] OTHER -> SplitFrom(s, wh, 0, 1)
PartitionStar(s, wh) ==
  LET next == Skipped(s, wh, 0) IN
  CASE next.s = <<>> -> <<>> [] next.wh = <<>> -> <<next.s>>
    [] OTHER -> PartitionStarFrom(next.s, next.wh, next.base, Missing)

\* reject
Reject(s, wh) == FlattenSeq(SplitStar(s, wh))

\* The pieces of s between the positions in the set at, each piece but the first
\* without its first skip elements.
Divided(s, at, skip) ==
  LET marks == SetToSortSeq(at, <)
      from(i) == IF i = 0 THEN 0 ELSE marks[i] + skip
      to(i)   == IF i = Len(marks) THEN Len(s) ELSE marks[i + 1]
  IN  [i \in 1..(Len(marks) + 1) |-> Cut(s, from(i - 1), to(i - 1))]

NonEmpty(pieces) == SelectSeq(pieces, LAMBDA p : p # <<>>)

-----------------------------------------------------------------------------
(* Comparison and search.                                                  *)

\* How many leading elements agree.
Agreeing(l, r) ==
  Min({n \in 0..Least(Len(l), Len(r)) :
         n = Least(Len(l), Len(r)) \/ l[n + 1] # r[n + 1]})

\* mismatch
Mismatch(l, r) == LET n == Agreeing(l, r) IN
                  IF n < Len(l) \/ n < Len(r) THEN n ELSE Nowhere

\* rmismatch, of two lists; of a list and a vector; of two vectors or strings.
RmismatchLists(l, r) ==
  LET mm == Mismatch(Reverse(l), Reverse(r)) IN IF mm = Nowhere THEN mm ELSE -1 - mm

RmismatchMixed(l, r) ==
  LET n    == Agreeing(Reverse(l), Reverse(r))
      rpos == Len(r) - 1 - n
  IN  IF n < Len(l) \/ rpos >= 0 THEN rpos - Len(r) ELSE Nowhere

RmismatchVecs(l, r) ==
  LET down(n) == l[Len(l) - n] # r[Len(r) - n]
      n       == Min({k \in 0..Least(Len(l), Len(r)) :
                        k = Least(Len(l), Len(r)) \/ down(k)})
      lpos    == Len(l) - 1 - n
  IN  IF lpos >= 0 \/ Len(r) - 1 - n >= 0 THEN lpos - Len(l) ELSE Nowhere

StartsWith(little, big) == Mismatch(little, big) \in {Nowhere, Len(little)}
EndsWith(little, big) ==
  LET mm == RmismatchVecs(little, big) IN mm = Nowhere \/ -mm - 1 = Len(little)

\* search_common: the attempt at pos ends by a match, a difference, or with s used
\* up, which ends the search.
RECURSIVE SearchFrom(_, _, _)
SearchFrom(s, key, pos) ==
  LET rest == SubSeq(s, pos + 1, Len(s))
      n    == Agreeing(rest, key)
      hit  == IF n = Len(key) THEN {pos} ELSE {}
  IN  IF n = Len(rest) THEN hit ELSE hit \cup SearchFrom(s, key, pos + 1)

SearchAll(s, key) ==
  IF s = <<>> THEN (IF key = <<>> THEN {0} ELSE {})
  ELSE IF key = <<>> THEN 0..Len(s) ELSE SearchFrom(s, key, 0)

\* search, and rsearch, which keeps the position of the last match.
SearchLeft(s, key)  == LET found == SearchAll(s, key) IN
                       IF found = {} THEN Nowhere ELSE Min(found)
SearchRight(s, key) == LET found == SearchAll(s, key) IN
                       IF found = {} THEN Nowhere ELSE Max(found)

\* The positions at which key occurs in s.
Occurrences(s, key) == {p \in 0..Len(s) : IsPrefix(key, SubSeq(s, p + 1, Len(s)))}
=============================================================================

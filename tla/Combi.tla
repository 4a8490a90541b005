------------------------------- MODULE Combi -------------------------------
(***************************************************************************)
(* The permutations and combinations of combi.c, as the positions chosen   *)
(* from a sequence of n elements.  Each function keeps a state, which it   *)
(* steps from one result to the next; a list that begins at position p     *)
(* stands for the cons there, and n + 1 for the end.                       *)
(***************************************************************************)
EXTENDS Integers, SequencesExt

CONSTANTS
  Missing,   \* the length is not given
  Nil,       \* no object: there is nothing to iterate
  Error      \* an exception was thrown

Done(v) == v = <<>>       \* the state after the last result
Full(k, x) == <<>> \o [i \in 1..k |-> x]

\* The last place at which a state can grow, or 0.
LastOf(k, Grows(_)) == Max({0} \cup {i \in 1..k : Grows(i)})

-----------------------------------------------------------------------------
(* Without repetition.                                                     *)

\* perm_while_fun counts: what is chosen at a place is the number of the elements still
\* unused that it skips.  Past the end the counters have wrapped around.
PermNext(c, n) ==
  LET p == LastOf(Len(c), LAMBDA i : c[i] + 1 < n - i + 1) IN
  IF p = 0 THEN <<>>
  ELSE [i \in DOMAIN c |-> IF i < p THEN c[i] ELSE IF i = p THEN c[i] + 1 ELSE 0]

RECURSIVE Chosen(_, _)
Chosen(c, unused) ==
  IF c = <<>> THEN <<>>
  ELSE <<unused[c[1] + 1]>> \o Chosen(Tail(c), RemoveAt(unused, c[1] + 1))

RECURSIVE PermsFrom(_, _)
PermsFrom(c, n) ==
  LET next == PermNext(c, n) IN
  IF Done(next) THEN <<>> ELSE <<Chosen(next, [i \in 1..n |-> i])>> \o PermsFrom(next, n)

\* perm_init; the counters begin one before the first.
PermInit(n, given) ==
  LET k == IF given = Missing THEN n ELSE given IN
  CASE k > n -> Nil
    [] k <= n /\ k = 0 -> Error
    [] k <= n /\ k > 0 -> PermsFrom([Full(k, 0) EXCEPT ![k] = -1], n)

Listed(results) == IF results = Nil THEN <<>> ELSE results

PermList(n, k) == IF k = 0 \/ (k = Missing /\ n = 0) THEN << <<>> >> ELSE Listed(PermInit(n, k))
PermVec(n, k)  == IF k = 0 \/ (k = Missing /\ n = 0) THEN << <<>> >> ELSE Listed(PermInit(n, k))
PermSeq(n, k)  == IF k = 0 THEN << <<>> >> ELSE Listed(PermInit(n, k))
Permi(n, k)    == IF k = 0 THEN << <<>> >> ELSE PermInit(n, k)

RestOf(p, n) == IF p > n THEN p ELSE p + 1

\* comb_gen_fun_common, from the last place down.
RECURSIVE CombAt(_, _, _)
CombAt(v, i, n) ==
  LET k  == Len(v)
      re == RestOf(v[i], n)
      r2 == RestOf(RestOf(v[i - 1], n), n)
  IN  CASE i = 0 -> [v EXCEPT ![1] = n + 1]
        [] i > 0 /\ ((i = k /\ re <= n) \/ (i < k /\ re # v[i + 1])) -> [v EXCEPT ![i] = re]
        [] i > 1 /\ ~((i = k /\ re <= n) \/ (i < k /\ re # v[i + 1])) ->
             IF RestOf(v[i - 1], n) # v[i] /\ r2 <= n
             THEN CombAt(SubSeq(v, 1, i - 1) \o [j \in 1..(k - i + 1) |-> r2 + j - 1], i - 1, n)
             ELSE CombAt(v, i - 1, n)
        [] OTHER -> CombAt(v, i - 1, n)
CombNext(v, n) == CombAt(v, Len(v), n)

RECURSIVE CombsFrom(_, _)
CombsFrom(v, n) == IF v[1] > n THEN <<>> ELSE <<v>> \o CombsFrom(CombNext(v, n), n)

\* k_conses
CombInit(n, k) == IF k > n THEN Nil ELSE CombsFrom(SubSeq([i \in 1..n |-> i], 1, k), n)

CombList(n, k) == IF k = 0 THEN << <<>> >> ELSE Listed(CombInit(n, k))
CombSeq(n, k)  == IF k = 0 THEN << <<>> >> ELSE IF k > n THEN <<>> ELSE Listed(CombInit(n, k))
Combi_(n, k)   == IF k = 0 THEN << <<>> >> ELSE IF k > n THEN Nil ELSE CombInit(n, k)

-----------------------------------------------------------------------------
(* With repetition.                                                        *)

RpermNext(v, n) ==
  LET p == LastOf(Len(v), LAMBDA i : v[i] < n \/ i = 1) IN
  [i \in DOMAIN v |-> IF i < p THEN v[i] ELSE IF i = p THEN v[i] + 1 ELSE 1]

RECURSIVE RpermsFrom(_, _)
RpermsFrom(v, n) == IF v[1] > n THEN <<>> ELSE <<v>> \o RpermsFrom(RpermNext(v, n), n)

Rperm(n, k) == IF k = 0 THEN << <<>> >> ELSE RpermsFrom(Full(k, 1), n)

\* rcomb_gen_fun_common; the state is the reverse of the result.
Grown(v, i) == Full(i, v[i] + 1) \o SubSeq(v, i + 1, Len(v))

RECURSIVE RcombAt(_, _, _)
RcombAt(v, i, n) ==
  CASE i > Len(v) -> [v EXCEPT ![1] = n + 1]
    [] i <= Len(v) /\ v[i] < n -> Grown(v, i)
    [] i <= Len(v) /\ v[i] >= n ->
         RcombAt(IF i < Len(v) /\ v[i] # v[i + 1] THEN [v EXCEPT ![i] = RestOf(v[i + 1], n)] ELSE v,
                 i + 1, n)
RcombNext(v, n) == RcombAt(v, 1, n)

RECURSIVE RcombsFrom(_, _)
RcombsFrom(v, n) == IF v[1] > n THEN <<>> ELSE <<Reverse(v)>> \o RcombsFrom(RcombNext(v, n), n)

Rcomb(n, k)  == IF k = 0 THEN << <<>> >> ELSE RcombsFrom(Full(k, 1), n)
Rcombi(n, k) == IF k = 0 THEN << <<>> >> ELSE IF k > n THEN Nil ELSE RcombsFrom(Full(k, 1), n)

-----------------------------------------------------------------------------
(* What the functions promise: the choices, in lexicographic order.        *)

Before(p, q) == \E i \in DOMAIN p : /\ \A j \in 1..(i - 1) : p[j] = q[j]
                                    /\ p[i] < q[i]

Enumerates(results, chosen) ==
  /\ ToSet(results) = chosen
  /\ \A i \in 1..(Len(results) - 1) : Before(results[i], results[i + 1])

Tuples(n, k)     == [1..k -> 1..n]
Distinct(n, k)   == {t \in Tuples(n, k) : \A i, j \in 1..k : i # j => t[i] # t[j]}
Increasing(n, k) == {t \in Tuples(n, k) : \A i \in 1..(k - 1) : t[i] < t[i + 1]}
Rising(n, k)     == {t \in Tuples(n, k) : \A i \in 1..(k - 1) : t[i] <= t[i + 1]}
=============================================================================

----------------------------- MODULE TreeProofs -----------------------------
(***************************************************************************)
(* The search trees of Tree, for any nodes, keys and iterators: the counts *)
(* are exact, the height stays within that of a balanced tree of max_size  *)
(* nodes, a traversal visits its nodes in order, each once, and the tree   *)
(* is a sequence in key order.                                             *)
(*                                                                         *)
(* The invariant says that the links are a forest, that the nodes of the   *)
(* tree repeat nothing and are in key order, that the counts are right and *)
(* the height is within bounds (TreeOK), and that an iterator that has not *)
(* become stale stands between the nodes it has visited and the others,    *)
(* with the ancestors of the last in its path (ItersOK).  Each operation   *)
(* changes the sequence of nodes in one place (Changes), from which the    *)
(* refinement follows.                                                     *)
(***************************************************************************)
EXTENDS TreeShapes, FiniteSetTheorems

-----------------------------------------------------------------------------
(* Where a new node belongs.                                               *)

\* The keys before the new node are at most k, those after it greater; without
\* duplicates none equals k.
Fits(t, k, dup, a, b) ==
  /\ \A i \in 1 .. Len(a) : t[a[i]].key <= k /\ (~dup => t[a[i]].key < k)
  /\ \A i \in 1 .. Len(b) : k < t[b[i]].key

\* The way of tr_insert ends where the new node belongs.
LEMMA InsertFits ==
  ASSUME tn \in Forest, root \in Node, Distinct(InOrder(tn, root)), Ordered(tn, InOrder(tn, root)),
         NEW k \in Key, NEW dup \in BOOLEAN, NEW n, n \notin Within(tn, root),
         NEW ws, Path(tn, Steer(k, dup), root, ws),
         ~(tn[ws[Len(ws)]].key = k /\ ~dup),
         NEW u, Hung(tn, u, ws[Len(ws)], n, GoesLeft(k, ws[Len(ws)])), u[n].key = k
  PROVE  /\ u \in Forest /\ Distinct(InOrder(u, root))
         /\ \E a, b \in Seq(Node) : /\ InOrder(tn, root) = a \o b /\ InOrder(u, root) = Join(a, n, b)
                                    /\ Fits(tn, k, dup, a, b)
<1> DEFINE at == ws[Len(ws)]
           D == Steer(k, dup)
           G(x) == k < tn[x].key
<1>0. \A x \in Node : GoesLeft(k, x) <=> G(x)
  BY DEF GoesLeft
<1>1. /\ Chain(tn, ws) /\ ws[1] = root /\ at \in Node /\ n \in Node /\ at # n /\ u \in Links
      /\ Len(ws) \in Nat /\ 0 < Len(ws) /\ root \in Ref /\ tn \in Links
      /\ \A i \in 1 .. Len(ws) - 1 : ws[i + 1] = D[ws[i]]
      /\ \A i \in 1 .. Len(ws) : ws[i] \in Node
  BY ChainType DEF Path, Hung, Ref, Forest, Chain
<1>b. \A i \in 1 .. Len(ws) : tn[ws[i]].key \in Key /\ tn[ws[i]].key \in Nat /\ k \in Nat
  <2> TAKE i \in 1 .. Len(ws)
  <2>1. ws[i] \in Within(tn, root)
    <3>1. i \in 1 .. Len(ws) /\ 1 \in 1 .. i
      BY <1>1
    <3> QED BY <1>1, <3>1, ChainWithin
  <2>2. PICK j \in 1 .. Len(InOrder(tn, root)) : InOrder(tn, root)[j] = ws[i]
    <3>1. InOrder(tn, root) \in Seq(Node)
      BY <1>1, InOrderEq
    <3> QED BY <2>1, <3>1 DEF Within, Range
  <2> QED BY <2>2, KeyAssumption DEF Ordered
<1>c. GoesLeft(k, at) \in BOOLEAN /\ Hung(tn, u, at, n, GoesLeft(k, at))
  <2>1. Len(ws) \in 1 .. Len(ws)
    BY <1>1
  <2>2. tn[at].key \in Nat /\ k \in Nat
    BY <1>b, <2>1
  <2> QED BY <2>2 DEF GoesLeft
<1>2. u \in Forest
  <2> HIDE DEF at
  <2> QED BY <1>c, HungForest
<1>3. Grown(tn, u, root, n)
  <2>1. Grown(tn, u, ws[1], n)
    <3>1. Distinct(InOrder(tn, ws[1])) /\ n \notin Within(tn, ws[1]) /\ Chain(tn, ws)
      BY <1>1
    <3>2. \A toLeft \in BOOLEAN : Hung(tn, u, ws[Len(ws)], n, toLeft) => Grown(tn, u, ws[1], n)
      BY <3>1, HungGrown
    <3> QED BY <1>c, <3>2
  <2> QED BY <1>1, <2>1
<1>4. Distinct(InOrder(u, root))
  BY <1>3 DEF Grown
<1>5. PICK a, b \in Seq(Node) : InOrder(tn, root) = a \o b /\ InOrder(u, root) = Join(a, n, b)
  BY <1>3 DEF Grown
<1> DEFINE e  == <<n>>
           zs == ws \o e
<1>6. e \in Seq(Node) /\ Len(e) = 1 /\ e[1] = n /\ Chain(u, e)
  <2>1. e \in Seq(Node) /\ Len(e) = 1 /\ e[1] = n
    BY <1>1
  <2> HIDE DEF e
  <2> QED BY <2>1 DEF Chain
<1> HIDE DEF e
<1>7. \A i \in 1 .. Len(ws) - 1 : ws[i] \in Node /\ ws[i] # at /\ ws[i] # n
      /\ u[ws[i]] = tn[ws[i]]
  <2> TAKE i \in 1 .. Len(ws) - 1
  <2>1. ws[i] \in Node /\ ws[i] \notin Within(tn, at)
    BY <1>1, ChainOutside
  <2>2. at \in Within(tn, at)
    BY <1>1, WithinEq
  <2>3. i \in 1 .. Len(ws) /\ 1 \in 1 .. i
    BY <1>1
  <2>4. ws[i] \in Within(tn, root)
    BY <1>1, <2>3, ChainWithin
  <2>5. ws[i] # n /\ ws[i] # at
    BY <2>1, <2>2, <2>4
  <2> QED BY <2>1, <2>5 DEF Hung
<1>8. Chain(u, ws)
  BY <1>1, <1>7 DEF Chain
<1>9. n \in {u[at].left, u[at].right}
  BY DEF Hung
<1>10. Continued(u, ws, e)
  BY <1>6, <1>8, <1>9, ChainConcat
<1>11. /\ Chain(u, zs) /\ Len(zs) = Len(ws) + 1 /\ zs[1] = root /\ zs[Len(zs)] = n
       /\ \A i \in 1 .. Len(ws) : zs[i] = ws[i]
       /\ zs[Len(ws) + 1] = n
  BY <1>1, <1>6, <1>10 DEF Continued
<1> HIDE DEF zs
<1>12. PICK pre, post \in Seq(Node) :
         /\ InOrder(u, root) = Wrap(pre, InOrder(u, n), post)
         /\ NextTo(u, zs, 1, pre, post)
  BY <1>2, <1>4, <1>11, ChainSplit
<1>13. InOrder(u, n) = Join(<<>>, n, <<>>)
  <2>1. u[n].left = Nil /\ u[n].right = Nil
    BY DEF Hung
  <2>2. InOrder(u, n) = Join(InOrder(u, u[n].left), n, InOrder(u, u[n].right)) /\ InOrder(u, Nil) = <<>>
    BY <1>1, <1>2, InOrderJoin, InOrderEq
  <2> QED BY <2>1, <2>2
<1>14. a = pre /\ b = post
  <2> DEFINE z == <<>>
  <2>1. z \in Seq(Node) /\ pre \o z = pre /\ z \o post = post
    BY ConcatEmptySeq
  <2> HIDE DEF z
  <2>2. Wraps(Node, pre, z, n, z, post)
    BY <1>1, <2>1, WrapsJoin
  <2>3. InOrder(u, root) = Join(pre, n, post)
    BY <1>12, <1>13, <2>1, <2>2 DEF Wraps, z
  <2>4. n \in Node /\ Distinct(Join(a, n, b)) /\ Join(a, n, b) = Join(pre, n, post)
    BY <1>1, <1>4, <1>5, <2>3
  <2> HIDE DEF at
  <2> QED BY <2>4, SplitUnique
<1> HIDE DEF at, D, G
\* what a step of the way says
<1>15. \A i \in 1 .. Len(zs) - 1 :
         /\ i \in 1 .. Len(ws) /\ zs[i] = ws[i]
         /\ Right(u, zs, i) <=> ~G(ws[i])
         /\ ~dup => tn[ws[i]].key # k
  <2> TAKE i \in 1 .. Len(zs) - 1
  <2>1. i \in 1 .. Len(ws) /\ zs[i] = ws[i]
    BY <1>1, <1>11
  <2>2. Right(u, zs, i) <=> zs[i + 1] # u[zs[i]].left
    <3>1. Distinct(InOrder(u, zs[1]))
      BY <1>4, <1>11
    <3> QED BY <1>2, <1>11, <3>1, RightOrLeft, ZenonT(30)
  <2>3. Right(u, zs, i) <=> zs[i + 1] = u[zs[i]].right
    BY DEF Right
  <2>4. CASE i = Len(ws)
    <3>1. zs[i + 1] = n /\ ws[i] = at
      BY <1>11, <2>4 DEF at
    <3>2. /\ G(at) => u[at].left = n
          /\ ~G(at) => u[at].right = n
      BY DEF Hung, at, G, GoesLeft
    <3>3. ~dup => tn[at].key # k
      BY DEF at
    <3> QED BY <2>1, <2>2, <2>3, <3>1, <3>2, <3>3
  <2>5. CASE i # Len(ws)
    <3>1. i \in 1 .. Len(ws) - 1 /\ i + 1 \in 1 .. Len(ws)
      BY <1>1, <2>1, <2>5
    <3>2. zs[i + 1] = D[ws[i]] /\ zs[i + 1] \in Node /\ u[ws[i]] = tn[ws[i]]
      BY <1>1, <1>7, <1>11, <3>1
    <3>3. D[ws[i]] = IF G(ws[i]) THEN tn[ws[i]].left
                     ELSE IF k = tn[ws[i]].key /\ ~dup THEN Nil ELSE tn[ws[i]].right
      BY <1>0, <1>1, <2>1 DEF D, Steer
    <3>4. D[ws[i]] # Nil
      BY <3>2, NilAssumption
    <3>5. G(ws[i]) => ~Right(u, zs, i)
      BY <2>1, <2>2, <3>2, <3>3
    <3>6. ~G(ws[i]) => Right(u, zs, i) /\ (~dup => tn[ws[i]].key # k)
      BY <2>1, <2>3, <3>2, <3>3, <3>4
    <3>7. G(ws[i]) => tn[ws[i]].key # k
      <4>1. k \in Nat
        BY KeyAssumption
      <4> QED BY <4>1 DEF G
    <3> QED BY <2>1, <3>5, <3>6, <3>7
  <2> QED BY <2>4, <2>5
<1>17. /\ \A i \in 1 .. Len(a) : tn[a[i]].key \in Key /\ tn[a[i]].key <= tn[a[Len(a)]].key
       /\ \A i \in 1 .. Len(b) : tn[b[i]].key \in Key /\ tn[b[1]].key <= tn[b[i]].key
  BY <1>1, <1>5, OrderedEnds
<1> DEFINE on == 1 .. Len(zs) - 1
<1>18. on \subseteq Nat /\ Len(zs) - 1 \in Nat /\ \A j \in on : j <= Len(zs) - 1
  BY <1>1, <1>11
<1>19. \A i \in 1 .. Len(a) : tn[a[i]].key <= k /\ (~dup => tn[a[i]].key < k)
  <2> TAKE i \in 1 .. Len(a)
  <2> DEFINE J == {j \in on : Right(u, zs, j)}
  <2>1. J # {}
    <3> SUFFICES ASSUME J = {} PROVE FALSE
      OBVIOUS
    <3>1. \A j \in on : ~Right(u, zs, j)
      OBVIOUS
    <3>2. pre = <<>>
      BY <1>12, <3>1 DEF NextTo
    <3> QED BY <1>14, <3>2
  <2> DEFINE m == Max(J)
  <2>2. m \in J /\ \A j \in J : j <= m
    <3>1. J \subseteq Nat /\ \A j \in J : j <= Len(zs) - 1
      BY <1>18
    <3> HIDE DEF J
    <3> QED BY <1>18, <2>1, <3>1, MaxOfSet
  <2> HIDE DEF m, J
  <2>3. m \in on /\ Right(u, zs, m) /\ \A j \in on : j > m => ~Right(u, zs, j)
    <3>1. m \in on /\ Right(u, zs, m)
      BY <2>2 DEF J
    <3>2. ASSUME NEW j \in on, j > m PROVE ~Right(u, zs, j)
      <4> SUFFICES ASSUME Right(u, zs, j) PROVE FALSE
        OBVIOUS
      <4>1. j <= m
        BY <2>2 DEF J
      <4> QED BY <1>18, <3>1, <3>2, <4>1
    <3> QED BY <3>1, <3>2
  <2>4. pre[Len(pre)] = zs[m]
    BY <1>12, <2>3 DEF NextTo
  <2>5. a[Len(a)] = ws[m] /\ m \in 1 .. Len(ws) /\ ~G(ws[m]) /\ (~dup => tn[ws[m]].key # k)
    BY <1>14, <1>15, <2>3, <2>4
  <2>6. tn[a[i]].key \in Nat /\ tn[a[i]].key <= tn[ws[m]].key
    BY <1>17, <2>5, KeyAssumption
  <2>7. tn[ws[m]].key \in Nat /\ ~(k < tn[ws[m]].key)
    BY <1>b, <2>5, SMTT(30) DEF G
  <2> DEFINE x == tn[a[i]].key
             y == tn[ws[m]].key
  <2>8. x \in Nat /\ y \in Nat /\ x <= y /\ ~(k < y) /\ (~dup => y # k) /\ k \in Nat
    BY <1>b, <2>5, <2>6, <2>7, KeyAssumption
  <2> HIDE DEF x, y
  <2>9. x <= k /\ (~dup => x < k)
    BY <2>8
  <2> QED BY <2>9 DEF x
<1>20. \A i \in 1 .. Len(b) : k < tn[b[i]].key
  <2> TAKE i \in 1 .. Len(b)
  <2> DEFINE J == {j \in on : ~Right(u, zs, j)}
  <2>1. J # {}
    <3> SUFFICES ASSUME J = {} PROVE FALSE
      OBVIOUS
    <3>1. \A j \in on : Right(u, zs, j)
      OBVIOUS
    <3>2. post = <<>>
      BY <1>12, <3>1 DEF NextTo
    <3> QED BY <1>14, <3>2
  <2> DEFINE m == Max(J)
  <2>2. m \in J /\ \A j \in J : j <= m
    <3>1. J \subseteq Nat /\ \A j \in J : j <= Len(zs) - 1
      BY <1>18
    <3> HIDE DEF J
    <3> QED BY <1>18, <2>1, <3>1, MaxOfSet
  <2> HIDE DEF m, J
  <2>3. m \in on /\ ~Right(u, zs, m) /\ \A j \in on : j > m => Right(u, zs, j)
    <3>1. m \in on /\ ~Right(u, zs, m)
      BY <2>2 DEF J
    <3>2. ASSUME NEW j \in on, j > m PROVE Right(u, zs, j)
      <4> SUFFICES ASSUME ~Right(u, zs, j) PROVE FALSE
        OBVIOUS
      <4>1. j <= m
        BY <2>2 DEF J
      <4> QED BY <1>18, <3>1, <3>2, <4>1
    <3> QED BY <3>1, <3>2
  <2>4. post[1] = zs[m]
    BY <1>12, <2>3 DEF NextTo
  <2>5. b[1] = ws[m] /\ m \in 1 .. Len(ws) /\ G(ws[m])
    BY <1>14, <1>15, <2>3, <2>4
  <2>6. tn[b[i]].key \in Nat /\ tn[ws[m]].key <= tn[b[i]].key
    BY <1>17, <2>5, KeyAssumption
  <2> QED BY <1>b, <2>5, <2>6 DEF G
<1>21. Fits(tn, k, dup, a, b)
  BY <1>19, <1>20 DEF Fits
<1> QED BY <1>2, <1>4, <1>5, <1>21

-----------------------------------------------------------------------------
(* Repairing a tree that a leaf has made too high.                         *)

\* The beginning of a way is a way.
LEMMA Prefix ==
  ASSUME NEW t, NEW ws, Chain(t, ws), NEW i \in 1 .. Len(ws)
  PROVE  LET ys == SubSeq(ws, 1, i)
         IN  /\ Chain(t, ys) /\ Len(ys) = i /\ ys[1] = ws[1] /\ ys[Len(ys)] = ws[i]
             /\ Above(ys) = IF i = 1 THEN Nil ELSE ws[i - 1]
<1> DEFINE ys == SubSeq(ws, 1, i)
<1>1. ws \in Seq(Node) /\ Len(ws) \in Nat /\ i \in Nat /\ 1 <= i /\ i <= Len(ws)
      /\ \A j \in 1 .. Len(ws) - 1 : ws[j + 1] \in {t[ws[j]].left, t[ws[j]].right}
  BY DEF Chain
<1>2. ys \in Seq(Node) /\ Len(ys) = i /\ \A j \in 1 .. i : ys[j] = ws[j]
  BY <1>1
<1> HIDE DEF ys
<1>3. \A j \in 1 .. i - 1 : ys[j + 1] \in {t[ys[j]].left, t[ys[j]].right}
  <2> TAKE j \in 1 .. i - 1
  <2>1. j \in 1 .. i /\ j + 1 \in 1 .. i /\ j \in 1 .. Len(ws) - 1
    BY <1>1
  <2> QED BY <1>1, <1>2, <2>1
<1>4. Chain(t, ys)
  BY <1>1, <1>2, <1>3 DEF Chain
<1>5. ys[1] = ws[1] /\ ys[Len(ys)] = ws[i]
  BY <1>1, <1>2
<1>6. Above(ys) = IF i = 1 THEN Nil ELSE ws[i - 1]
  BY <1>1, <1>2 DEF Above
<1> QED BY <1>2, <1>4, <1>5, <1>6 DEF ys

\* zs is the path ws and the leaf below its end.
Extended(u, ws, n, zs) ==
  /\ Chain(u, zs) /\ Len(zs) = Len(ws) + 1 /\ zs[Len(ws) + 1] = n
  /\ \A i \in 1 .. Len(ws) : zs[i] = ws[i]

\* The way to a leaf that has been hung.
LEMMA HungChain ==
  ASSUME NEW t \in Forest, NEW ws, Chain(t, ws), NEW u, NEW n, NEW toLeft \in BOOLEAN,
         Hung(t, u, ws[Len(ws)], n, toLeft), n \notin Within(t, ws[1])
  PROVE  Extended(u, ws, n, Append(ws, n))
<1> DEFINE at == ws[Len(ws)]
<1>1. /\ Len(ws) \in Nat /\ 0 < Len(ws) /\ at \in Node /\ n \in Node /\ ws \in Seq(Node)
      /\ \A i \in 1 .. Len(ws) : ws[i] \in Node
      /\ \A i \in 1 .. Len(ws) - 1 : ws[i + 1] \in {t[ws[i]].left, t[ws[i]].right}
  BY ChainType DEF Hung, Chain
<1>2. \A i \in 1 .. Len(ws) - 1 : u[ws[i]] = t[ws[i]]
  <2> TAKE i \in 1 .. Len(ws) - 1
  <2>1. ws[i] \in Node /\ ws[i] \notin Within(t, at)
    BY ChainOutside
  <2>2. at \in Within(t, at)
    BY <1>1, WithinEq
  <2>3. i \in 1 .. Len(ws) /\ 1 \in 1 .. i
    BY <1>1
  <2>4. ws[i] \in Within(t, ws[1])
    BY <1>1, <2>3, ChainWithin
  <2>5. ws[i] # n /\ ws[i] # at
    BY <2>1, <2>2, <2>4
  <2> QED BY <2>1, <2>5 DEF Hung
<1>3. n \in {u[at].left, u[at].right}
  BY DEF Hung
<1> DEFINE zs == Append(ws, n)
<1>4. /\ zs \in Seq(Node) /\ Len(zs) = Len(ws) + 1 /\ zs[Len(ws) + 1] = n
      /\ \A i \in 1 .. Len(ws) : zs[i] = ws[i]
  BY <1>1
<1> HIDE DEF zs
<1>5. \A i \in 1 .. Len(zs) - 1 : zs[i + 1] \in {u[zs[i]].left, u[zs[i]].right}
  <2> TAKE i \in 1 .. Len(zs) - 1
  <2>1. CASE i = Len(ws)
    BY <1>1, <1>3, <1>4, <2>1
  <2>2. CASE i # Len(ws)
    <3>1. i \in 1 .. Len(ws) - 1 /\ i \in 1 .. Len(ws) /\ i + 1 \in 1 .. Len(ws)
      BY <1>1, <1>4, <2>2
    <3> QED BY <1>1, <1>2, <1>4, <3>1
  <2> QED BY <2>1, <2>2
<1>6. Extended(u, ws, n, zs)
  BY <1>1, <1>4, <1>5 DEF Extended, Chain
<1> QED BY <1>6 DEF zs

\* The subtrees on the way grow by the leaf.
LEMMA HungSizes ==
  ASSUME NEW t \in Forest, NEW ws, Chain(t, ws), NEW u, NEW n, NEW toLeft \in BOOLEAN,
         Hung(t, u, ws[Len(ws)], n, toLeft), n \notin Within(t, ws[1]), Distinct(InOrder(t, ws[1])),
         NEW i \in 1 .. Len(ws)
  PROVE  Grown(t, u, ws[i], n)
<1> DEFINE at == ws[Len(ws)]
<1>1. /\ Len(ws) \in Nat /\ i \in 1 .. Len(ws) /\ Len(ws) \in 1 .. Len(ws) /\ i \in 1 .. Len(ws)
      /\ 1 \in 1 .. i /\ ws[1] \in Node /\ ws[i] \in Node
  BY ChainType
<1>2. at \in Within(t, ws[i]) /\ ws[i] \in Within(t, ws[1]) /\ Within(t, ws[i]) \subseteq Within(t, ws[1])
  BY <1>1, ChainWithin
<1>3. Distinct(InOrder(t, ws[i]))
  BY <1>1, <1>2, DistinctWithin DEF Ref
<1>4. PICK vs : Chain(t, vs) /\ vs[1] = ws[i] /\ vs[Len(vs)] = at
  BY <1>1, <1>2, ChainTo DEF Ref
<1>5. Hung(t, u, vs[Len(vs)], n, toLeft) /\ Distinct(InOrder(t, vs[1])) /\ n \notin Within(t, vs[1])
  BY <1>2, <1>3, <1>4
<1>6. Grown(t, u, vs[1], n)
  BY <1>4, <1>5, HungGrown
<1> QED BY <1>4, <1>6

\* A child is balanced only when it has exactly half of the nodes.
LEMMA BalancedHalves ==
  ASSUME NEW c \in Nat, NEW p \in Nat
  PROVE  Unbalanced(c, p) <=> p # 2 * c
  BY DEF Unbalanced

\* The sizes of a way without unbalanced nodes below place i are powers of two.
LEMMA ExactSizes ==
  ASSUME NEW d \in Nat, NEW c \in [1 .. d + 1 -> Nat], c[d + 1] = 1, NEW i \in 0 .. d,
         \A j \in 1 .. d : i < j => c[j] = 2 * c[j + 1]
  PROVE  c[i + 1] = Pow2[d - i]
<1> DEFINE S == {j \in 1 .. d + 1 : i < j => c[j] = Pow2[d + 1 - j]}
<1>1. d + 1 \in S
  <2>1. d + 1 \in 1 .. d + 1 /\ d + 1 - (d + 1) = 0
    OBVIOUS
  <2>2. c[d + 1] = Pow2[d + 1 - (d + 1)]
    BY <2>1, Pow2Eq
  <2> QED BY <2>1, <2>2
<1>2. \A j \in 1 .. (d + 1) - 1 : j + 1 \in S => j \in S
  <2> SUFFICES ASSUME NEW j \in 1 .. (d + 1) - 1, j + 1 \in S, i < j PROVE c[j] = Pow2[d + 1 - j]
    OBVIOUS
  <2>1. c[j] = 2 * c[j + 1] /\ c[j + 1] = Pow2[d + 1 - (j + 1)]
    OBVIOUS
  <2>2. d - j \in Nat /\ d + 1 - (j + 1) = d - j /\ d + 1 - j = (d - j) + 1
    OBVIOUS
  <2> QED BY <2>1, <2>2, Pow2Eq
<1>3. \A j \in 1 .. d + 1 : j \in S
  <2> HIDE DEF S
  <2> QED BY <1>1, <1>2, DownFrom
<1>4. i + 1 \in S /\ d + 1 - (i + 1) = d - i
  BY <1>3
<1> QED BY <1>4

\* The repaired tree new has the nodes of u in their order, and is not higher than the
\* tree was before the leaf came, when that was as high as the way is long.
Mends(u, new, d, h) ==
  /\ new.tn \in Forest /\ new.root \in Ref
  /\ \A w \in Node : new.tn[w].key = u[w].key
  /\ InOrder(new.tn, new.root) = InOrder(u, root)
  /\ Height(new.tn, new.root) <= Height(u, root)
  /\ h = d => Height(new.tn, new.root) <= d

\* The unbalanced places of a way.
Goats(t, way) ==
  {i \in 1 .. Len(way) - 1 : Unbalanced(Count(t, way[i + 1]), Count(t, way[i]))}

\* When a leaf comes too deep, some node on its way is not balanced, and rebuilding the
\* lowest of these undoes the growth.
LEMMA RepairMends ==
  ASSUME tn \in Forest, root \in Node, Distinct(InOrder(tn, root)),
         NEW ws, Chain(tn, ws), ws[1] = root, NEW n, NEW toLeft \in BOOLEAN, NEW u,
         Hung(tn, u, ws[Len(ws)], n, toLeft), n \notin Within(tn, root),
         1 + Len(InOrder(tn, root)) < Pow2[Len(ws)]
  PROVE  Mends(u, Repaired(u, Append(ws, n)), Len(ws), Height(tn, root))
<1> DEFINE zs == Append(ws, n)
           d  == Len(ws)
           C(i) == Count(u, zs[i])
           c  == [i \in 1 .. d + 1 |-> C(i)]
           goats == Goats(u, zs)
           i  == Max(goats)
           x  == zs[i]
           p  == IF i = 1 THEN Nil ELSE zs[i - 1]
           new == Rebuilt(u, root, x, p, Count(u, x))
<1>0. Repaired(u, zs) = IF goats = {} THEN [tn |-> u, root |-> root] ELSE new
  BY DEF Repaired, Goats
<1>1. /\ u \in Forest /\ Extended(u, ws, n, zs) /\ root \in Ref /\ Distinct(InOrder(u, root))
      /\ Len(InOrder(u, root)) = 1 + Len(InOrder(tn, root))
      /\ d \in Nat /\ 0 < d /\ n \in Node /\ u \in Links
  <2>1. Extended(u, ws, n, Append(ws, n))
    BY HungChain
  <2>2. Grown(tn, u, ws[1], n)
    BY HungGrown
  <2>3. u \in Forest
    BY HungForest
  <2> QED BY <2>1, <2>2, <2>3, ChainType DEF Grown, Ref, Hung, Chain
<1> HIDE DEF zs
<1>2. /\ Chain(u, zs) /\ Len(zs) = d + 1 /\ zs[d + 1] = n
      /\ \A j \in 1 .. d : zs[j] = ws[j]
      /\ \A j \in 1 .. d + 1 : zs[j] \in Node
      /\ zs[1] = root
  <2>1. Chain(u, zs) /\ Len(zs) = d + 1 /\ zs[d + 1] = n /\ \A j \in 1 .. d : zs[j] = ws[j]
    BY <1>1 DEF Extended
  <2>2. \A j \in 1 .. Len(zs) : zs[j] \in Node
    BY <2>1, ChainType
  <2> QED BY <1>1, <2>1, <2>2
<1>3. \A j \in 1 .. d + 1 : C(j) \in Nat /\ C(j) = Len(InOrder(u, zs[j]))
  <2> TAKE j \in 1 .. d + 1
  <2>1. zs[j] \in Ref
    BY <1>2 DEF Ref
  <2> QED BY <1>1, <2>1, CountIs, CountEq
<1>4. c \in [1 .. d + 1 -> Nat] /\ \A j \in 1 .. d + 1 : c[j] = C(j)
  <2> HIDE DEF C
  <2> QED BY <1>3
<1>5. c[d + 1] = 1
  <2>1. u[n].left = Nil /\ u[n].right = Nil
    BY DEF Hung
  <2>2. Count(u, n) = 1 + Count(u, u[n].left) + Count(u, u[n].right) /\ Count(u, Nil) = 0
    BY <1>1, CountEq
  <2>3. Count(u, n) = 1
    BY <2>1, <2>2
  <2>4. d + 1 \in 1 .. d + 1
    BY <1>1
  <2> QED BY <1>2, <1>4, <2>3, <2>4
<1>6. c[1] = 1 + Len(InOrder(tn, root)) /\ c[1] < Pow2[d]
  <2>1. 1 \in 1 .. d + 1
    BY <1>1
  <2> QED BY <1>1, <1>2, <1>3, <1>4, <2>1
<1>7. \A j \in 1 .. d : c[j] # 2 * c[j + 1] <=> j \in goats
  <2> TAKE j \in 1 .. d
  <2>1. j \in 1 .. d + 1 /\ j + 1 \in 1 .. d + 1 /\ Len(zs) - 1 = d
    BY <1>1, <1>2
  <2>2. c[j] = C(j) /\ c[j + 1] = C(j + 1) /\ C(j) \in Nat /\ C(j + 1) \in Nat
    BY <1>3, <1>4, <2>1
  <2>3. j \in goats <=> Unbalanced(C(j + 1), C(j))
    BY <2>1 DEF Goats
  <2> HIDE DEF C, c, goats
  <2> QED BY <2>2, <2>3, BalancedHalves
<1> HIDE DEF c, C
<1>8. goats # {} /\ goats \subseteq 1 .. d
  <2>1. goats \subseteq 1 .. d
    BY <1>1, <1>2 DEF Goats
  <2>2. ASSUME goats = {} PROVE FALSE
    <3>1. 0 \in 0 .. d /\ d - 0 = d /\ \A j \in 1 .. d : 0 < j => c[j] = 2 * c[j + 1]
      BY <1>1, <1>7, <2>2
    <3> DEFINE z == 0
    <3>2. z \in 0 .. d /\ (\A j \in 1 .. d : z < j => c[j] = 2 * c[j + 1]) /\ d - z = d /\ z + 1 = 1
      BY <3>1
    <3> HIDE DEF z, d, goats
    <3>3. c[z + 1] = Pow2[d - z]
      BY <1>1, <1>4, <1>5, <3>2, ExactSizes
    <3>4. Pow2[d] \in Nat
      BY <1>1, Pow2Eq
    <3> QED BY <1>6, <3>2, <3>3, <3>4
  <2> QED BY <2>1, <2>2
<1>9. i \in goats /\ i \in 1 .. d /\ \A j \in goats : j <= i
  <2>1. goats \subseteq Nat /\ \A j \in goats : j <= d
    BY <1>8
  <2> HIDE DEF goats
  <2>2. i \in goats /\ \A j \in goats : j <= i
    BY <1>1, <1>8, <2>1, MaxOfSet
  <2> QED BY <1>8, <2>2
<1> HIDE DEF goats, i
<1>10. c[i + 1] = Pow2[d - i] /\ c[i] # 2 * c[i + 1]
  <2>1. \A j \in 1 .. d : i < j => c[j] = 2 * c[j + 1]
    <3> TAKE j \in 1 .. d
    <3> HAVE i < j
    <3>1. j \notin goats
      <4> SUFFICES ASSUME j \in goats PROVE FALSE
        OBVIOUS
      <4>1. j <= i
        BY <1>9
      <4> QED BY <1>9, <4>1
    <3> QED BY <1>7, <3>1
  <2>2. i \in 0 .. d
    BY <1>9
  <2>3. c[i + 1] = Pow2[d - i]
    BY <1>1, <1>4, <1>5, <2>1, <2>2, ExactSizes
  <2> QED BY <1>7, <1>9, <2>3
<1>11. i \in 1 .. d + 1 /\ i \in 1 .. Len(zs) /\ x \in Node /\ x = ws[i] /\ i \in Nat /\ x \in Ref
       /\ i \in 1 .. Len(ws)
  BY <1>1, <1>2, <1>9 DEF Ref
<1> DEFINE ys == SubSeq(zs, 1, i)
<1>12. Chain(u, ys) /\ Len(ys) = i /\ ys[1] = root /\ ys[Len(ys)] = x /\ Above(ys) = p
  BY <1>2, <1>11, Prefix
<1> HIDE DEF ys, p
<1>13. Leads(u, root, ys, x)
  BY <1>1, <1>12 DEF Leads
<1>14. Count(u, x) = Len(InOrder(u, x)) /\ c[i] = Count(u, x)
  BY <1>3, <1>4, <1>11 DEF C
<1>15. Remade(u, root, new, ys, x)
  <2>1. Remade(u, root, Rebuilt(u, root, x, Above(ys), Len(InOrder(u, x))), ys, x)
    <3> HIDE DEF x
    <3> QED BY <1>1, <1>13, RebuiltRemade
  <2> QED BY <1>12, <1>14, <2>1
<1> HIDE DEF new
<1>16. PICK e \in Ref : /\ Replaced(u, new.tn, root, x, e)
                        /\ new.root = IF Len(ys) = 1 THEN e ELSE root
                        /\ Pow2[Height(new.tn, e) - 1] <= Len(InOrder(u, x))
  BY <1>15 DEF Remade
<1>17. Height(tn, root) = d => Height(new.tn, new.root) <= d
  <2> SUFFICES ASSUME Height(tn, root) = d PROVE Height(new.tn, new.root) <= d
    OBVIOUS
  <2> DEFINE vs == SubSeq(ws, 1, i)
             h == Height(new.tn, e)
             l == Len(InOrder(tn, x))
  <2>1. Chain(tn, vs) /\ Len(vs) = i /\ vs[1] = root /\ vs[Len(vs)] = x
    BY <1>11, Prefix
  <2>2. Grown(tn, u, x, n) /\ Grown(tn, u, root, n)
    <3>1. Grown(tn, u, ws[i], n)
      BY <1>11, HungSizes
    <3>2. Grown(tn, u, ws[1], n)
      BY HungGrown
    <3> QED BY <1>11, <3>1, <3>2
  <2>3. Replaced(tn, new.tn, root, x, e)
    <3> SUFFICES ASSUME NEW w \in Within(tn, root) \ Within(tn, x)
                 PROVE  new.tn[w].left = Put(tn[w].left, x, e) /\ new.tn[w].right = Put(tn[w].right, x, e)
      BY DEF Replaced
    <3>1. w # n /\ w \in Within(u, root) /\ w \notin Within(u, x) /\ w \in Node
      BY <1>1, <2>2, WithinEq DEF Grown
    <3>2. ws[Len(ws)] \in Within(tn, x)
      <4>1. Len(ws) \in 1 .. Len(ws) /\ i \in 1 .. Len(ws)
        BY <1>9, <1>1
      <4>2. i \in 1 .. Len(ws) /\ i \in 1 .. Len(ws)
        BY <1>9
      <4> QED BY <1>9, <1>11, <4>1, ChainWithin
    <3>3. u[w] = tn[w]
      BY <3>1, <3>2 DEF Hung
    <3>4. new.tn[w].left = Put(u[w].left, x, e) /\ new.tn[w].right = Put(u[w].right, x, e)
      BY <1>16, <3>1 DEF Replaced
    <3> QED BY <3>3, <3>4
  <2>4. Height(tn, x) + (i - 1) <= d /\ Height(tn, x) \in Nat
    <3>1. Height(tn, ws[i]) + (i - 1) <= Height(tn, ws[1])
      BY <1>11, ChainHeight
    <3> QED BY <1>11, <3>1, HeightEq
  <2>5. l + 1 <= Pow2[Height(tn, x)] /\ l \in Nat /\ Len(InOrder(u, x)) = 1 + l
    <3>1. InOrder(tn, x) \in Seq(Node)
      BY <1>11, InOrderEq
    <3> QED BY <1>11, <2>2, <3>1, HeightBound, SMTT(30) DEF Grown
  <2>6. d - i \in Nat /\ d - i + 1 \in Nat /\ Height(tn, x) <= d - i + 1 /\ 0 < d - i + 1
    BY <1>1, <1>9, <2>4
  <2>7. /\ Pow2[Height(tn, x)] <= Pow2[d - i + 1] /\ Pow2[d - i + 1] = 2 * Pow2[d - i]
        /\ Pow2[d - i + 1] \in Nat /\ Pow2[Height(tn, x)] \in Nat /\ Pow2[d - i] \in Nat
    BY <2>4, <2>6, Pow2Grows, Pow2Eq
  <2>8. Len(InOrder(u, x)) < Pow2[d - i + 1] /\ Len(InOrder(u, x)) \in Nat
    BY <1>10, <1>14, <2>5, <2>7
  <2>9. h \in Nat
    BY <1>15, <1>16, HeightEq DEF Remade
  <2>10. h <= d - i + 1
    <3> SUFFICES ASSUME ~(h <= d - i + 1) PROVE FALSE
      OBVIOUS
    <3> HIDE DEF h
    <3>1. h - 1 \in Nat /\ d - i + 1 <= h - 1
      BY <2>6, <2>9
    <3>2. Pow2[d - i + 1] <= Pow2[h - 1] /\ Pow2[h - 1] \in Nat
      BY <2>6, <3>1, Pow2Grows, Pow2Eq
    <3>3. Pow2[h - 1] <= Len(InOrder(u, x))
      BY <1>16 DEF h
    <3> QED BY <2>7, <2>8, <3>2, <3>3
  <2> DEFINE top == IF Len(vs) = 1 THEN e ELSE root
  <2>11. new.root = top
    BY <1>12, <1>16, <2>1
  <2>12. new.tn \in Forest
    BY <1>15 DEF Remade
  <2>13. \A M \in Nat : Height(tn, root) <= M /\ Len(vs) - 1 + h <= M => Height(new.tn, new.root) <= M
    <3> DEFINE v == new.tn
    <3>1. v \in Forest /\ Replaced(tn, v, vs[1], vs[Len(vs)], e) /\ Distinct(InOrder(tn, vs[1]))
      BY <2>1, <2>3, <2>12
    <3> HIDE DEF v, vs
    <3>2. \E pre, post \in Seq(Node) :
            LET y == vs[Len(vs)]
                tp == IF Len(vs) = 1 THEN e ELSE vs[1]
            IN  /\ InOrder(tn, vs[1]) = Wrap(pre, InOrder(tn, y), post)
                /\ InOrder(v, tp) = Wrap(pre, InOrder(v, e), post)
                /\ NextTo(tn, vs, 1, pre, post)
                /\ \A M \in Nat : /\ Height(tn, vs[1]) <= M
                                  /\ Len(vs) - 1 + Height(v, e) <= M
                                  => Height(v, tp) <= M
      BY <2>1, <3>1, Around
    <3> QED BY <2>1, <2>11, <3>2 DEF v
  <2>14. Len(vs) - 1 + h <= d
    <3> HIDE DEF h, vs
    <3> QED BY <1>1, <1>9, <2>1, <2>9, <2>10
  <2>15. d \in Nat /\ Height(tn, root) <= d
    BY <1>1
  <2> HIDE DEF h, vs, l, d
  <2> QED BY <2>13, <2>14, <2>15
<1>18. Mends(u, new, d, Height(tn, root))
  BY <1>15, <1>17 DEF Mends, Remade
<1> QED BY <1>0, <1>8, <1>18 DEF zs

-----------------------------------------------------------------------------
(* What the tree becomes.                                                  *)

\* A tree: no node twice, and in the order of the keys.
Shape(t, r) ==
  /\ t \in Forest /\ r \in Ref /\ Distinct(InOrder(t, r)) /\ Ordered(t, InOrder(t, r))

\* The counts, and the height they stand for.
Sized(t, r, sz, mx) ==
  /\ sz = Len(InOrder(t, r)) /\ mx \in Nat /\ sz <= mx /\ mx <= 2 * sz
  /\ r # Nil => Pow2[Height(t, r) - 1] <= mx

\* A record with the fields of an iterator.
IsIter(it) ==
  it = [path |-> it.path, state |-> it.state, last |-> it.last, high |-> it.high,
        todo |-> it.todo, valid |-> it.valid]

\* Blanking nodes outside a tree does not change it.
LEMMA KeptIs ==
  ASSUME NEW t \in Forest, NEW r \in Ref, NEW kept, Within(t, r) \subseteq kept,
         NEW u, u = [n \in Node |-> IF n \in kept THEN t[n] ELSE Blank]
  PROVE  /\ u \in Forest /\ InOrder(u, r) = InOrder(t, r) /\ Height(u, r) = Height(t, r)
         /\ \A w \in Within(t, r) : u[w] = t[w]
<1>1. t \in Links /\ Blank \in [key : Key \cup {Nil}, left : Ref, right : Ref]
  BY DEF Forest, Blank, Ref
<1>2. u \in Links
  BY <1>1 DEF Links
<1>3. \A w \in Node : u[w] = t[w] \/ (u[w].left = Nil /\ u[w].right = Nil)
  BY DEF Blank
<1>4. u \in Forest
  <2>1. PICK rk \in [Node -> Nat] : Descends(t, rk)
    BY DEF Forest
  <2>2. Descends(u, rk)
    BY <1>3, <2>1 DEF Descends
  <2> QED BY <1>2, <2>1, <2>2 DEF Forest
<1>5. \A w \in Within(t, r) : u[w] = t[w]
  BY WithinEq
<1>6. InOrder(u, r) = InOrder(t, r) /\ Height(u, r) = Height(t, r)
  <2>1. \A w \in Within(t, r) : u[w].left = t[w].left /\ u[w].right = t[w].right
    BY <1>5
  <2> QED BY <1>4, <2>1, Agreement
<1> QED BY <1>4, <1>5, <1>6

\* The tree that the program has now is new.
Now(new, sz, mx) ==
  /\ tn' \in Forest /\ root' = new.root /\ size' = sz /\ maxSize' = mx
  /\ InOrder(tn', root') = InOrder(new.tn, new.root)
  /\ Height(tn', root') = Height(new.tn, new.root)
  /\ \A w \in Within(new.tn, new.root) : tn'[w].key = new.tn[w].key

\* What Becomes makes of the tree.
LEMMA BecomesNow ==
  ASSUME NEW new, NEW sz, NEW mx, new.tn \in Forest, new.root \in Ref, Becomes(new, sz, mx)
  PROVE  Now(new, sz, mx)
<1> DEFINE held == UNION {Range(Stale[i].path) \cup {Stale[i].last} : i \in Iter}
           kept == UNION {Within(new.tn, n) : n \in held \cup {new.root}}
<1>1. /\ tn' = [n \in Node |-> IF n \in kept THEN new.tn[n] ELSE Blank]
      /\ root' = new.root /\ size' = sz /\ maxSize' = mx
  BY DEF Becomes
<1>2. Within(new.tn, new.root) \subseteq kept
  OBVIOUS
<1> HIDE DEF kept
<1> DEFINE u == tn'
           t == new.tn
           r == new.root
<1>3. u = [n \in Node |-> IF n \in kept THEN t[n] ELSE Blank] /\ t \in Forest /\ r \in Ref
      /\ Within(t, r) \subseteq kept
  BY <1>1, <1>2
<1> HIDE DEF u, t, r
<1>4. /\ u \in Forest /\ InOrder(u, r) = InOrder(t, r) /\ Height(u, r) = Height(t, r)
      /\ \A w \in Within(t, r) : u[w] = t[w]
  BY <1>3, KeptIs
<1> QED BY <1>1, <1>4 DEF Now, u, t, r

\* What Becomes makes of the iterators.
LEMMA BecomesStale ==
  ASSUME NEW new, NEW sz, NEW mx, Becomes(new, sz, mx),
         iter = [i \in Iter |-> iter[i]], \A i \in Iter : IsIter(iter[i])
  PROVE  /\ iter' = [i \in Iter |-> iter'[i]]
         /\ \A i \in Iter : IsIter(iter'[i]) /\ iter'[i].valid = FALSE
<1>1. iter' = Stale
  BY DEF Becomes
<1>2. ASSUME NEW i \in Iter PROVE IsIter(Stale[i]) /\ Stale[i].valid = FALSE
  <2>1. CASE KeepStale
    <3> DEFINE it == iter[i]
               s  == Stale[i]
    <3>1. s = [it EXCEPT !.valid = FALSE, !.todo = {}]
      BY <2>1 DEF Stale
    <3>2. it = [path |-> it.path, state |-> it.state, last |-> it.last, high |-> it.high,
                todo |-> it.todo, valid |-> it.valid]
      BY DEF IsIter
    <3> HIDE DEF it, s
    <3>3. s = [path |-> it.path, state |-> it.state, last |-> it.last, high |-> it.high,
               todo |-> {}, valid |-> FALSE]
      BY <3>1, <3>2
    <3>4. IsIter(s) /\ s.valid = FALSE
      BY <3>3 DEF IsIter
    <3> QED BY <3>4 DEF s
  <2>2. CASE ~KeepStale
    <3>1. Stale[i] = Idle
      BY <2>2 DEF Stale
    <3> QED BY <3>1 DEF Idle, IsIter
  <2> QED BY <2>1, <2>2
<1>3. Stale = [i \in Iter |-> Stale[i]]
  BY DEF Stale
<1> QED BY <1>1, <1>2, <1>3

\* The tree is well formed, and its counts are right.
TreeOK == Shape(tn, root) /\ Sized(tn, root, size, maxSize)

\* The keys of the nodes that stay are what they were.
SameKeys == \A w \in Within(tn, root) \cap Within(tn', root') : tn'[w].key = tn[w].key

\* The node n, new, stands after all nodes that are not greater.
Gains(n, k, dup) ==
  /\ n \in Node /\ k \in Key /\ tn'[n].key = k /\ n \notin Within(tn, root) /\ SameKeys
  /\ \E a, b \in Seq(Node) : /\ InOrder(tn, root) = a \o b /\ InOrder(tn', root') = Join(a, n, b)
                             /\ Fits(tn, k, dup, a, b)

\* The node n, new, stands in the place of one with its key.
Trades(n, k) ==
  /\ n \in Node /\ k \in Key /\ tn'[n].key = k /\ n \notin Within(tn, root) /\ SameKeys
  /\ \E a, b \in Seq(Node), m \in Node :
       /\ InOrder(tn, root) = Join(a, m, b) /\ InOrder(tn', root') = Join(a, n, b)
       /\ tn[m].key = k

\* A node has gone.
Loses ==
  /\ SameKeys
  /\ \E a, b \in Seq(Node), n \in Node :
       InOrder(tn, root) = Join(a, n, b) /\ InOrder(tn', root') = a \o b

\* The tree u with root r has n where the key k belongs.
Grew(n, k, dup, u, r) ==
  /\ u \in Forest /\ r \in Ref /\ u[n].key = k /\ Distinct(InOrder(u, r))
  /\ \A w \in Node : w # n => u[w].key = tn[w].key
  /\ \E a, b \in Seq(Node) : /\ InOrder(tn, root) = a \o b /\ InOrder(u, r) = Join(a, n, b)
                             /\ Fits(tn, k, dup, a, b)

\* The tree new has the nodes of u in their order.
Alike(u, r, new) ==
  /\ new.tn \in Forest /\ new.root \in Ref
  /\ \A w \in Node : new.tn[w].key = u[w].key
  /\ InOrder(new.tn, new.root) = InOrder(u, r)

\* sz and mx are counts that allow the height of new.
Allows(new, sz, mx) ==
  /\ mx \in Nat /\ sz <= mx /\ mx <= 2 * sz
  /\ new.root # Nil => Pow2[Height(new.tn, new.root) - 1] <= mx

\* A tree with the nodes of u in their order, and no higher than its counts allow, is
\* what the tree becomes.
LEMMA GainsNow ==
  ASSUME TreeOK, NEW n \in Node, NEW k \in Key, NEW dup \in BOOLEAN, n \notin Within(tn, root),
         NEW u, NEW r, Grew(n, k, dup, u, r), NEW new, Alike(u, r, new), NEW mx, Allows(new, size + 1, mx),
         Becomes(new, size + 1, mx)
  PROVE  TreeOK' /\ Gains(n, k, dup)
<1>1. PICK a, b \in Seq(Node) : /\ InOrder(tn, root) = a \o b /\ InOrder(u, r) = Join(a, n, b)
                                /\ Fits(tn, k, dup, a, b)
  BY DEF Grew
<1>2. Now(new, size + 1, mx)
  BY BecomesNow DEF Alike
<1>0. /\ u \in Forest /\ r \in Ref /\ u[n].key = k /\ Distinct(InOrder(u, r))
      /\ \A w \in Node : w # n => u[w].key = tn[w].key
      /\ new.tn \in Forest /\ new.root \in Ref
      /\ \A w \in Node : new.tn[w].key = u[w].key
      /\ InOrder(new.tn, new.root) = InOrder(u, r)
      /\ mx \in Nat /\ size + 1 <= mx /\ mx <= 2 * (size + 1)
      /\ new.root # Nil => Pow2[Height(new.tn, new.root) - 1] <= mx
  BY DEF Grew, Alike, Allows
<1>3. /\ tn \in Forest /\ tn \in Links /\ root \in Ref /\ size = Len(InOrder(tn, root)) /\ u \in Links
      /\ InOrder(tn, root) \in Seq(Node)
      /\ Within(tn, root) = Range(a \o b) /\ Ordered(tn, a \o b)
  BY <1>0, <1>1, InOrderEq DEF TreeOK, Shape, Sized, Forest, Within
<1>4. /\ tn' \in Forest /\ root' \in Ref /\ InOrder(tn', root') = Join(a, n, b)
      /\ size' = size + 1 /\ maxSize' = mx
      /\ Height(tn', root') = Height(new.tn, new.root)
  BY <1>0, <1>1, <1>2 DEF Now
<1>5. Distinct(Join(a, n, b)) /\ Len(Join(a, n, b)) = 1 + Len(a \o b)
      /\ Range(Join(a, n, b)) = Within(tn, root) \cup {n}
  <2>1. Distinct(Join(a, n, b))
    BY <1>0, <1>1
  <2>2. Len(Join(a, n, b)) = 1 + Len(a \o b) /\ Range(a \o b) = Range(Join(a, n, b)) \ {n}
    BY <1>0, <2>1, LessOne
  <2>3. n \in Range(Join(a, n, b))
    BY JoinDivided
  <2> QED BY <1>0, <1>3, <2>1, <2>2, <2>3
<1>6. \A w \in Range(Join(a, n, b)) : tn'[w].key = u[w].key /\ w \in Node
  <2>1. Range(Join(a, n, b)) = Within(new.tn, new.root)
    BY <1>0, <1>1 DEF Within
  <2>2. \A w \in Within(new.tn, new.root) : tn'[w].key = new.tn[w].key
    BY <1>0, <1>2 DEF Now
  <2>3. \A w \in Within(tn, root) \cup {n} : w \in Node
    BY <1>0, <1>3, WithinEq
  <2> QED BY <1>0, <1>5, <2>1, <2>2, <2>3
<1>7. Ordered(u, Join(a, n, b))
  <2>1. \A i \in 1 .. Len(a) : tn[a[i]].key <= k
    BY <1>0, <1>1 DEF Fits
  <2>2. \A i \in 1 .. Len(b) : k <= tn[b[i]].key
    <3> TAKE i \in 1 .. Len(b)
    <3>1. k < tn[b[i]].key
      BY <1>0, <1>1 DEF Fits
    <3>2. tn[b[i]].key \in Nat /\ k \in Nat
      BY <1>0, <1>3, OrderedEnds, KeyAssumption
    <3> QED BY <1>0, <3>1, <3>2
  <2> DEFINE t == tn
  <2>3. t \in Links /\ Ordered(t, a \o b) /\ n \notin Range(a \o b)
        /\ (\A w \in Node : w # n => u[w].key = t[w].key)
        /\ (\A i \in 1 .. Len(a) : t[a[i]].key <= k)
        /\ (\A i \in 1 .. Len(b) : k <= t[b[i]].key)
    BY <1>0, <1>3, <2>1, <2>2
  <2> HIDE DEF t
  <2> QED BY <1>0, <1>3, <2>3, OrderedJoin
<1>8. Ordered(tn', Join(a, n, b))
  <2> DEFINE c == Join(a, n, b)
  <2>1. c \in Seq(Node)
    BY JoinDivided
  <2>2. \A i \in 1 .. Len(c) : tn'[c[i]].key = u[c[i]].key
    <3>1. \A w \in Range(c) : tn'[w].key = u[w].key
      BY <1>0, <1>6
    <3> HIDE DEF c
    <3> QED BY <1>0, <2>1, <3>1 DEF Range
  <2>3. Ordered(u, c)
    BY <1>0, <1>7
  <2> HIDE DEF c
  <2>4. Ordered(tn', c)
    BY <1>0, <2>2, <2>3 DEF Ordered
  <2> QED BY <1>0, <2>4 DEF c
<1>9. Shape(tn, root)'
  BY <1>0, <1>4, <1>5, <1>8 DEF Shape
<1>10. Sized(tn, root, size, maxSize)'
  BY <1>0, <1>1, <1>2, <1>3, <1>4, <1>5 DEF Sized, Now
<1>11. SameKeys
  BY <1>0, <1>3, <1>5, <1>6 DEF SameKeys
<1>12. tn'[n].key = k
  BY <1>0, <1>5, <1>6
<1> QED BY <1>0, <1>1, <1>4, <1>9, <1>10, <1>11, <1>12 DEF TreeOK, Gains

-----------------------------------------------------------------------------
(* Insertion.                                                              *)

\* t with the new node n, in no tree yet.
Fresh(t, n, k) == [t EXCEPT ![n] = [Blank EXCEPT !.key = k]]

\* The fields of a new node.
LEMMA FreshIs ==
  ASSUME NEW t \in Links, NEW n \in Node, NEW k \in Key
  PROVE  /\ Fresh(t, n, k) \in Links
         /\ Fresh(t, n, k)[n].key = k /\ Fresh(t, n, k)[n].left = Nil /\ Fresh(t, n, k)[n].right = Nil
         /\ \A w \in Node : w # n => Fresh(t, n, k)[w] = t[w]
<1> DEFINE e == [Blank EXCEPT !.key = k]
           u == Fresh(t, n, k)
<1>1. e = [key |-> k, left |-> Nil, right |-> Nil]
  BY DEF Blank
<1> HIDE DEF e
<1>2. u = [t EXCEPT ![n] = e] /\ t \in [Node -> [key : Key \cup {Nil}, left : Ref, right : Ref]]
  BY DEF Links, Fresh, e
<1>3. e \in [key : Key \cup {Nil}, left : Ref, right : Ref]
  BY <1>1 DEF Ref
<1> HIDE DEF u
<1>4. u \in Links /\ u[n] = e /\ \A w \in Node : w # n => u[w] = t[w]
  BY <1>2, <1>3 DEF Links
<1> QED BY <1>1, <1>4 DEF u

\* A new node makes no cycle.
LEMMA FreshForest ==
  ASSUME NEW t \in Forest, NEW n \in Node, NEW k \in Key
  PROVE  Fresh(t, n, k) \in Forest
<1> DEFINE u == Fresh(t, n, k)
<1>1. t \in Links
  BY DEF Forest
<1>2. u \in Links /\ u[n].left = Nil /\ u[n].right = Nil /\ \A w \in Node : w # n => u[w] = t[w]
  BY <1>1, FreshIs
<1> HIDE DEF u
<1>3. PICK rk \in [Node -> Nat] : Descends(t, rk)
  BY DEF Forest
<1>4. Descends(u, rk)
  BY <1>2, <1>3 DEF Descends
<1>5. u \in Forest
  BY <1>2, <1>3, <1>4 DEF Forest
<1> QED BY <1>5 DEF u

\* tr_insert into an empty tree.
LEMMA InsertFirst ==
  ASSUME TreeOK, NEW n \in Node, NEW k \in Key, NEW dup \in BOOLEAN, root = Nil,
         Becomes([tn |-> Fresh(tn, n, k), root |-> n], 1, 1)
  PROVE  TreeOK' /\ Gains(n, k, dup)
<1> DEFINE u   == Fresh(tn, n, k)
           new == [tn |-> u, root |-> n]
           e   == <<>>
<1>1. tn \in Forest /\ tn \in Links /\ InOrder(tn, root) = e /\ size = 0 /\ n \notin Within(tn, root)
  <2>1. tn \in Forest /\ size = Len(InOrder(tn, root))
    BY DEF TreeOK, Shape, Sized
  <2>2. InOrder(tn, root) = <<>> /\ Within(tn, root) = {}
    BY <2>1, InOrderEq, WithinEq
  <2> QED BY <2>1, <2>2 DEF Forest
<1>2. u \in Forest /\ u[n].key = k /\ u[n].left = Nil /\ u[n].right = Nil
      /\ \A w \in Node : w # n => u[w] = tn[w]
  BY <1>1, FreshIs, FreshForest
<1> HIDE DEF u
<1>3. InOrder(u, n) = Join(e, n, e) /\ Height(u, n) = 1 /\ e \in Seq(Node)
  <2>1. InOrder(u, n) = Join(InOrder(u, u[n].left), n, InOrder(u, u[n].right)) /\ InOrder(u, Nil) = <<>>
    BY <1>2, InOrderJoin, InOrderEq
  <2>2. Height(u, n) = 1 + Height(u, Nil) /\ Height(u, Nil) = 0
    BY <1>2, HeightNode, HeightEq
  <2> QED BY <1>2, <2>1, <2>2
<1>4. Distinct(Join(e, n, e)) /\ e \o e = e /\ Fits(tn, k, dup, e, e)
  <2>1. e \o e = e /\ Distinct(e) /\ Range(e) = {} /\ Len(e) = 0
    BY DEF Distinct, Range
  <2>2. Fits(tn, k, dup, e, e)
    BY <2>1 DEF Fits
  <2> HIDE DEF e
  <2>3. Distinct(e \o e) /\ n \notin Range(e \o e)
    BY <2>1
  <2>4. Distinct(Join(e, n, e))
    BY <1>3, <2>3, MoreOne
  <2> QED BY <2>1, <2>2, <2>4
<1>5. new.tn = u /\ new.root = n /\ n \in Ref
  BY DEF Ref
<1> HIDE DEF new, e
<1>6. Becomes(new, size + 1, 1)
  BY <1>1 DEF new, u
<1>7. Grew(n, k, dup, u, n)
  BY <1>1, <1>2, <1>3, <1>4, <1>5 DEF Grew
<1>8. Alike(u, n, new)
  BY <1>2, <1>5 DEF Alike
<1>9. Allows(new, size + 1, 1)
  BY <1>1, <1>3, <1>5, Pow2Eq DEF Allows
<1> QED BY <1>1, <1>6, <1>7, <1>8, <1>9, GainsNow

\* t with the new node n under at.
Hang(t, at, n, k, left) ==
  IF left THEN [Fresh(t, n, k) EXCEPT ![at].left = n]
  ELSE [Fresh(t, n, k) EXCEPT ![at].right = n]

\* tr_insert hangs a new node under the last of the way.
LEMMA HangIs ==
  ASSUME NEW t \in Links, NEW at \in Node, NEW n \in Node, at # n, NEW k \in Key, NEW left \in BOOLEAN,
         left => t[at].left = Nil, ~left => t[at].right = Nil
  PROVE  Hung(t, Hang(t, at, n, k, left), at, n, left) /\ Hang(t, at, n, k, left)[n].key = k
<1> DEFINE f == Fresh(t, n, k)
           u == Hang(t, at, n, k, left)
<1>1. f \in Links /\ f[n].key = k /\ f[n].left = Nil /\ f[n].right = Nil
      /\ \A w \in Node : w # n => f[w] = t[w]
  BY FreshIs
<1>2. u = IF left THEN [f EXCEPT ![at].left = n] ELSE [f EXCEPT ![at].right = n]
  BY DEF Hang
<1> HIDE DEF f, u
<1>3. n \in Ref /\ f \in [Node -> [key : Key \cup {Nil}, left : Ref, right : Ref]]
  BY <1>1 DEF Ref, Links
<1>4. /\ u \in Links
      /\ left => u[at].left = n /\ u[at].right = f[at].right
      /\ ~left => u[at].right = n /\ u[at].left = f[at].left
      /\ \A w \in Node : w # at => u[w] = f[w]
      /\ u[at].key = f[at].key
  <2>1. CASE left
    BY <1>2, <1>3, <2>1 DEF Links
  <2>2. CASE ~left
    BY <1>2, <1>3, <2>2 DEF Links
  <2> QED BY <2>1, <2>2
<1>5. Hung(t, u, at, n, left) /\ u[n].key = k
  BY <1>1, <1>4 DEF Hung
<1> QED BY <1>5 DEF u

\* tree_insert_node where the new node becomes a leaf.
LeafStep(n, k, dup, way, at, left, u, new, mx) ==
  /\ way = Way(k, dup) /\ at = Last(way) /\ left = GoesLeft(k, at)
  /\ ~(tn[at].key = k /\ ~dup)
  /\ u = Hang(tn, at, n, k, left)
  /\ new = IF (tn[at].left = Nil /\ tn[at].right = Nil) /\ TooDeep(Len(way), size + 1)
             THEN Repaired(u, Append(way, n)) ELSE [tn |-> u, root |-> root]
  /\ mx = Max({size + 1, maxSize})

\* tr_insert of a leaf, with or without a rebuilding.
LEMMA InsertLeaf ==
  ASSUME TreeOK, NEW n \in Node, NEW k \in Key, NEW dup \in BOOLEAN, n \notin Within(tn, root), root # Nil,
         NEW way, NEW at, NEW left, NEW u, NEW new, NEW mx, LeafStep(n, k, dup, way, at, left, u, new, mx),
         Becomes(new, size + 1, mx)
  PROVE  TreeOK' /\ Gains(n, k, dup)
<1> DEFINE only == tn[at].left = Nil /\ tn[at].right = Nil
           d == Len(way)
           h == Height(tn, root)
<1>1. /\ tn \in Forest /\ tn \in Links /\ root \in Node /\ root \in Ref /\ Distinct(InOrder(tn, root))
      /\ Ordered(tn, InOrder(tn, root)) /\ size = Len(InOrder(tn, root)) /\ size \in Nat /\ maxSize \in Nat
      /\ size <= maxSize /\ maxSize <= 2 * size /\ Pow2[h - 1] <= maxSize
      /\ h \in Nat /\ 0 < h
  <2>1. /\ tn \in Forest /\ tn \in Links /\ root \in Node /\ root \in Ref /\ Distinct(InOrder(tn, root))
        /\ Ordered(tn, InOrder(tn, root)) /\ size = Len(InOrder(tn, root)) /\ maxSize \in Nat
        /\ size <= maxSize /\ maxSize <= 2 * size /\ Pow2[h - 1] <= maxSize
    BY DEF TreeOK, Shape, Sized, Forest, Ref
  <2>2. InOrder(tn, root) \in Seq(Node)
    BY <2>1, InOrderEq
  <2>3. h \in Nat /\ 0 < h
    BY <2>1, HeightNode, HeightEq
  <2> QED BY <2>1, <2>2, <2>3
<1>2. Path(tn, Steer(k, dup), root, way) /\ Steers(tn, Steer(k, dup))
  <2>1. way = Way(k, dup)
    BY DEF LeafStep
  <2>2. Path(tn, Steer(k, dup), root, Way(k, dup)) /\ Steers(tn, Steer(k, dup))
    BY <1>1, WayIs
  <2> QED BY <2>1, <2>2
<1>3. /\ Chain(tn, way) /\ way[1] = root /\ d \in Nat /\ 0 < d /\ at = way[d] /\ at \in Node
      /\ way \in Seq(Node) /\ Steer(k, dup)[at] = Nil /\ d \in 1 .. d
  <2>1. Chain(tn, way) /\ way[1] = root /\ Steer(k, dup)[way[Len(way)]] = Nil
    BY <1>2 DEF Path
  <2>2. Len(way) \in Nat /\ 0 < Len(way) /\ way \in Seq(Node) /\ way[Len(way)] \in Node
    BY <2>1, ChainType DEF Chain
  <2>3. at = way[Len(way)]
    BY DEF Last, LeafStep
  <2> QED BY <2>1, <2>2, <2>3
<1>4. at \in Within(tn, root) /\ at # n
  <2>1. d \in 1 .. d /\ 1 \in 1 .. d
    BY <1>3
  <2>2. way[d] \in Within(tn, way[1])
    BY <1>1, <1>3, <2>1, ChainWithin
  <2> QED BY <1>3, <2>2
<1>5. (left => tn[at].left = Nil) /\ (~left => tn[at].right = Nil)
  <2>1. Steer(k, dup)[at] = IF left THEN tn[at].left
                            ELSE IF k = tn[at].key /\ ~dup THEN Nil ELSE tn[at].right
    BY <1>3 DEF Steer, LeafStep
  <2>2. ~(tn[at].key = k /\ ~dup)
    BY DEF LeafStep
  <2> QED BY <1>3, <2>1, <2>2
<1>10. left \in BOOLEAN
  <2>1. PICK j \in 1 .. Len(InOrder(tn, root)) : InOrder(tn, root)[j] = at
    <3>1. InOrder(tn, root) \in Seq(Node)
      BY <1>1, InOrderEq
    <3> QED BY <1>4, <3>1 DEF Within, Range
  <2>2. tn[at].key \in Nat /\ k \in Nat
    BY <1>1, <2>1, KeyAssumption DEF Ordered
  <2>3. (k < tn[at].key) \in BOOLEAN
    BY <2>2
  <2> QED BY <2>3 DEF LeafStep, GoesLeft
<1>9. Hung(tn, u, at, n, left) /\ u[n].key = k
  <2>1. u = Hang(tn, at, n, k, left)
    BY DEF LeafStep
  <2>2. Hung(tn, Hang(tn, at, n, k, left), at, n, left) /\ Hang(tn, at, n, k, left)[n].key = k
    BY <1>1, <1>3, <1>4, <1>5, <1>10, HangIs
  <2> QED BY <2>1, <2>2
<1>11. /\ u \in Forest /\ Distinct(InOrder(u, root))
       /\ \E a, b \in Seq(Node) : /\ InOrder(tn, root) = a \o b /\ InOrder(u, root) = Join(a, n, b)
                                  /\ Fits(tn, k, dup, a, b)
  <2>1. /\ Path(tn, Steer(k, dup), root, way) /\ ~(tn[way[Len(way)]].key = k /\ ~dup)
        /\ Hung(tn, u, way[Len(way)], n, GoesLeft(k, way[Len(way)])) /\ u[n].key = k
    BY <1>2, <1>3, <1>9 DEF LeafStep
  <2> HIDE DEF d
  <2> QED BY <1>1, <2>1, InsertFits
<1>12. /\ only => \A M \in Nat : h <= M /\ d + 1 <= M => Height(u, root) <= M
       /\ ~only => Height(u, root) <= h
       /\ Len(InOrder(u, root)) = 1 + size
       /\ Height(u, root) \in Nat
  <2>1. Hung(tn, u, way[Len(way)], n, left) /\ Distinct(InOrder(tn, way[1])) /\ n \notin Within(tn, way[1])
    BY <1>1, <1>3, <1>9
  <2>2. LET e == way[Len(way)]
            x == way[1]
         IN  /\ Grown(tn, u, x, n)
             /\ tn[e].left = Nil /\ tn[e].right = Nil =>
                  \A M \in Nat : Height(tn, x) <= M /\ Len(way) + 1 <= M => Height(u, x) <= M
             /\ ~(tn[e].left = Nil /\ tn[e].right = Nil) => Height(u, x) <= Height(tn, x)
    BY <1>1, <1>3, <1>10, <2>1, HungGrown
  <2> QED BY <1>1, <1>3, <1>11, <2>2, HeightEq DEF Grown
<1>13. d <= h
  <2>1. Height(tn, way[d]) + (d - 1) <= Height(tn, way[1]) /\ 0 < Height(tn, way[d]) /\ Height(tn, way[d]) \in Nat
    <3>1. Height(tn, way[d]) + (d - 1) <= Height(tn, way[1])
      BY <1>1, <1>3, ChainHeight
    <3>2. way[d] \in Node
      BY <1>3
    <3>3. Height(tn, way[d]) \in Nat /\ Height(tn, tn[way[d]].left) \in Nat
          /\ Height(tn, tn[way[d]].left) < Height(tn, way[d])
      BY <1>1, <3>2, HeightNode
    <3> HIDE DEF d
    <3> QED BY <3>1, <3>3
  <2> QED BY <1>1, <1>3, <2>1
<1>14. TooDeep(Len(way), size + 1) => Mends(u, Repaired(u, Append(way, n)), d, h)
  <2> HAVE TooDeep(Len(way), size + 1)
  <2>1. 1 + Len(InOrder(tn, root)) < Pow2[Len(way)]
    <3>1. Pow2[d] > size + 1 /\ Pow2[d] \in Nat
      BY <1>3, Pow2Eq DEF TooDeep
    <3> QED BY <1>1, <3>1
  <2>2. Hung(tn, u, way[Len(way)], n, left)
    BY <1>3, <1>9
  <2> QED BY <1>1, <1>3, <1>10, <2>1, <2>2, RepairMends
<1>15. /\ new.tn \in Forest /\ new.root \in Ref
       /\ \A w \in Node : new.tn[w].key = u[w].key
       /\ InOrder(new.tn, new.root) = InOrder(u, root)
       /\ Height(new.tn, new.root) <= Height(u, root)
       /\ only /\ TooDeep(Len(way), size + 1) /\ h = d => Height(new.tn, new.root) <= d
  <2>1. CASE only /\ TooDeep(Len(way), size + 1)
    <3>1. new = Repaired(u, Append(way, n))
      BY <2>1 DEF LeafStep
    <3>2. Mends(u, Repaired(u, Append(way, n)), d, h)
      BY <1>14, <2>1
    <3> HIDE DEF d, h
    <3> QED BY <3>1, <3>2 DEF Mends
  <2>2. CASE ~(only /\ TooDeep(Len(way), size + 1))
    <3>1. new.tn = u /\ new.root = root
      BY <2>2 DEF LeafStep
    <3> HIDE DEF only, h, d
    <3> QED BY <1>1, <1>11, <1>12, <2>2, <3>1
  <2> QED BY <2>1, <2>2
<1>16. mx \in Nat /\ size + 1 <= mx /\ maxSize <= mx /\ mx <= 2 * (size + 1)
  <2>1. size + 1 \in Nat
    BY <1>1
  <2>2. mx \in {size + 1, maxSize} /\ size + 1 <= mx /\ maxSize <= mx
    <3>1. mx = Max({size + 1, maxSize})
      BY DEF LeafStep
    <3> QED BY <1>1, <2>1, <3>1, MaxOfTwo
  <2> QED BY <1>1, <2>1, <2>2
<1>17. Pow2[Height(new.tn, new.root) - 1] <= mx
  <2> DEFINE g == Height(new.tn, new.root)
  <2>0. g \in Nat /\ 0 < g
    <3>1. g \in Nat
      BY <1>15, HeightEq
    <3>2. new.root # Nil
      <4> SUFFICES ASSUME new.root = Nil PROVE FALSE
        OBVIOUS
      <4>1. InOrder(new.tn, Nil) = <<>>
        BY <1>15, InOrderEq
      <4>2. Len(InOrder(u, root)) = 0
        BY <1>15, <4>1
      <4>3. Len(InOrder(u, root)) = 1 + size
        BY <1>12
      <4>4. size \in Nat /\ 0 = 1 + size
        BY <1>1, <4>2, <4>3
      <4> HIDE DEF g, h, d, only
      <4> QED BY <4>4
    <3>3. 0 < g
      BY <1>15, <3>2, HeightNode, HeightEq DEF Ref
    <3> QED BY <3>1, <3>3
  <2> HIDE DEF g, h, d, only
  <2>1. \A i \in Nat : g <= i /\ i # 0 => Pow2[g - 1] <= Pow2[i - 1] /\ Pow2[i - 1] \in Nat /\ Pow2[g - 1] \in Nat
    <3> TAKE i \in Nat
    <3> HAVE g <= i /\ i # 0
    <3>1. g - 1 \in Nat /\ i - 1 \in Nat /\ g - 1 <= i - 1
      BY <2>0
    <3> QED BY <3>1, Pow2Grows, Pow2Eq
  <2>2. Pow2[h - 1] <= mx
    <3>1. h - 1 \in Nat
      BY <1>1
    <3>2. Pow2[h - 1] \in Nat
      BY <3>1, Pow2Eq
    <3>3. Pow2[h - 1] <= maxSize /\ maxSize <= mx /\ maxSize \in Nat /\ mx \in Nat
      BY <1>1, <1>16
    <3> QED BY <3>2, <3>3
  <2>3. CASE g <= h
    <3>1. h # 0 /\ h \in Nat
      BY <1>1
    <3>2. Pow2[g - 1] <= Pow2[h - 1] /\ Pow2[h - 1] \in Nat /\ Pow2[g - 1] \in Nat
      BY <2>1, <2>3, <3>1
    <3>3. mx \in Nat
      BY <1>16
    <3> QED BY <2>2, <3>2, <3>3 DEF g
  <2>4. CASE ~(g <= h)
    <3>1. only /\ d = h /\ g <= d + 1
      <4>1. g <= Height(u, root)
        BY <1>15 DEF g
      <4>2. only
        BY <1>1, <1>12, <2>0, <2>4, <4>1
      <4>3. d = h
        <5> SUFFICES ASSUME d # h PROVE FALSE
          OBVIOUS
        <5>1. d + 1 <= h
          BY <1>1, <1>3, <1>13
        <5>2. Height(u, root) <= h
          BY <1>1, <1>12, <4>2, <5>1
        <5> QED BY <1>1, <1>12, <2>0, <2>4, <4>1, <5>2
      <4>4. Height(u, root) <= d + 1
        <5>1. d + 1 \in Nat /\ h <= d + 1
          BY <1>3, <4>3
        <5> QED BY <1>12, <4>2, <5>1
      <4> QED BY <1>3, <1>12, <2>0, <4>1, <4>2, <4>3, <4>4
    <3>2. ~TooDeep(Len(way), size + 1)
      BY <1>15, <2>4, <3>1 DEF g
    <3>3. Pow2[d] <= size + 1 /\ Pow2[d] \in Nat
      <4>1. Pow2[d] \in Nat
        BY <1>3, Pow2Eq
      <4>2. ~(Pow2[d] > size + 1)
        BY <3>2 DEF TooDeep, d
      <4> QED BY <1>1, <4>1, <4>2
    <3>4. Pow2[g - 1] <= Pow2[d] /\ Pow2[g - 1] \in Nat
      <4>1. g - 1 \in Nat /\ g - 1 <= d
        BY <1>3, <2>0, <3>1
      <4> QED BY <1>3, <4>1, Pow2Grows, Pow2Eq
    <3>5. size + 1 <= mx /\ mx \in Nat /\ size + 1 \in Nat
      BY <1>1, <1>16
    <3> QED BY <3>3, <3>4, <3>5 DEF g
  <2> QED BY <2>3, <2>4 DEF g
<1>19. \A w \in Node : w # n => u[w].key = tn[w].key
  BY <1>9 DEF Hung
<1> HIDE DEF only, d, h
<1>20. Grew(n, k, dup, u, root)
  BY <1>1, <1>9, <1>11, <1>19 DEF Grew
<1>21. Alike(u, root, new)
  BY <1>15 DEF Alike
<1>22. Allows(new, size + 1, mx)
  BY <1>16, <1>17 DEF Allows
<1> QED BY <1>20, <1>21, <1>22, GainsNow

-----------------------------------------------------------------------------
(* Deletion.                                                               *)

\* What holds of a tree.
LEMMA TreeType ==
  ASSUME TreeOK
  PROVE  /\ tn \in Forest /\ tn \in Links /\ root \in Ref /\ Distinct(InOrder(tn, root))
         /\ Ordered(tn, InOrder(tn, root)) /\ InOrder(tn, root) \in Seq(Node)
         /\ size = Len(InOrder(tn, root)) /\ size \in Nat /\ maxSize \in Nat
         /\ size <= maxSize /\ maxSize <= 2 * size
         /\ root # Nil => Pow2[Height(tn, root) - 1] <= maxSize
         /\ \A w \in Within(tn, root) : w \in Node
         /\ root # Nil => root \in Node
<1>1. /\ tn \in Forest /\ root \in Ref /\ Distinct(InOrder(tn, root))
      /\ Ordered(tn, InOrder(tn, root)) /\ size = Len(InOrder(tn, root)) /\ maxSize \in Nat
      /\ size <= maxSize /\ maxSize <= 2 * size
      /\ root # Nil => Pow2[Height(tn, root) - 1] <= maxSize
  BY DEF TreeOK, Shape, Sized
<1>2. InOrder(tn, root) \in Seq(Node) /\ \A w \in Within(tn, root) : w \in Node
  BY <1>1, InOrderEq, WithinEq
<1> QED BY <1>1, <1>2 DEF Forest, Ref

\* A node has taken the place of one with the same key, in a tree of the same shape.
LEMMA TradesNow ==
  ASSUME TreeOK, NEW n \in Node, NEW k \in Key, n \notin Within(tn, root),
         NEW v, NEW new, NEW m \in Node, Swapped(tn, root, v, new, m, n),
         v[n].key = k, tn[m].key = k, \A w \in Node : w # n => v[w].key = tn[w].key,
         Becomes(new, size, maxSize)
  PROVE  TreeOK' /\ Trades(n, k)
<1>1. /\ new.tn \in Forest /\ new.root \in Ref
      /\ \A w \in Node : new.tn[w].key = v[w].key
      /\ Height(new.tn, new.root) <= Height(tn, root)
  BY DEF Swapped
<1>2. PICK a, b \in Seq(Node) :
        InOrder(tn, root) = Join(a, m, b) /\ InOrder(new.tn, new.root) = Join(a, n, b)
  BY DEF Swapped
<1>3. Now(new, size, maxSize)
  BY <1>1, BecomesNow
<1>4. /\ tn' \in Forest /\ root' \in Ref /\ InOrder(tn', root') = Join(a, n, b)
      /\ size' = size /\ maxSize' = maxSize /\ root' = new.root
      /\ Height(tn', root') = Height(new.tn, new.root)
      /\ \A w \in Within(new.tn, new.root) : tn'[w].key = new.tn[w].key
  BY <1>1, <1>2, <1>3 DEF Now
<1>5. /\ Distinct(Join(a, m, b)) /\ Ordered(tn, Join(a, m, b)) /\ Within(tn, root) = Range(Join(a, m, b))
      /\ size = Len(Join(a, m, b)) /\ tn \in Forest /\ root \in Ref
  BY <1>2, TreeType DEF Within
<1>6. /\ Range(Join(a, m, b)) = Range(a) \cup {m} \cup Range(b)
      /\ Range(Join(a, n, b)) = Range(a) \cup {n} \cup Range(b)
      /\ Len(Join(a, m, b)) = Len(Join(a, n, b))
  BY JoinDivided DEF Join
<1>7. Distinct(Join(a, n, b))
  <2>1. Distinct(a) /\ Distinct(b) /\ Range(a) \cap Range(b) = {} /\ n \notin Range(a) /\ n \notin Range(b)
    BY <1>5, <1>6, DistinctMiddle DEF Join
  <2> QED BY <2>1, DistinctMiddle DEF Join
<1>8. \A w \in Range(Join(a, n, b)) : tn'[w].key = v[w].key /\ w \in Node
  <2>1. Range(Join(a, n, b)) = Within(new.tn, new.root)
    BY <1>2 DEF Within
  <2>2. \A w \in Within(new.tn, new.root) : w \in Node
    BY <1>1, WithinEq
  <2> QED BY <1>1, <1>4, <2>1, <2>2
<1>9. Ordered(v, Join(a, n, b))
  <2>1. v[n].key = tn[m].key /\ n \notin Range(Join(a, m, b))
    BY <1>5
  <2> DEFINE t == tn
  <2>2. Ordered(t, Join(a, m, b)) /\ v[n].key = t[m].key /\ n \notin Range(Join(a, m, b))
        /\ \A w \in Node : w # n => v[w].key = t[w].key
    BY <1>5, <2>1
  <2> HIDE DEF t
  <2> QED BY <2>2, OrderedSwap
<1>10. Ordered(tn', Join(a, n, b))
  <2> DEFINE c == Join(a, n, b)
  <2>1. c \in Seq(Node)
    BY JoinDivided
  <2>2. Ordered(v, c) /\ \A w \in Range(c) : tn'[w].key = v[w].key
    BY <1>8, <1>9
  <2> HIDE DEF c
  <2>3. \A i \in 1 .. Len(c) : tn'[c[i]].key = v[c[i]].key
    BY <2>1, <2>2 DEF Range
  <2>4. Ordered(tn', c)
    BY <2>2, <2>3 DEF Ordered
  <2> QED BY <2>4 DEF c
<1>11. Shape(tn, root)'
  BY <1>4, <1>7, <1>10 DEF Shape
<1>12. root # Nil
  <2> SUFFICES ASSUME root = Nil PROVE FALSE
    OBVIOUS
  <2>1. Within(tn, root) = {}
    BY <1>5, WithinEq
  <2> QED BY <1>5, <1>6, <2>1
<1>13. Sized(tn, root, size, maxSize)'
  <2>1. root' # Nil => Pow2[Height(tn', root') - 1] <= maxSize
    <3> HAVE root' # Nil
    <3> DEFINE g == Height(new.tn, new.root)
               h == Height(tn, root)
    <3>0. new.root \in Node
      BY <1>1, <1>4 DEF Ref
    <3>1. g \in Nat /\ h \in Nat /\ 0 < g /\ g <= h
      <4>1. g \in Nat /\ h \in Nat /\ g <= h
        BY <1>1, <1>5, HeightEq
      <4>2. Height(new.tn, new.tn[new.root].left) \in Nat /\ Height(new.tn, new.tn[new.root].left) < g
        BY <1>1, <3>0, HeightNode
      <4> HIDE DEF g, h
      <4> QED BY <4>1, <4>2
    <3>2. Pow2[h - 1] <= maxSize /\ maxSize \in Nat
      BY <1>12, TreeType
    <3> HIDE DEF g, h
    <3>3. g - 1 \in Nat /\ h - 1 \in Nat /\ g - 1 <= h - 1
      BY <3>1
    <3>4. Pow2[g - 1] <= Pow2[h - 1] /\ Pow2[g - 1] \in Nat /\ Pow2[h - 1] \in Nat
      BY <3>3, Pow2Grows, Pow2Eq
    <3>5. Pow2[g - 1] <= maxSize
      BY <3>2, <3>4
    <3> QED BY <1>4, <3>5 DEF g
  <2>2. size = Len(Join(a, n, b)) /\ maxSize \in Nat /\ size <= maxSize /\ maxSize <= 2 * size
    BY <1>5, <1>6, TreeType
  <2> QED BY <1>4, <2>1, <2>2 DEF Sized
<1>14. SameKeys
  <2> SUFFICES ASSUME NEW w \in Within(tn, root) \cap Within(tn', root') PROVE tn'[w].key = tn[w].key
    BY DEF SameKeys
  <2>1. w \in Node /\ w # n
    BY TreeType
  <2>2. w \in Range(Join(a, n, b))
    BY <1>4 DEF Within
  <2> QED BY <1>8, <2>1, <2>2
<1>15. tn'[n].key = k
  BY <1>6, <1>8
<1> QED BY <1>2, <1>4, <1>11, <1>13, <1>14, <1>15 DEF TreeOK, Trades

\* A node has gone, and the tree is low enough for its counts.
LEMMA LosesNow ==
  ASSUME TreeOK, NEW n \in Node, NEW new, Lacks(tn, root, new, n), NEW out, Alike(new.tn, new.root, out),
         NEW mx, Allows(out, size - 1, mx), Becomes(out, size - 1, mx)
  PROVE  TreeOK' /\ Loses
<1>1. /\ new.tn \in Forest /\ new.root \in Ref
      /\ \A w \in Node : new.tn[w].key = tn[w].key
  BY DEF Lacks
<1>2. PICK a, b \in Seq(Node) :
        InOrder(tn, root) = Join(a, n, b) /\ InOrder(new.tn, new.root) = a \o b
  BY DEF Lacks
<1>3. /\ out.tn \in Forest /\ out.root \in Ref
      /\ \A w \in Node : out.tn[w].key = tn[w].key
      /\ InOrder(out.tn, out.root) = a \o b
  BY <1>1, <1>2 DEF Alike
<1>4. Now(out, size - 1, mx)
  BY <1>3, BecomesNow
<1>5. /\ tn' \in Forest /\ root' \in Ref /\ InOrder(tn', root') = a \o b
      /\ size' = size - 1 /\ maxSize' = mx /\ root' = out.root
      /\ Height(tn', root') = Height(out.tn, out.root)
      /\ \A w \in Within(out.tn, out.root) : tn'[w].key = out.tn[w].key
  BY <1>3, <1>4 DEF Now
<1>6. /\ Distinct(Join(a, n, b)) /\ Ordered(tn, Join(a, n, b)) /\ Within(tn, root) = Range(Join(a, n, b))
      /\ size = Len(Join(a, n, b)) /\ tn \in Forest /\ root \in Ref
  BY <1>2, TreeType DEF Within
<1>7. Distinct(a \o b) /\ Len(Join(a, n, b)) = 1 + Len(a \o b) /\ a \o b \in Seq(Node)
      /\ Range(a \o b) \subseteq Node
  <2>1. Distinct(a \o b) /\ Len(Join(a, n, b)) = 1 + Len(a \o b) /\ a \o b \in Seq(Node)
    BY <1>6, LessOne
  <2>2. Range(a \o b) = Within(out.tn, out.root)
    BY <1>3 DEF Within
  <2> QED BY <1>3, <2>1, <2>2, WithinEq
<1>8. \A w \in Range(a \o b) : tn'[w].key = tn[w].key
  <2>1. Range(a \o b) = Within(out.tn, out.root)
    BY <1>3 DEF Within
  <2> QED BY <1>3, <1>5, <1>7, <2>1
<1>9. Ordered(tn', a \o b)
  <2> DEFINE c == a \o b
             t == tn
  <2>1. Ordered(t, Join(a, n, b)) /\ \A w \in Node : t[w].key = t[w].key
    BY <1>6
  <2> HIDE DEF t
  <2>2. Ordered(t, c)
    BY <2>1, OrderedLess
  <2>3. c \in Seq(Node) /\ \A w \in Range(c) : tn'[w].key = t[w].key
    BY <1>7, <1>8 DEF t
  <2> HIDE DEF c
  <2>4. \A i \in 1 .. Len(c) : tn'[c[i]].key = t[c[i]].key
    BY <2>3 DEF Range
  <2>5. Ordered(tn', c)
    BY <2>2, <2>4 DEF Ordered
  <2> QED BY <2>5 DEF c
<1>10. Shape(tn, root)'
  BY <1>5, <1>7, <1>9 DEF Shape
<1>11. Sized(tn, root, size, maxSize)'
  <2>1. size - 1 = Len(a \o b)
    <3>1. Len(a \o b) \in Nat
      BY <1>7
    <3> QED BY <1>6, <1>7, <3>1
  <2> QED BY <1>5, <2>1 DEF Sized, Allows
<1>12. SameKeys
  <2>1. Within(tn', root') = Range(a \o b)
    BY <1>5 DEF Within
  <2> QED BY <1>8, <2>1 DEF SameKeys
<1> QED BY <1>2, <1>5, <1>10, <1>11, <1>12 DEF TreeOK, Loses

\* tr_delete keeps the tree as low as its counts say.
LEMMA RemovedLoses ==
  ASSUME TreeOK, NEW n \in Within(tn, root), NEW new, Lacks(tn, root, new, n), Removed(new)
  PROVE  TreeOK' /\ Loses
<1> DEFINE sz == size - 1
<1>1. /\ new.tn \in Forest /\ new.root \in Ref
      /\ \A w \in Node : new.tn[w].key = tn[w].key
      /\ Height(new.tn, new.root) <= Height(tn, root)
      /\ n \in Node
  BY TreeType DEF Lacks
<1>2. Len(InOrder(new.tn, new.root)) = sz /\ Distinct(InOrder(new.tn, new.root)) /\ sz \in Nat
  <2>1. PICK a, b \in Seq(Node) :
          InOrder(tn, root) = Join(a, n, b) /\ InOrder(new.tn, new.root) = a \o b
    BY DEF Lacks
  <2>2. Distinct(Join(a, n, b)) /\ size = Len(Join(a, n, b))
    BY <2>1, TreeType
  <2>3. Distinct(a \o b) /\ Len(Join(a, n, b)) = 1 + Len(a \o b) /\ a \o b \in Seq(Node)
    BY <1>1, <2>2, LessOne
  <2>4. Len(a \o b) \in Nat
    BY <2>3
  <2> QED BY <2>1, <2>2, <2>3, <2>4
<1>3. size \in Nat /\ maxSize \in Nat /\ size <= maxSize /\ maxSize <= 2 * size
      /\ (root # Nil => Pow2[Height(tn, root) - 1] <= maxSize) /\ tn \in Forest /\ root \in Ref
  BY TreeType
<1>4. CASE Shrunk(sz, maxSize)
  <2> DEFINE out == Rebuilt(new.tn, new.root, new.root, Nil, sz)
             t == new.tn
             r == new.root
  <2>1. Becomes(out, sz, sz)
    BY <1>4 DEF Removed
  <2>2. /\ out.tn \in Forest /\ out.root \in Ref
        /\ \A w \in Node : out.tn[w].key = t[w].key
        /\ InOrder(out.tn, out.root) = InOrder(t, r)
        /\ out.root # Nil => Pow2[Height(out.tn, out.root) - 1] <= sz
    <3> HIDE DEF t, r, sz
    <3>1. t \in Forest /\ r \in Ref /\ Distinct(InOrder(t, r)) /\ sz = Len(InOrder(t, r))
          /\ out = Rebuilt(t, r, r, Nil, sz)
      BY <1>1, <1>2 DEF t, r
    <3> HIDE DEF out
    <3>2. LET z == Rebuilt(t, r, r, Nil, Len(InOrder(t, r)))
          IN  /\ z.tn \in Forest /\ z.root \in Ref
              /\ \A w \in Node : z.tn[w].key = t[w].key
              /\ InOrder(z.tn, z.root) = InOrder(t, r)
              /\ z.root # Nil => Pow2[Height(z.tn, z.root) - 1] <= Len(InOrder(t, r))
      BY <3>1, WholeRemade
    <3> QED BY <3>1, <3>2
  <2> HIDE DEF out, sz
  <2>3. Alike(new.tn, new.root, out)
    BY <2>2 DEF Alike
  <2>4. Allows(out, size - 1, sz)
    BY <1>2, <2>2 DEF Allows, sz
  <2>5. Becomes(out, size - 1, sz)
    BY <2>1 DEF sz
  <2> QED BY <1>1, <2>3, <2>4, <2>5, LosesNow
<1>5. CASE ~Shrunk(sz, maxSize)
  <2>1. Becomes(new, size - 1, maxSize)
    BY <1>5 DEF Removed
  <2>2. Alike(new.tn, new.root, new)
    BY <1>1 DEF Alike
  <2>3. maxSize <= 2 * sz
    BY <1>2, <1>3, <1>5 DEF Shrunk
  <2>4. new.root # Nil => Pow2[Height(new.tn, new.root) - 1] <= maxSize
    <3> HAVE new.root # Nil
    <3> DEFINE g == Height(new.tn, new.root)
               h == Height(tn, root)
    <3>1. root # Nil
      <4> SUFFICES ASSUME root = Nil PROVE FALSE
        OBVIOUS
      <4>1. Within(tn, root) = {}
        BY <1>3, WithinEq
      <4> QED BY <4>1
    <3>2. g \in Nat /\ h \in Nat /\ 0 < g /\ g <= h
      BY <1>1, <1>3, HeightEq, HeightNode DEF Ref
    <3>3. Pow2[h - 1] <= maxSize /\ maxSize \in Nat
      BY <1>3, <3>1
    <3> HIDE DEF g, h
    <3>4. g - 1 \in Nat /\ h - 1 \in Nat /\ g - 1 <= h - 1
      BY <3>2
    <3>5. Pow2[g - 1] <= Pow2[h - 1] /\ Pow2[g - 1] \in Nat /\ Pow2[h - 1] \in Nat
      BY <3>4, Pow2Grows, Pow2Eq
    <3>6. Pow2[g - 1] <= maxSize
      BY <3>3, <3>5
    <3> QED BY <3>6 DEF g
  <2>5. Allows(new, size - 1, maxSize)
    BY <1>2, <1>3, <2>3, <2>4 DEF Allows
  <2> QED BY <1>1, <2>1, <2>2, <2>5, LosesNow
<1> QED BY <1>4, <1>5

\* t with the new node n in the place of at, under no parent yet.
Took(t, at, n, k) == [t EXCEPT ![n] = [t[at] EXCEPT !.key = k]]

\* The fields of a node that takes the place of another.
LEMMA TookIs ==
  ASSUME NEW t \in Links, NEW at \in Node, NEW n \in Node, NEW k \in Key
  PROVE  /\ Took(t, at, n, k) \in Links
         /\ Took(t, at, n, k)[n].key = k
         /\ Took(t, at, n, k)[n].left = t[at].left /\ Took(t, at, n, k)[n].right = t[at].right
         /\ \A w \in Node : w # n => Took(t, at, n, k)[w] = t[w]
<1> DEFINE e == [t[at] EXCEPT !.key = k]
           u == Took(t, at, n, k)
           x == t[at]
<1>1. x \in [key : Key \cup {Nil}, left : Ref, right : Ref]
  BY DEF Links
<1>5. e = [x EXCEPT !.key = k]
  OBVIOUS
<1> HIDE DEF x, e
<1>2. e \in [key : Key \cup {Nil}, left : Ref, right : Ref] /\ e.key = k /\ e.left = x.left /\ e.right = x.right
  BY <1>1, <1>5
<1>3. u = [t EXCEPT ![n] = e] /\ t \in [Node -> [key : Key \cup {Nil}, left : Ref, right : Ref]]
  BY DEF Links, Took, e, x
<1> HIDE DEF u
<1>4. u \in Links /\ u[n] = e /\ \A w \in Node : w # n => u[w] = t[w]
  BY <1>2, <1>3 DEF Links
<1> QED BY <1>2, <1>4 DEF u, x

\* tree_insert_node where a node with an equal key gives way to the new one.
LEMMA InsertTrades ==
  ASSUME TreeOK, NEW n \in Node, NEW k \in Key, NEW dup \in BOOLEAN, n \notin Within(tn, root), root # Nil,
         NEW way, NEW at, way = Way(k, dup), at = Last(way), tn[at].key = k,
         Becomes(Relinked(Took(tn, at, n, k), root, Above(way), at, n), size, maxSize)
  PROVE  TreeOK' /\ Trades(n, k)
<1>1. /\ tn \in Forest /\ tn \in Links /\ root \in Node /\ root \in Ref /\ Distinct(InOrder(tn, root))
  BY TreeType
<1>2. Path(tn, Steer(k, dup), root, way)
  BY <1>1, WayIs
<1>3. Chain(tn, way) /\ way[1] = root /\ way[Len(way)] = at /\ at \in Node
  <2>1. Chain(tn, way) /\ way[1] = root
    BY <1>2 DEF Path
  <2>2. way[Len(way)] \in Node
    BY <2>1, ChainType
  <2> QED BY <2>1, <2>2 DEF Last
<1>4. Leads(tn, root, way, at)
  BY <1>1, <1>3 DEF Leads
<1> DEFINE v   == Took(tn, at, n, k)
           new == Relinked(v, root, Above(way), at, n)
<1>5. /\ v \in Links /\ v[n].key = k /\ v[n].left = tn[at].left /\ v[n].right = tn[at].right
      /\ \A w \in Node : w # n => v[w] = tn[w]
  <2> DEFINE s == tn
  <2>1. s \in Links /\ at \in Node /\ v = Took(s, at, n, k)
    BY <1>1, <1>3
  <2> HIDE DEF s, v
  <2>2. /\ v \in Links /\ v[n].key = k /\ v[n].left = s[at].left /\ v[n].right = s[at].right
        /\ \A w \in Node : w # n => v[w] = s[w]
    BY <2>1, TookIs
  <2> QED BY <2>2 DEF s
<1>6. Becomes(new, size, maxSize)
  OBVIOUS
<1> HIDE DEF v
<1>7. Double(tn, root, v, at, n)
  BY <1>1, <1>5 DEF Double
<1>8. Swapped(tn, root, v, new, at, n)
  BY <1>1, <1>4, <1>7, Swap
<1>9. \A w \in Node : w # n => v[w].key = tn[w].key
  BY <1>5
<1> HIDE DEF new
<1> QED BY <1>3, <1>5, <1>6, <1>8, <1>9, TradesNow

\* tree_insert and tree_insert_node keep the tree in order, the counts exact, and the
\* height within them; the new node comes after those that are not greater, or takes
\* the place of one with its key.
LEMMA InsertStep ==
  ASSUME TreeOK, NEW n \in Node, NEW k \in Key, NEW dup \in BOOLEAN, Insert(n, k, dup)
  PROVE  /\ TreeOK'
         /\ Gains(n, k, dup) \/ (~dup /\ Trades(n, k))
<1> DEFINE way  == Way(k, dup)
           at   == Last(way)
           sz   == size + 1
           new  == [tn EXCEPT ![n] = [Blank EXCEPT !.key = k]]
           took == [tn EXCEPT ![n] = [tn[at] EXCEPT !.key = k]]
           t    == IF GoesLeft(k, at) THEN [new EXCEPT ![at].left = n]
                   ELSE [new EXCEPT ![at].right = n]
           only == tn[at].left = Nil /\ tn[at].right = Nil
           out  == IF only /\ TooDeep(Len(way), sz) THEN Repaired(t, Append(way, n))
                   ELSE [tn |-> t, root |-> root]
<1>1. n \notin Within(tn, root)
  BY DEF Insert
<1>2. /\ root = Nil => Becomes([tn |-> new, root |-> n], 1, 1)
      /\ root # Nil /\ tn[at].key = k /\ ~dup =>
           Becomes(Relinked(took, root, IF Len(way) = 1 THEN Nil ELSE way[Len(way) - 1], at, n), size, maxSize)
      /\ root # Nil /\ ~(tn[at].key = k /\ ~dup) => Becomes(out, sz, Max({sz, maxSize}))
  BY DEF Insert
<1>3. CASE root = Nil
  <2>1. Becomes([tn |-> Fresh(tn, n, k), root |-> n], 1, 1)
    BY <1>2, <1>3 DEF Fresh
  <2> QED BY <1>3, <2>1, InsertFirst
<1>4. CASE root # Nil /\ tn[at].key = k /\ ~dup
  <2>1. Becomes(Relinked(Took(tn, at, n, k), root, Above(way), at, n), size, maxSize)
    BY <1>2, <1>4 DEF Took, Above
  <2>2. way = Way(k, dup) /\ at = Last(way) /\ tn[at].key = k
    BY <1>4
  <2> HIDE DEF way, at
  <2> QED BY <1>1, <1>4, <2>1, <2>2, InsertTrades
<1>5. CASE root # Nil /\ ~(tn[at].key = k /\ ~dup)
  <2>1. Becomes(out, size + 1, Max({sz, maxSize}))
    BY <1>2, <1>5
  <2>2. LeafStep(n, k, dup, way, at, GoesLeft(k, at), t, out, Max({sz, maxSize}))
    BY <1>5 DEF LeafStep, Hang, Fresh
  <2> HIDE DEF way, at, out, t, sz
  <2> QED BY <1>1, <1>5, <2>1, <2>2, InsertLeaf
<1> QED BY <1>3, <1>4, <1>5

-----------------------------------------------------------------------------
(* The operations.                                                         *)

\* A lookup finds a node of the tree.
LEMMA LookupWithin ==
  ASSUME TreeOK, NEW k, Lookup(k) # Nil
  PROVE  Lookup(k) \in Within(tn, root)
<1> DEFINE way == Way(k, FALSE)
<1>1. tn \in Forest /\ root \in Ref
  BY TreeType
<1>2. way # <<>> /\ Lookup(k) = way[Len(way)]
  BY DEF Lookup, Last
<1>3. root \in Node
  BY <1>1, <1>2, WayEq DEF Ref
<1>4. Path(tn, Steer(k, FALSE), root, way)
  BY <1>1, <1>3, WayIs
<1> HIDE DEF way
<1>5. Chain(tn, way) /\ way[1] = root
  BY <1>4 DEF Path
<1>6. Len(way) \in 1 .. Len(way) /\ 1 \in 1 .. Len(way)
  BY <1>5, ChainType
<1>7. way[Len(way)] \in Within(tn, way[1])
  BY <1>1, <1>5, <1>6, ChainWithin
<1> QED BY <1>2, <1>5, <1>7

\* A function from trees to sets of nodes, defined from its values on the children.
LEMMA SetRecursion ==
  ASSUME NEW t \in Forest, NEW G \in [Node -> [SUBSET Node -> [SUBSET Node -> SUBSET Node]]]
  PROVE  \E f \in [Ref -> SUBSET Node] :
           /\ f[Nil] = {}
           /\ \A x \in Node : f[x] = G[x][f[t[x].left]][f[t[x].right]]
<1> DEFINE V == SUBSET Node
           e == {}
<1>1. e \in V /\ G \in [Node -> [V -> [V -> V]]]
  OBVIOUS
<1> HIDE DEF V, e
<1>2. \E f \in [Ref -> V] : f[Nil] = e /\ \A x \in Node : f[x] = G[x][f[t[x].left]][f[t[x].right]]
  BY <1>1, TreeRecursion
<1> QED BY <1>2 DEF V, e

\* The search for a node to delete stays in the tree.
LEMMA SearchedWithin ==
  ASSUME TreeOK, NEW n
  PROVE  Searched(n) \subseteq Within(tn, root)
<1> DEFINE V == SUBSET Node
           k == tn[n].key
           P(x) == k > tn[x].key
           Q(x) == k < tn[x].key
           Step(x, a, c) == {x} \cup (IF P(x) THEN {} ELSE a) \cup (IF Q(x) THEN {} ELSE c)
           G == [x \in Node |-> [a \in V |-> [c \in V |-> Step(x, a, c)]]]
           Fix(f) == f = [x \in Ref |-> IF x = Nil THEN {}
                           ELSE Step(x, f[tn[x].left], f[tn[x].right])]
<1>1. tn \in Forest /\ root \in Ref /\ tn \in Links
  BY TreeType
<1>2. {} \in V /\ G \in [Node -> [V -> [V -> V]]]
  <2>1. \A x \in Node : \A a, c \in V : Step(x, a, c) \in V
    <3> HIDE DEF P, Q
    <3> QED OBVIOUS
  <2>2. {} \in V
    OBVIOUS
  <2> HIDE DEF V, Step
  <2> QED BY <2>1, <2>2
<1>3. PICK f \in [Ref -> V] : f[Nil] = {}
        /\ \A x \in Node : f[x] = G[x][f[tn[x].left]][f[tn[x].right]]
  BY <1>1, <1>2, SetRecursion
<1> HIDE DEF P, Q
<1>4. Fix(f)
  <2>1. \A x \in Ref : f[x] = IF x = Nil THEN {} ELSE Step(x, f[tn[x].left], f[tn[x].right])
    <3> HIDE DEF V, Step
    <3> SUFFICES ASSUME NEW x \in Ref, x # Nil PROVE f[x] = Step(x, f[tn[x].left], f[tn[x].right])
      BY <1>3
    <3>1. x \in Node
      BY DEF Ref
    <3>2. f[tn[x].left] \in V /\ f[tn[x].right] \in V
      BY <1>1, <3>1, LinksType
    <3> QED BY <1>3, <3>1, <3>2
  <2> HIDE DEF V, G, Step
  <2> QED BY <1>3, <2>1
<1> HIDE DEF G
<1> DEFINE W == CHOOSE g : Fix(g)
<1>5. Fix(W)
  BY <1>4
<1>6. Searched(n) = W[root]
  BY DEF Searched, P, Q
<1> HIDE DEF W
<1>7. /\ W[Nil] = {}
      /\ \A x \in Node : W[x] = Step(x, W[tn[x].left], W[tn[x].right])
  <2>1. \A x \in Ref : W[x] = IF x = Nil THEN {} ELSE Step(x, W[tn[x].left], W[tn[x].right])
    <3> HIDE DEF Step
    <3> QED BY <1>5
  <2>2. W[Nil] = {}
    BY <2>1 DEF Ref
  <2>3. ASSUME NEW x \in Node PROVE W[x] = Step(x, W[tn[x].left], W[tn[x].right])
    <3>1. x \in Ref /\ x # Nil
      BY NilAssumption DEF Ref
    <3> HIDE DEF Step
    <3> QED BY <2>1, <3>1
  <2> QED BY <2>2, <2>3
<1> HIDE DEF Fix
<1> DEFINE S == {x \in Ref : W[x] \subseteq Within(tn, x)}
<1>8. Nil \in S
  BY <1>7 DEF Ref
<1>9. ASSUME NEW x \in Node, tn[x].left \in S, tn[x].right \in S PROVE x \in S
  <2>1. W[x] = Step(x, W[tn[x].left], W[tn[x].right])
    BY <1>7
  <2>2. Within(tn, x) = Within(tn, tn[x].left) \cup {x} \cup Within(tn, tn[x].right)
    BY <1>1, WithinEq
  <2> QED BY <1>9, <2>1, <2>2 DEF Ref
<1>10. \A x \in Ref : x \in S
  <2> DEFINE t == tn
  <2>1. t \in Forest /\ \A x \in Node : t[x].left \in S /\ t[x].right \in S => x \in S
    BY <1>1, <1>9
  <2> HIDE DEF S, t
  <2> QED BY <1>8, <2>1, TreeInduction
<1> QED BY <1>1, <1>6, <1>10

\* tree_delete, tree_delete_node and tree_del_min_node take one node out of the tree, and
\* keep the counts exact and the height within them.
LEMMA DeleteStep ==
  ASSUME TreeOK, NEW k, Delete(k)
  PROVE  TreeOK' /\ Loses
<1> DEFINE n == Lookup(k)
<1>1. n \in Within(tn, root) /\ Removed(Spliced(n))
  BY LookupWithin DEF Delete
<1>2. tn \in Forest /\ root \in Ref /\ Distinct(InOrder(tn, root))
  BY TreeType
<1> HIDE DEF n
<1>3. Lacks(tn, root, Spliced(n), n)
  BY <1>1, <1>2, SplicedLacks
<1> QED BY <1>1, <1>3, RemovedLoses

\* tree_delete_specific_node takes one node out.
LEMMA DeleteSpecificStep ==
  ASSUME TreeOK, NEW n, DeleteSpecific(n)
  PROVE  TreeOK' /\ Loses
<1>1. n \in Within(tn, root) /\ Removed(Spliced(n))
  BY SearchedWithin DEF DeleteSpecific, Found
<1>2. tn \in Forest /\ root \in Ref /\ Distinct(InOrder(tn, root))
  BY TreeType
<1>3. Lacks(tn, root, Spliced(n), n)
  BY <1>1, <1>2, SplicedLacks
<1> QED BY <1>1, <1>3, RemovedLoses

\* tree_del_min_node takes one node out.
LEMMA DelMinStep ==
  ASSUME TreeOK, DelMin
  PROVE  TreeOK' /\ Loses
<1> DEFINE n   == Last(LeftSpine(tn, root))
           new == Relinked(tn, root, ParentOf(tn, n), n, tn[n].right)
<1>1. root # Nil /\ Removed(new)
  BY DEF DelMin
<1>2. tn \in Forest /\ root \in Ref /\ Distinct(InOrder(tn, root))
  BY TreeType
<1>3. n \in Within(tn, root) /\ Lacks(tn, root, new, n)
  BY <1>1, <1>2, MinLacks
<1> HIDE DEF n, new
<1> QED BY <1>1, <1>3, RemovedLoses

\* tree_clear leaves an empty tree.
Emptied == InOrder(tn', root') = <<>>

\* tree_clear empties the tree.
LEMMA ClearStep ==
  ASSUME TreeOK, Clear
  PROVE  TreeOK' /\ Emptied
<1> DEFINE new == [tn |-> tn, root |-> Nil]
<1>1. Becomes(new, 0, 0) /\ new.tn = tn /\ new.root = Nil
  BY DEF Clear
<1>2. tn \in Forest /\ InOrder(tn, Nil) = <<>> /\ Nil \in Ref
  BY TreeType, InOrderEq DEF Ref
<1> HIDE DEF new
<1>3. Now(new, 0, 0)
  BY <1>1, <1>2, BecomesNow
<1>4. tn' \in Forest /\ root' = Nil /\ size' = 0 /\ maxSize' = 0 /\ InOrder(tn', root') = <<>>
  BY <1>1, <1>2, <1>3 DEF Now
<1> DEFINE e == <<>>
<1>5. Len(e) = 0 /\ Distinct(e) /\ Ordered(tn', e)
  BY DEF Distinct, Ordered
<1>6. InOrder(tn', root') = e
  BY <1>4
<1> HIDE DEF e
<1>7. Shape(tn, root)'
  BY <1>2, <1>4, <1>5, <1>6 DEF Shape
<1>8. Sized(tn, root, size, maxSize)'
  BY <1>4, <1>5, <1>6 DEF Sized
<1> QED BY <1>4, <1>7, <1>8 DEF TreeOK, Emptied

-----------------------------------------------------------------------------
(* Iterators: the next node.                                               *)

\* All but the last element of a sequence.
LEMMA FrontIs ==
  ASSUME NEW V, NEW s \in Seq(V), 0 < Len(s)
  PROVE  /\ Front(s) \in Seq(V) /\ Len(Front(s)) = Len(s) - 1 /\ Len(s) \in Nat
         /\ \A i \in 1 .. Len(s) - 1 : Front(s)[i] = s[i]
<1> DEFINE m == Len(s) - 1
<1>1. m \in Nat /\ Len(s) \in Nat /\ m <= Len(s) /\ Front(s) = SubSeq(s, 1, m)
  BY DEF Front
<1> HIDE DEF m
<1>2. SubSeq(s, 1, m) \in Seq(V) /\ Len(SubSeq(s, 1, m)) = m /\ \A i \in 1 .. m : SubSeq(s, 1, m)[i] = s[i]
  BY <1>1
<1> QED BY <1>1, <1>2 DEF m

\* The way ws from the root ends in l, and path has the ancestors of l.
Carries(t, r, ws, path, l) ==
  /\ Chain(t, ws) /\ ws[1] = r /\ ws[Len(ws)] = l
  /\ path \in Seq(Node) /\ Len(ws) = Len(path) + 1
  /\ \A i \in 1 .. Len(path) : ws[i] = path[i]

\* The iterator it has passed the nodes a, and those of c are ahead.
Stands(t, r, it, a, c) ==
  \/ it.state = "visited_nothing" /\ it.path = <<>> /\ it.last = r /\ a = <<>>
  \/ /\ it.state = "find_low_prepared" /\ 0 < Len(c) /\ c[1] = it.last
     /\ \E ws : Carries(t, r, ws, it.path, it.last)
  \/ /\ it.state = "visited_left" /\ 0 < Len(a) /\ a[Len(a)] = it.last
     /\ \E ws : Carries(t, r, ws, it.path, it.last)

\* f says that the next node is the first of c, and how to go on from it.
Leading(f, c) ==
  /\ 0 < Len(c) => /\ f.node = c[1] /\ f.state = "visited_left"
                   /\ \E ws : Carries(tn, root, ws, f.path, f.node)
  /\ Len(c) = 0 => f.node = Nil /\ f.path = <<>>

\* tn_find_next from the root.
LEMMA NextFirst ==
  ASSUME TreeOK, NEW a \in Seq(Node), NEW c \in Seq(Node), InOrder(tn, root) = a \o c,
         NEW it, it.last # Nil, it.state = "visited_nothing", it.path = <<>>, it.last = root, a = <<>>
  PROVE  Leading(FindNext(it), c)
<1> DEFINE sp == LeftSpine(tn, root)
           y  == sp[Len(sp)]
           e  == <<>>
<1>1. tn \in Forest /\ root \in Node
  BY TreeType
<1>2. Chain(tn, sp) /\ sp[1] = root
      /\ \E rest \in Seq(Node) : InOrder(tn, root) = Join(<<>>, y, rest)
  BY <1>1, Spine
<1>3. FindNext(it) = [node |-> Last(sp), path |-> <<>> \o Front(sp), state |-> "visited_left"]
  BY DEF FindNext
<1>4. PICK rest \in Seq(Node) : InOrder(tn, root) = Join(<<>>, y, rest)
  BY <1>2
<1> HIDE DEF sp
<1>5. sp \in Seq(Node) /\ 0 < Len(sp) /\ y \in Node
  BY <1>2, ChainType DEF Chain
<1>6. Front(sp) \in Seq(Node) /\ Len(Front(sp)) = Len(sp) - 1 /\ Len(sp) \in Nat
      /\ \A i \in 1 .. Len(sp) - 1 : Front(sp)[i] = sp[i]
  BY <1>5, FrontIs
<1>7. <<>> \o Front(sp) = Front(sp)
  BY <1>6, ConcatEmptySeq
<1>8. Carries(tn, root, sp, Front(sp), y)
  BY <1>2, <1>6 DEF Carries
<1>9. c = Join(<<>>, y, rest)
  BY <1>4, ConcatEmptySeq
<1>10. 0 < Len(c) /\ c[1] = y
  <2>1. e \in Seq(Node) /\ Len(e) = 0
    OBVIOUS
  <2> HIDE DEF e
  <2>2. Divided(Join(e, y, rest), e, y, rest)
    BY <1>5, <2>1, JoinDivided
  <2>3. c = Join(e, y, rest)
    BY <1>9 DEF e
  <2> QED BY <2>1, <2>2, <2>3 DEF Divided
<1> HIDE DEF y
<1>11. FindNext(it).node = y /\ FindNext(it).path = Front(sp) /\ FindNext(it).state = "visited_left"
  BY <1>3, <1>7 DEF Last, y
<1> QED BY <1>8, <1>10, <1>11 DEF Leading

\* What is ahead of the last node: its right subtree and what follows the subtree of it.
Beyond(ws, c) ==
  \E pre, post \in Seq(Node) :
    /\ NextTo(tn, ws, 1, pre, post)
    /\ c = InOrder(tn, tn[ws[Len(ws)]].right) \o post

\* At the end of a way, the nodes that follow lie beyond it.
LEMMA Ahead ==
  ASSUME TreeOK, NEW a \in Seq(Node), NEW c \in Seq(Node), InOrder(tn, root) = a \o c,
         NEW ws, Chain(tn, ws), ws[1] = root, 0 < Len(a), a[Len(a)] = ws[Len(ws)]
  PROVE  Beyond(ws, c)
<1> DEFINE n == ws[Len(ws)]
           L == InOrder(tn, tn[n].left)
           R == InOrder(tn, tn[n].right)
           d == Front(a)
<1>1. tn \in Forest /\ Distinct(InOrder(tn, root))
  BY TreeType
<1>2. PICK pre, post \in Seq(Node) :
        /\ InOrder(tn, root) = Wrap(pre, InOrder(tn, n), post)
        /\ NextTo(tn, ws, 1, pre, post)
  BY <1>1, ChainSplit
<1>3. n \in Node
  BY ChainType
<1>4. L \in Seq(Node) /\ R \in Seq(Node) /\ InOrder(tn, n) = Join(L, n, R)
  BY <1>1, <1>3, InOrderJoin
<1> HIDE DEF n, L, R
<1>5. Wraps(Node, pre, L, n, R, post)
  BY <1>3, <1>4, WrapsJoin
<1>6. InOrder(tn, root) = Join(pre \o L, n, R \o post) /\ pre \o L \in Seq(Node) /\ R \o post \in Seq(Node)
  BY <1>2, <1>4, <1>5 DEF Wraps
<1>7. d \in Seq(Node) /\ a \o c = Join(d, n, c)
  <2>1. d \in Seq(Node) /\ a = d \o <<n>>
    <3>1. d \in Seq(Node) /\ Len(d) = Len(a) - 1 /\ Len(a) \in Nat /\ \A i \in 1 .. Len(a) - 1 : d[i] = a[i]
      BY FrontIs
    <3>2. a[Len(a)] = n
      BY DEF n
    <3> HIDE DEF d
    <3>3. d \o <<n>> \in Seq(Node) /\ Len(d \o <<n>>) = Len(a)
      BY <1>3, <3>1
    <3>4. \A i \in 1 .. Len(a) : (d \o <<n>>)[i] = a[i]
      BY <1>3, <3>1, <3>2
    <3>5. d \o <<n>> = a
      <4> DEFINE z == d \o <<n>>
      <4>1. z \in Seq(Node) /\ Len(z) = Len(a) /\ \A i \in 1 .. Len(z) : z[i] = a[i]
        BY <3>3, <3>4
      <4> HIDE DEF z
      <4>2. z = a
        BY <4>1, SameSeq
      <4> QED BY <4>2 DEF z
    <3> QED BY <3>1, <3>5
  <2> HIDE DEF d
  <2> QED BY <2>1 DEF Join
<1> HIDE DEF d
<1> DEFINE p == pre \o L
           q == R \o post
<1>8. Distinct(Join(d, n, c)) /\ Join(d, n, c) = Join(p, n, q) /\ p \in Seq(Node) /\ q \in Seq(Node)
  BY <1>1, <1>6, <1>7
<1> HIDE DEF p, q
<1>9. c = q
  BY <1>3, <1>7, <1>8, SplitUnique
<1> QED BY <1>2, <1>9 DEF q, R, n, Beyond

\* tn_find_next to the right subtree.
LEMMA NextBelow ==
  ASSUME TreeOK, NEW a \in Seq(Node), NEW c \in Seq(Node), InOrder(tn, root) = a \o c,
         NEW it, it.state = "visited_left", 0 < Len(a), a[Len(a)] = it.last,
         NEW ws, Carries(tn, root, ws, it.path, it.last), tn[it.last].right # Nil
  PROVE  Leading(FindNext(it), c)
<1> DEFINE n  == it.last
           r  == tn[n].right
           sp == LeftSpine(tn, r)
           y  == sp[Len(sp)]
           zs == ws \o sp
           e  == <<>>
<1>1. tn \in Forest /\ root \in Ref /\ Distinct(InOrder(tn, root))
  BY TreeType
<1>2. Chain(tn, ws) /\ ws[1] = root /\ ws[Len(ws)] = n /\ n \in Node
  BY ChainType DEF Carries
<1>3. Leads(tn, root, ws, n)
  BY <1>1, <1>2 DEF Leads
<1>4. /\ Leads(tn, root, zs, y) /\ y \in Node
      /\ \E rest \in Seq(Node) : InOrder(tn, r) = Join(<<>>, y, rest)
  <2> HIDE DEF n
  <2> QED BY <1>1, <1>3, ToSuccessor DEF n
<1>5. PICK rest \in Seq(Node) : InOrder(tn, r) = Join(<<>>, y, rest)
  BY <1>4
<1>6. PICK post \in Seq(Node) : c = InOrder(tn, r) \o post
  <2>1. a[Len(a)] = ws[Len(ws)]
    BY <1>2
  <2> HIDE DEF n, r, sp, y, zs
  <2>2. Beyond(ws, c)
    BY <1>2, <2>1, Ahead
  <2> QED BY <1>2, <2>2 DEF Beyond, r
<1>7. r \in Node
  BY <1>1, <1>2, LinksType DEF Forest, Ref
<1>8. Chain(tn, sp)
  BY <1>1, <1>7, Spine
<1>9. FindNext(it) = [node |-> Last(sp), path |-> Append(it.path, n) \o Front(sp), state |-> "visited_left"]
  BY <1>2, NilAssumption DEF FindNext
<1> HIDE DEF sp, r, n
<1>10. sp \in Seq(Node) /\ 0 < Len(sp) /\ Len(sp) \in Nat /\ ws \in Seq(Node) /\ 0 < Len(ws) /\ Len(ws) \in Nat
  BY <1>2, <1>8, ChainType DEF Chain
<1>11. Append(it.path, n) = ws
  <2> DEFINE z == Append(it.path, n)
  <2>1. it.path \in Seq(Node) /\ Len(ws) = Len(it.path) + 1 /\ (\A i \in 1 .. Len(it.path) : ws[i] = it.path[i])
        /\ ws[Len(ws)] = n
    BY DEF Carries, n
  <2>2. z \in Seq(Node) /\ Len(z) = Len(ws)
    BY <1>2, <2>1
  <2>3. \A i \in 1 .. Len(z) : z[i] = ws[i]
    BY <1>2, <2>1
  <2> HIDE DEF z
  <2>4. z = ws
    BY <1>10, <2>2, <2>3, SameSeq
  <2> QED BY <2>4 DEF z
<1> DEFINE fr == Front(sp)
           pt == ws \o fr
<1>12. fr \in Seq(Node) /\ Len(fr) = Len(sp) - 1 /\ \A i \in 1 .. Len(sp) - 1 : fr[i] = sp[i]
  BY <1>10, FrontIs
<1> HIDE DEF fr
<1>13. Carries(tn, root, zs, pt, y)
  <2>1. Chain(tn, zs) /\ zs[1] = root /\ zs[Len(zs)] = y
    BY <1>4 DEF Leads
  <2>2. pt \in Seq(Node) /\ Len(zs) = Len(pt) + 1 /\ \A i \in 1 .. Len(pt) : zs[i] = pt[i]
    <3>1. /\ zs \in Seq(Node) /\ Len(zs) = Len(ws) + Len(sp)
          /\ \A i \in 1 .. Len(ws) : zs[i] = ws[i]
          /\ \A i \in 1 .. Len(sp) : zs[Len(ws) + i] = sp[i]
      BY <1>10, ConcatIs
    <3>2. /\ pt \in Seq(Node) /\ Len(pt) = Len(ws) + Len(fr)
          /\ \A i \in 1 .. Len(ws) : pt[i] = ws[i]
          /\ \A i \in 1 .. Len(fr) : pt[Len(ws) + i] = fr[i]
      <4>1. fr \in Seq(Node) /\ ws \in Seq(Node)
        BY <1>10, <1>12
      <4> QED BY <4>1, ConcatIs
    <3> HIDE DEF zs, pt
    <3>3. ASSUME NEW i \in 1 .. Len(pt) PROVE zs[i] = pt[i]
      <4>1. CASE i \in 1 .. Len(ws)
        BY <3>1, <3>2, <4>1
      <4>2. CASE i \notin 1 .. Len(ws)
        <5>1. i - Len(ws) \in 1 .. Len(fr) /\ i - Len(ws) \in 1 .. Len(sp) - 1 /\ i - Len(ws) \in 1 .. Len(sp)
              /\ Len(ws) + (i - Len(ws)) = i
          BY <1>10, <1>12, <3>2, <4>2
        <5>2. zs[Len(ws) + (i - Len(ws))] = sp[i - Len(ws)]
          BY <3>1, <5>1
        <5>3. pt[Len(ws) + (i - Len(ws))] = fr[i - Len(ws)]
          BY <3>2, <5>1
        <5> QED BY <1>12, <5>1, <5>2, <5>3
      <4> QED BY <4>1, <4>2
    <3> QED BY <1>10, <1>12, <3>1, <3>2, <3>3
  <2> HIDE DEF zs, pt, y
  <2> QED BY <2>1, <2>2 DEF Carries
<1>14. FindNext(it).node = y /\ FindNext(it).path = pt /\ FindNext(it).state = "visited_left"
  BY <1>9, <1>11 DEF Last, fr
<1>15. 0 < Len(c) /\ c[1] = y
  <2> DEFINE b == Join(e, y, rest)
  <2>1. e \in Seq(Node) /\ Len(e) = 0
    OBVIOUS
  <2>2. c = b \o post
    BY <1>5, <1>6
  <2> HIDE DEF e, y
  <2>3. Divided(b, e, y, rest) /\ b \in Seq(Node)
    BY <1>4, <2>1, JoinDivided
  <2> HIDE DEF b
  <2>4. 0 < Len(b) /\ b[1] = y
    BY <2>1, <2>3 DEF Divided
  <2> QED BY <2>2, <2>3, <2>4
<1> HIDE DEF zs, pt, y
<1> QED BY <1>13, <1>14, <1>15 DEF Leading

\* tn_find_next back up the path, past the nodes that were left from their right.
LEMMA NextAbove ==
  ASSUME TreeOK, NEW a \in Seq(Node), NEW c \in Seq(Node), InOrder(tn, root) = a \o c,
         NEW it, it.state = "visited_left", 0 < Len(a), a[Len(a)] = it.last,
         NEW ws, Carries(tn, root, ws, it.path, it.last), tn[it.last].right = Nil
  PROVE  Leading(FindNext(it), c)
<1> DEFINE p  == it.path
           up == {j \in DOMAIN it.path :
                    (IF j = Len(it.path) THEN it.last ELSE it.path[j + 1]) # tn[it.path[j]].right}
           on == 1 .. Len(ws) - 1
           J  == {j \in on : ~Right(tn, ws, j)}
           m  == Max(J)
<1>1. tn \in Forest /\ root \in Ref
  BY TreeType
<1>2. /\ Chain(tn, ws) /\ ws[1] = root /\ ws[Len(ws)] = it.last
      /\ p \in Seq(Node) /\ Len(ws) = Len(p) + 1 /\ Len(p) \in Nat
      /\ \A i \in 1 .. Len(p) : ws[i] = p[i]
  BY DEF Carries
<1>3. PICK pre, post \in Seq(Node) : NextTo(tn, ws, 1, pre, post) /\ c = post
  <2>1. a[Len(a)] = ws[Len(ws)]
    BY <1>2
  <2>2. Beyond(ws, c)
    BY <1>2, <2>1, Ahead
  <2>3. PICK pre, post \in Seq(Node) :
          NextTo(tn, ws, 1, pre, post) /\ c = InOrder(tn, tn[ws[Len(ws)]].right) \o post
    BY <2>2 DEF Beyond
  <2>4. InOrder(tn, tn[ws[Len(ws)]].right) = <<>>
    BY <1>1, <1>2, InOrderEq
  <2>5. c = post
    BY <2>3, <2>4, ConcatEmptySeq
  <2> QED BY <2>3, <2>5
<1>4. up = J
  <2>1. DOMAIN p = on
    BY <1>2
  <2>2. ASSUME NEW j \in on
        PROVE  p[j] = ws[j] /\ (IF j = Len(p) THEN it.last ELSE p[j + 1]) = ws[j + 1]
    <3>1. j \in 1 .. Len(p) /\ (j # Len(p) => j + 1 \in 1 .. Len(p))
      BY <1>2
    <3>2. j = Len(p) => ws[j + 1] = it.last
      BY <1>2
    <3> QED BY <1>2, <3>1, <3>2
  <2>3. up = {j \in on : ws[j + 1] # tn[ws[j]].right}
    <3> HIDE DEF on
    <3> QED BY <2>1, <2>2
  <2> QED BY <2>3 DEF Right
<1>5. FindNext(it) = IF up = {} THEN [node |-> Nil, path |-> <<>>, state |-> it.state]
                     ELSE [node |-> p[Max(up)], path |-> SubSeq(p, 1, Max(up) - 1), state |-> "visited_left"]
  BY DEF FindNext
<1>6. on \subseteq Nat /\ Len(ws) - 1 \in Nat /\ \A j \in on : j <= Len(ws) - 1
  BY <1>2
<1> HIDE DEF up
<1>7. CASE J = {}
  <2>1. \A j \in on : Right(tn, ws, j)
    BY <1>7
  <2>2. c = <<>>
    BY <1>3, <2>1 DEF NextTo
  <2>3. FindNext(it).node = Nil /\ FindNext(it).path = <<>>
    BY <1>4, <1>5, <1>7
  <2> QED BY <2>2, <2>3 DEF Leading
<1>8. CASE J # {}
  <2>1. m \in J /\ \A j \in J : j <= m
    <3>1. J \subseteq Nat /\ \A j \in J : j <= Len(ws) - 1
      BY <1>6
    <3> HIDE DEF J
    <3> QED BY <1>6, <1>8, <3>1, MaxOfSet
  <2> HIDE DEF m, J
  <2>2. m \in on /\ ~Right(tn, ws, m) /\ \A j \in on : j > m => Right(tn, ws, j)
    <3>1. m \in on /\ ~Right(tn, ws, m)
      BY <2>1 DEF J
    <3>2. ASSUME NEW j \in on, j > m PROVE Right(tn, ws, j)
      <4> SUFFICES ASSUME ~Right(tn, ws, j) PROVE FALSE
        OBVIOUS
      <4>1. j <= m
        BY <2>1 DEF J
      <4> QED BY <1>6, <3>1, <3>2, <4>1
    <3> QED BY <3>1, <3>2
  <2>3. 0 < Len(c) /\ c[1] = ws[m]
    BY <1>3, <2>2 DEF NextTo
  <2>4. m \in 1 .. Len(ws) /\ m \in 1 .. Len(p) /\ m - 1 \in Nat /\ m \in Nat
    BY <1>2, <2>2
  <2> DEFINE q  == SubSeq(p, 1, m - 1)
             ys == SubSeq(ws, 1, m)
  <2>5. FindNext(it).node = ws[m] /\ FindNext(it).path = q /\ FindNext(it).state = "visited_left"
    <3>1. FindNext(it) = [node |-> p[m], path |-> q, state |-> "visited_left"]
      BY <1>4, <1>5, <1>8 DEF m
    <3>2. p[m] = ws[m]
      BY <1>2, <2>4
    <3> HIDE DEF q
    <3> QED BY <3>1, <3>2
  <2>6. Chain(tn, ys) /\ Len(ys) = m /\ ys[1] = ws[1] /\ ys[Len(ys)] = ws[m]
    BY <1>2, <2>4, Prefix
  <2>7. q \in Seq(Node) /\ Len(q) = m - 1 /\ \A i \in 1 .. m - 1 : q[i] = p[i]
    <3> DEFINE k == m - 1
    <3>1. k \in Nat /\ k <= Len(p) /\ p \in Seq(Node)
      BY <1>2, <2>4
    <3> HIDE DEF k, p
    <3>2. SubSeq(p, 1, k) \in Seq(Node) /\ Len(SubSeq(p, 1, k)) = k /\ \A i \in 1 .. k : SubSeq(p, 1, k)[i] = p[i]
      BY <3>1
    <3> QED BY <3>2 DEF k
  <2>8. \A i \in 1 .. m - 1 : ys[i] = ws[i] /\ ws[i] = p[i]
    <3>1. \A i \in 1 .. m : SubSeq(ws, 1, m)[i] = ws[i]
      <4>1. ws \in Seq(Node) /\ m \in Nat /\ m <= Len(ws)
        BY <1>2, <2>4 DEF Chain
      <4> QED BY <4>1
    <3>2. \A i \in 1 .. m - 1 : i \in 1 .. m /\ i \in 1 .. Len(p)
      BY <2>4
    <3> QED BY <1>2, <3>1, <3>2
  <2> HIDE DEF q, ys
  <2>9. Carries(tn, root, ys, q, ws[m])
    <3>1. Len(ys) = Len(q) + 1
      BY <2>4, <2>6, <2>7
    <3> QED BY <1>2, <2>6, <2>7, <2>8, <3>1 DEF Carries
  <2> QED BY <2>3, <2>5, <2>9 DEF Leading
<1> QED BY <1>7, <1>8

\* tn_find_next leads to the first of the nodes that are ahead.
LEMMA NextIs ==
  ASSUME TreeOK, NEW a \in Seq(Node), NEW c \in Seq(Node), InOrder(tn, root) = a \o c,
         NEW it, it.last # Nil, Stands(tn, root, it, a, c)
  PROVE  Leading(FindNext(it), c)
<1>1. CASE it.state = "visited_nothing" /\ it.path = <<>> /\ it.last = root /\ a = <<>>
  BY <1>1, NextFirst
<1>2. CASE /\ it.state = "find_low_prepared" /\ 0 < Len(c) /\ c[1] = it.last
           /\ \E ws : Carries(tn, root, ws, it.path, it.last)
  <2>1. FindNext(it) = [node |-> it.last, path |-> it.path, state |-> "visited_left"]
    BY <1>2 DEF FindNext
  <2>2. FindNext(it).node = c[1] /\ FindNext(it).path = it.path /\ FindNext(it).state = "visited_left"
    BY <1>2, <2>1
  <2> QED BY <1>2, <2>2 DEF Leading
<1>3. CASE /\ it.state = "visited_left" /\ 0 < Len(a) /\ a[Len(a)] = it.last
           /\ \E ws : Carries(tn, root, ws, it.path, it.last)
  <2>1. PICK ws : Carries(tn, root, ws, it.path, it.last)
    BY <1>3
  <2> QED BY <1>3, <2>1, NextBelow, NextAbove
<1> QED BY <1>1, <1>2, <1>3 DEF Stands

-----------------------------------------------------------------------------
(* Where an iterator stands.                                               *)

\* The first of the nodes c has passed to those in front.
Shifted(V, a, c, b, d) ==
  /\ b \in Seq(V) /\ d \in Seq(V) /\ a \o c = b \o d
  /\ 0 < Len(b) /\ b[Len(b)] = c[1]
  /\ Range(c) = {c[1]} \cup Range(d)

\* The first of the remaining nodes is passed.
LEMMA Shift ==
  ASSUME NEW V, NEW a \in Seq(V), NEW c \in Seq(V), 0 < Len(c)
  PROVE  \E b, d : Shifted(V, a, c, b, d)
<1> DEFINE y == c[1]
           d == Tail(c)
           b == Append(a, y)
           s == a \o c
           z == b \o d
<1>1. Len(c) \in Nat /\ Len(a) \in Nat /\ y \in V
  OBVIOUS
<1>2. d \in Seq(V) /\ Len(d) = Len(c) - 1 /\ (\A i \in 1 .. Len(c) - 1 : d[i] = c[i + 1]) /\ Len(d) \in Nat
  OBVIOUS
<1>3. b \in Seq(V) /\ Len(b) = Len(a) + 1 /\ b[Len(a) + 1] = y /\ \A i \in 1 .. Len(a) : b[i] = a[i]
  BY <1>1
<1> HIDE DEF d, b
<1>4. /\ s \in Seq(V) /\ Len(s) = Len(a) + Len(c)
      /\ \A i \in 1 .. Len(a) : s[i] = a[i]
      /\ \A i \in 1 .. Len(c) : s[Len(a) + i] = c[i]
  BY ConcatIs
<1>5. /\ z \in Seq(V) /\ Len(z) = Len(b) + Len(d)
      /\ \A i \in 1 .. Len(b) : z[i] = b[i]
      /\ \A i \in 1 .. Len(d) : z[Len(b) + i] = d[i]
  <2>1. b \in Seq(V) /\ d \in Seq(V)
    BY <1>2, <1>3
  <2> QED BY <2>1, ConcatIs
<1> HIDE DEF s, z
<1>6. Len(s) = Len(z)
  BY <1>1, <1>2, <1>3, <1>4, <1>5
<1>7. ASSUME NEW i \in 1 .. Len(s) PROVE s[i] = z[i]
  <2>1. CASE i \in 1 .. Len(a)
    <3>1. i \in 1 .. Len(b)
      BY <1>1, <1>3, <2>1
    <3> QED BY <1>3, <1>4, <1>5, <2>1, <3>1
  <2>2. CASE i = Len(a) + 1
    <3>1. i \in 1 .. Len(b) /\ 1 \in 1 .. Len(c)
      BY <1>1, <1>3, <2>2
    <3>2. s[Len(a) + 1] = c[1]
      BY <1>4, <3>1
    <3> QED BY <1>3, <1>5, <2>2, <3>1, <3>2
  <2>3. CASE i \notin 1 .. Len(a) /\ i # Len(a) + 1
    <3> DEFINE j == i - Len(b)
    <3>1. j \in 1 .. Len(d) /\ j \in 1 .. Len(c) - 1 /\ j + 1 \in 1 .. Len(c) /\ Len(b) + j = i /\ Len(a) + (j + 1) = i
      BY <1>1, <1>2, <1>3, <1>4, <2>3
    <3> HIDE DEF j
    <3>2. s[Len(a) + (j + 1)] = c[j + 1]
      BY <1>4, <3>1
    <3>3. z[Len(b) + j] = d[j]
      BY <1>5, <3>1
    <3>4. d[j] = c[j + 1]
      BY <1>2, <3>1
    <3> QED BY <3>1, <3>2, <3>3, <3>4
  <2> QED BY <2>1, <2>2, <2>3
<1>8. s = z
  BY <1>4, <1>5, <1>6, <1>7, SameSeq
<1>9. Range(c) = {y} \cup Range(d)
  <2>1. ASSUME NEW w \in Range(c) PROVE w \in {y} \cup Range(d)
    <3>1. PICK i \in 1 .. Len(c) : w = c[i]
      BY DEF Range
    <3>2. CASE i = 1
      BY <3>1, <3>2
    <3>3. CASE i # 1
      <4>1. i - 1 \in 1 .. Len(d) /\ i - 1 \in 1 .. Len(c) - 1 /\ (i - 1) + 1 = i
        BY <1>1, <1>2, <3>3
      <4>2. d[i - 1] = c[(i - 1) + 1]
        BY <1>2, <4>1
      <4>3. d[i - 1] \in Range(d)
        BY <1>2, <4>1 DEF Range
      <4> QED BY <3>1, <4>1, <4>2, <4>3
    <3> QED BY <3>2, <3>3
  <2>2. ASSUME NEW w \in Range(d) PROVE w \in Range(c)
    <3>1. PICK i \in 1 .. Len(d) : w = d[i]
      BY <1>2 DEF Range
    <3>2. i \in 1 .. Len(c) - 1 /\ i + 1 \in 1 .. Len(c)
      BY <1>1, <1>2
    <3>3. w = c[i + 1]
      BY <1>2, <3>1, <3>2
    <3> QED BY <3>2, <3>3 DEF Range
  <2>3. y \in Range(c)
    <3>1. 1 \in 1 .. Len(c)
      BY <1>1
    <3> QED BY <3>1 DEF Range
  <2> QED BY <2>1, <2>2, <2>3
<1>10. Shifted(V, a, c, b, d)
  BY <1>1, <1>2, <1>3, <1>8, <1>9 DEF Shifted, s, z
<1> QED BY <1>10

\* The nodes of c that a traversal up to high visits.
Rest(t, high, c) == {x \in Range(c) : high = Nil \/ t[x].key < high}

\* The iterator it has room for its path, and is to visit the nodes ahead.
IterOK(t, r, it) ==
  /\ it.path \in Seq(Node) /\ Len(it.path) <= Height(t, r)
  /\ it.high \in Key \cup {Nil}
  /\ it.last = Nil => it.todo = {}
  /\ it.last # Nil => \E a, c \in Seq(Node) : /\ InOrder(t, r) = a \o c
                                              /\ it.todo = Rest(t, it.high, c)
                                              /\ Stands(t, r, it, a, c)

\* The ancestors of a node are fewer than the height.
LEMMA CarriesLow ==
  ASSUME TreeOK, NEW ws, NEW path, NEW l, Carries(tn, root, ws, path, l)
  PROVE  path \in Seq(Node) /\ Len(path) < Height(tn, root) /\ Height(tn, root) \in Nat /\ l \in Node
<1> DEFINE d == Len(ws)
           g == Height(tn, ws[d])
           h == Height(tn, root)
<1>1. /\ Chain(tn, ws) /\ ws[1] = root /\ path \in Seq(Node) /\ d = Len(path) + 1 /\ ws[d] = l
  BY DEF Carries
<1>2. d \in 1 .. d /\ ws[d] \in Node /\ Len(path) \in Nat /\ d \in Nat
  BY <1>1, ChainType
<1>3. tn \in Forest /\ root \in Ref /\ h \in Nat
  BY TreeType, HeightEq
<1>4. g + (d - 1) <= h
  BY <1>1, <1>2, <1>3, ChainHeight
<1>5. g \in Nat /\ Height(tn, tn[ws[d]].left) \in Nat /\ Height(tn, tn[ws[d]].left) < g
  BY <1>2, <1>3, HeightNode
<1> HIDE DEF d, g, h
<1>6. Len(path) < h
  BY <1>1, <1>2, <1>3, <1>4, <1>5
<1> QED BY <1>1, <1>2, <1>3, <1>6 DEF h

\* The first node ahead has the least key there, and stands nowhere else.
Least(c) ==
  \A x \in Range(c) : /\ x \in Node /\ tn[x].key \in Nat /\ tn[c[1]].key \in Nat
                      /\ tn[c[1]].key <= tn[x].key

\* The nodes that follow are in order, without repetition, and none has been passed.
LEMMA LeastAhead ==
  ASSUME TreeOK, NEW a \in Seq(Node), NEW c \in Seq(Node), InOrder(tn, root) = a \o c
  PROVE  Least(c) /\ Distinct(c) /\ Range(a) \cap Range(c) = {}
<1>1. tn \in Links /\ Ordered(tn, a \o c) /\ Distinct(a \o c)
  BY TreeType
<1>2. Distinct(c) /\ Range(a) \cap Range(c) = {}
  BY <1>1, DistinctConcat
<1>3. \A i \in 1 .. Len(c) : tn[c[i]].key \in Key /\ tn[c[1]].key <= tn[c[i]].key
  BY <1>1, OrderedEnds
<1>4. ASSUME NEW x \in Range(c)
      PROVE  x \in Node /\ tn[x].key \in Nat /\ tn[c[1]].key \in Nat /\ tn[c[1]].key <= tn[x].key
  <2>1. PICK i \in 1 .. Len(c) : x = c[i]
    BY DEF Range
  <2>2. 1 \in 1 .. Len(c) /\ c[i] \in Node
    OBVIOUS
  <2> QED BY <1>3, <2>1, <2>2, KeyAssumption
<1> QED BY <1>2, <1>4 DEF Least

\* The first node of a set that begins with what follows.
LEMMA FirstIs ==
  ASSUME TreeOK, NEW a \in Seq(Node), NEW c \in Seq(Node), InOrder(tn, root) = a \o c, 0 < Len(c),
         NEW S, S \subseteq Range(c), c[1] \in S
  PROVE  First(S) = c[1]
<1> DEFINE s == InOrder(tn, root)
           T == {i \in DOMAIN s : s[i] \in S}
           k == Len(a) + 1
<1>1. First(S) = s[Min(T)]
  BY DEF First
<1>2. /\ s \in Seq(Node) /\ Len(s) = Len(a) + Len(c) /\ Len(a) \in Nat /\ Len(c) \in Nat
      /\ \A i \in 1 .. Len(a) : s[i] = a[i]
      /\ \A i \in 1 .. Len(c) : s[Len(a) + i] = c[i]
  BY ConcatIs
<1>3. Range(a) \cap Range(c) = {}
  BY LeastAhead
<1> HIDE DEF s
<1>4. k \in T /\ s[k] = c[1]
  <2>1. 1 \in 1 .. Len(c) /\ k \in 1 .. Len(s)
    BY <1>2
  <2>2. s[k] = c[1]
    BY <1>2, <2>1
  <2> QED BY <1>2, <2>1, <2>2
<1>5. T \subseteq Nat /\ T # {}
  <2>1. DOMAIN s = 1 .. Len(s)
    BY <1>2
  <2>2. DOMAIN s \subseteq Nat
    BY <2>1
  <2> QED BY <1>4, <2>2
<1>6. \A i \in T : k <= i
  <2> TAKE i \in T
  <2> SUFFICES ASSUME ~(k <= i) PROVE FALSE
    OBVIOUS
  <2>1. i \in 1 .. Len(a)
    BY <1>2
  <2>2. s[i] \in Range(a)
    <3>1. s[i] = a[i] /\ i \in DOMAIN a
      BY <1>2, <2>1
    <3> HIDE DEF T
    <3> QED BY <3>1 DEF Range
  <2>3. s[i] \in Range(c)
    OBVIOUS
  <2> QED BY <1>3, <2>2, <2>3
<1> HIDE DEF T
<1>7. Min(T) \in T /\ \A x \in T : Min(T) <= x
  BY <1>5, MinOfSet
<1>8. Min(T) = k
  <2>1. Min(T) <= k /\ k <= Min(T) /\ Min(T) \in Nat /\ k \in Nat
    BY <1>2, <1>4, <1>5, <1>6, <1>7
  <2> HIDE DEF k
  <2> QED BY <2>1
<1> QED BY <1>1, <1>4, <1>8

\* tree_next takes the iterator it to new.
Goes(it, new, f) ==
  /\ f = FindNext(it) /\ new.path = f.path /\ new.state = f.state /\ new.high = it.high
  /\ new.last = IF Below(f.node, it.high) THEN f.node ELSE Nil
  /\ new.todo = it.todo \ {f.node}

\* tree_next keeps an iterator in its place between the nodes visited and the others.
LEMMA NextOK ==
  ASSUME TreeOK, NEW it, IterOK(tn, root, it), it.last # Nil, NEW new, NEW f, Goes(it, new, f)
  PROVE  IterOK(tn, root, new)
<1> DEFINE hi == it.high
           h  == Height(tn, root)
<1>1. PICK a, c \in Seq(Node) :
        InOrder(tn, root) = a \o c /\ it.todo = Rest(tn, hi, c) /\ Stands(tn, root, it, a, c)
  BY DEF IterOK
<1>2. Leading(f, c)
  BY <1>1, NextIs DEF Goes
<1>3. /\ new.path = f.path /\ new.state = f.state /\ new.high = hi
      /\ new.last = IF Below(f.node, hi) THEN f.node ELSE Nil
      /\ new.todo = Rest(tn, hi, c) \ {f.node}
      /\ hi \in Key \cup {Nil} /\ h \in Nat
  <2>1. h \in Nat
    BY TreeType, HeightEq
  <2> QED BY <1>1, <2>1 DEF Goes, IterOK
<1> HIDE DEF hi
<1>4. CASE Len(c) = 0
  <2>1. f.node = Nil /\ f.path = <<>>
    BY <1>2, <1>4 DEF Leading
  <2>2. Range(c) = {}
    BY <1>4 DEF Range
  <2>3. new.todo = {} /\ new.last = Nil /\ new.path = <<>>
    BY <1>3, <2>1, <2>2 DEF Rest
  <2>4. new.path \in Seq(Node) /\ Len(new.path) <= h
    BY <1>3, <2>3
  <2> QED BY <1>3, <2>3, <2>4 DEF IterOK
<1>5. CASE Len(c) # 0
  <2> DEFINE y == c[1]
  <2>1. 0 < Len(c) /\ Len(c) \in Nat
    BY <1>5
  <2>2. f.node = y /\ f.state = "visited_left" /\ \E ws : Carries(tn, root, ws, f.path, y)
    BY <1>2, <2>1 DEF Leading
  <2>3. new.path \in Seq(Node) /\ Len(new.path) <= h /\ y \in Node
    <3>1. PICK ws : Carries(tn, root, ws, f.path, y)
      BY <2>2
    <3>2. f.path \in Seq(Node) /\ Len(f.path) < h /\ y \in Node
      BY <3>1, CarriesLow
    <3> QED BY <1>3, <3>2
  <2>4. Least(c) /\ Distinct(c)
    BY <1>1, LeastAhead
  <2>5. CASE Below(y, hi)
    <3>1. PICK b, d : Shifted(Node, a, c, b, d)
      BY <2>1, Shift
    <3>2. /\ b \in Seq(Node) /\ d \in Seq(Node) /\ InOrder(tn, root) = b \o d
          /\ 0 < Len(b) /\ b[Len(b)] = y /\ Range(c) = {y} \cup Range(d)
      BY <1>1, <3>1 DEF Shifted
    <3>3. y \notin Range(d)
      <4>1. Range(b) \cap Range(d) = {}
        BY <3>2, LeastAhead
      <4>2. y \in Range(b)
        <5>1. Len(b) \in 1 .. Len(b)
          BY <3>2
        <5> QED BY <3>2, <5>1 DEF Range
      <4> QED BY <4>1, <4>2
    <3>4. new.todo = Rest(tn, hi, d)
      BY <1>3, <2>2, <3>2, <3>3 DEF Rest
    <3>5. new.last = y /\ new.state = "visited_left" /\ \E ws : Carries(tn, root, ws, new.path, new.last)
      BY <1>3, <2>2, <2>5
    <3>6. Stands(tn, root, new, b, d)
      BY <3>2, <3>5 DEF Stands
    <3>7. new.last # Nil
      BY <2>3, <3>5, NilAssumption
    <3> QED BY <1>3, <2>3, <3>2, <3>4, <3>6, <3>7 DEF IterOK
  <2>6. CASE ~Below(y, hi)
    <3>1. hi # Nil /\ ~(tn[y].key < hi) /\ hi \in Nat
      BY <1>3, <2>3, <2>6, NilAssumption, KeyAssumption DEF Below
    <3>2. Rest(tn, hi, c) = {}
      <4> SUFFICES ASSUME NEW x \in Range(c), tn[x].key < hi PROVE FALSE
        BY <3>1 DEF Rest
      <4>1. tn[x].key \in Nat /\ tn[y].key \in Nat /\ tn[y].key <= tn[x].key
        BY <2>4 DEF Least
      <4> HIDE DEF y
      <4> QED BY <3>1, <4>1
    <3>3. new.last = Nil /\ new.todo = {}
      BY <1>3, <2>2, <2>6, <3>2
    <3> QED BY <1>3, <2>3, <3>3 DEF IterOK
  <2> QED BY <2>5, <2>6
<1> QED BY <1>4, <1>5

\* tree_peek announces the first of the nodes that are left.
LEMMA PeekIs ==
  ASSUME TreeOK, NEW it, IterOK(tn, root, it)
  PROVE  Peek(it) = IF it.todo = {} THEN Nil ELSE First(it.todo)
<1>1. CASE it.last = Nil
  BY <1>1 DEF Peek, IterOK
<1>2. CASE it.last # Nil
  <2> DEFINE hi == it.high
             T  == it.todo
             n  == FindNext(it).node
  <2>1. PICK a, c \in Seq(Node) :
          InOrder(tn, root) = a \o c /\ T = Rest(tn, hi, c) /\ Stands(tn, root, it, a, c)
    BY <1>2 DEF IterOK
  <2>2. Leading(FindNext(it), c)
    BY <1>2, <2>1, NextIs
  <2>3. Peek(it) = IF Below(n, hi) THEN n ELSE Nil
    BY <1>2 DEF Peek
  <2>4. hi \in Key \cup {Nil}
    BY DEF IterOK
  <2> HIDE DEF T, hi, n
  <2>5. CASE Len(c) = 0
    <3>1. n = Nil
      BY <2>2, <2>5 DEF Leading, n
    <3>2. Range(c) = {}
      BY <2>5 DEF Range
    <3>3. T = {}
      BY <2>1, <3>2 DEF Rest
    <3> QED BY <2>3, <3>1, <3>3 DEF T
  <2>6. CASE Len(c) # 0
    <3> DEFINE y == c[1]
    <3>1. 0 < Len(c) /\ Len(c) \in Nat
      BY <2>6
    <3>2. n = y
      BY <2>2, <3>1 DEF Leading, n
    <3>3. Least(c)
      BY <2>1, LeastAhead
    <3>4. y \in Range(c) /\ y \in Node /\ y # Nil
      <4>1. 1 \in 1 .. Len(c)
        BY <3>1
      <4>2. y \in Range(c) /\ y \in Node
        BY <4>1 DEF Range
      <4> QED BY <4>2, NilAssumption
    <3>5. CASE Below(y, hi)
      <4>1. y \in T
        BY <2>1, <3>4, <3>5 DEF Below, Rest
      <4>2. T \subseteq Range(c)
        BY <2>1 DEF Rest
      <4>3. First(T) = y
        BY <2>1, <3>1, <4>1, <4>2, FirstIs
      <4> QED BY <2>3, <3>2, <3>5, <4>1, <4>3 DEF T
    <3>6. CASE ~Below(y, hi)
      <4>1. hi # Nil /\ ~(tn[y].key < hi) /\ hi \in Nat
        BY <2>4, <3>4, <3>6, KeyAssumption DEF Below
      <4>2. T = {}
        <5> SUFFICES ASSUME NEW x \in Range(c), tn[x].key < hi PROVE FALSE
          BY <2>1, <4>1 DEF Rest
        <5>1. tn[x].key \in Nat /\ tn[y].key \in Nat /\ tn[y].key <= tn[x].key
          BY <3>3 DEF Least
        <5> HIDE DEF y
        <5> QED BY <4>1, <5>1
      <4> QED BY <2>3, <3>2, <3>6, <4>2 DEF T
    <3> QED BY <3>5, <3>6
  <2> QED BY <2>5, <2>6
<1> QED BY <1>1, <1>2

-----------------------------------------------------------------------------
(* Iterators: the first node not below a key.                              *)

\* Where tn_find_low goes on from each node.
LowSteer(low) == [x \in Node |-> IF low <= tn[x].key THEN tn[x].left ELSE tn[x].right]

\* The way of tn_find_low.
LowWay(low, ws) ==
  /\ root = Nil => ws = <<>>
  /\ root \in Node => Path(tn, LowSteer(low), root, ws)

\* The places in ws at which tn_find_low goes left.
NotBelowLow(low, ws) == {j \in DOMAIN ws : low <= tn[ws[j]].key}

\* What tn_find_low makes of it.
Lowered(it, low, ws, new) ==
  new = IF NotBelowLow(low, ws) = {} THEN [it EXCEPT !.path = ws]
        ELSE [it EXCEPT !.path = SubSeq(ws, 1, Max(NotBelowLow(low, ws)) - 1),
                        !.last = ws[Max(NotBelowLow(low, ws))],
                        !.state = "find_low_prepared"]

\* What tn_find_low computes from its way.
LEMMA FoundLowIs ==
  ASSUME tn \in Forest, NEW it, NEW low
  PROVE  \E ws : LowWay(low, ws) /\ Lowered(it, low, ws, FoundLow(it, low))
<1> DEFINE D == LowSteer(low)
           G(x) == low <= tn[x].key
           Fix(f) == f = [x \in Ref |-> IF x = Nil THEN <<>>
                           ELSE <<x>> \o (IF G(x) THEN f[tn[x].left] ELSE f[tn[x].right])]
<1>1. Steers(tn, D)
  <2>1. \A x \in Node : tn[x].left \in Ref /\ tn[x].right \in Ref
    BY LinksType DEF Forest
  <2> QED BY <2>1 DEF Steers, LowSteer, Ref
<1>2. \A x \in Node : D[x] = IF G(x) THEN tn[x].left ELSE tn[x].right
  BY DEF LowSteer
<1> HIDE DEF D
<1>3. PICK f \in [Ref -> Seq(Node)] : f[Nil] = <<>> /\ \A x \in Node : f[x] = <<x>> \o f[D[x]]
  BY <1>1, DescentExists
<1> DEFINE W == CHOOSE g : Fix(g)
           ws == W[root]
<1>4. Lowered(it, low, ws, FoundLow(it, low))
  BY DEF FoundLow, Lowered, NotBelowLow
<1> HIDE DEF G
<1>5. Fix(f)
  <2>1. \A x \in Ref : f[x] = IF x = Nil THEN <<>>
                           ELSE <<x>> \o (IF G(x) THEN f[tn[x].left] ELSE f[tn[x].right])
    <3> TAKE x \in Ref
    <3>1. CASE x = Nil
      BY <1>3, <3>1
    <3>2. CASE x # Nil
      <4>1. x \in Node
        BY <3>2 DEF Ref
      <4>2. f[D[x]] = IF G(x) THEN f[tn[x].left] ELSE f[tn[x].right]
        BY <1>2, <4>1
      <4> QED BY <1>3, <3>2, <4>1, <4>2
    <3> QED BY <3>1, <3>2
  <2> QED BY <1>3, <2>1
<1>6. Fix(W)
  BY <1>5
<1> HIDE DEF W
<1>7. W[Nil] = <<>> /\ \A x \in Node : W[x] = <<x>> \o W[D[x]]
  <2>1. \A x \in Ref : W[x] = IF x = Nil THEN <<>>
                           ELSE <<x>> \o (IF G(x) THEN W[tn[x].left] ELSE W[tn[x].right])
    BY <1>6
  <2>2. W[Nil] = <<>>
    BY <2>1 DEF Ref
  <2>3. ASSUME NEW x \in Node PROVE W[x] = <<x>> \o W[D[x]]
    <3>1. x \in Ref /\ x # Nil
      BY NilAssumption DEF Ref
    <3>2. W[x] = <<x>> \o (IF G(x) THEN W[tn[x].left] ELSE W[tn[x].right])
      BY <2>1, <3>1
    <3> HIDE DEF Fix
    <3> QED BY <1>2, <3>2
  <2> QED BY <2>2, <2>3
<1> HIDE DEF Fix
<1>8. \A x \in Node : Path(tn, D, x, W[x])
  BY <1>1, <1>7, DescentIs
<1>9. LowWay(low, ws)
  BY <1>7, <1>8 DEF LowWay, D
<1> HIDE DEF ws
<1> QED BY <1>4, <1>9

\* The beginning of a way has the ancestors of its end.
LEMMA CarriesPrefix ==
  ASSUME NEW ws, Chain(tn, ws), ws[1] = root, NEW m \in 1 .. Len(ws)
  PROVE  Carries(tn, root, SubSeq(ws, 1, m), SubSeq(ws, 1, m - 1), ws[m])
<1> DEFINE ys == SubSeq(ws, 1, m)
           k  == m - 1
           q  == SubSeq(ws, 1, k)
<1>1. Chain(tn, ys) /\ Len(ys) = m /\ ys[1] = root /\ ys[Len(ys)] = ws[m]
  BY Prefix
<1>2. ws \in Seq(Node) /\ Len(ws) \in Nat /\ k \in Nat /\ m \in Nat /\ m <= Len(ws) /\ k <= Len(ws) /\ m = k + 1
  BY DEF Chain
<1>3. \A i \in 1 .. m : ys[i] = ws[i]
  BY <1>2
<1> HIDE DEF k, ys
<1>4. q \in Seq(Node) /\ Len(q) = k /\ \A i \in 1 .. k : q[i] = ws[i]
  BY <1>2
<1>5. \A i \in 1 .. k : i \in 1 .. m
  BY <1>2
<1> HIDE DEF q
<1>6. Carries(tn, root, ys, q, ws[m])
  BY <1>1, <1>2, <1>3, <1>4, <1>5 DEF Carries
<1> QED BY <1>6 DEF ys, q, k

\* The nodes a are below low and the nodes c, from the last at which the way ws goes left,
\* are not.
Cleft(low, ws, a, c) ==
  /\ a \in Seq(Node) /\ c \in Seq(Node) /\ InOrder(tn, root) = a \o c
  /\ \A i \in 1 .. Len(a) : ~(low <= tn[a[i]].key)
  /\ \A i \in 1 .. Len(c) : low <= tn[c[i]].key
  /\ NotBelowLow(low, ws) = {} => c = <<>>
  /\ NotBelowLow(low, ws) # {} => 0 < Len(c) /\ c[1] = ws[Max(NotBelowLow(low, ws))]

\* At each place but the last the way turns right exactly from the nodes below low; beside
\* the last node there is nothing on the side where it would go on.
Turns(low, ws) ==
  /\ \A i \in 1 .. Len(ws) - 1 : Right(tn, ws, i) <=> ~(low <= tn[ws[i]].key)
  /\ low <= tn[ws[Len(ws)]].key => tn[ws[Len(ws)]].left = Nil
  /\ ~(low <= tn[ws[Len(ws)]].key) => tn[ws[Len(ws)]].right = Nil

\* The way of tn_find_low turns right from the nodes below low.
LEMMA LowTurns ==
  ASSUME TreeOK, NEW low, NEW ws, Path(tn, LowSteer(low), root, ws)
  PROVE  Turns(low, ws)
<1> DEFINE D == LowSteer(low)
           G(x) == low <= tn[x].key
<1>1. /\ Chain(tn, ws) /\ ws[1] = root /\ D[ws[Len(ws)]] = Nil
      /\ \A i \in 1 .. Len(ws) - 1 : ws[i + 1] = D[ws[i]]
      /\ \A i \in 1 .. Len(ws) : ws[i] \in Node
      /\ Len(ws) \in 1 .. Len(ws) /\ Len(ws) \in Nat
  BY ChainType DEF Path
<1>2. tn \in Forest /\ Distinct(InOrder(tn, root))
  BY TreeType
<1>3. \A x \in Node : D[x] = IF G(x) THEN tn[x].left ELSE tn[x].right
  BY DEF LowSteer
<1> HIDE DEF D, G
<1>4. ASSUME NEW i \in 1 .. Len(ws) - 1 PROVE Right(tn, ws, i) <=> ~G(ws[i])
  <2>1. i \in 1 .. Len(ws) /\ ws[i] \in Node
    BY <1>1
  <2>2. ws[i + 1] = D[ws[i]]
    BY <1>1
  <2>3. Right(tn, ws, i) <=> ws[i + 1] # tn[ws[i]].left
    BY <1>1, <1>2, RightOrLeft
  <2>4. Right(tn, ws, i) <=> ws[i + 1] = tn[ws[i]].right
    BY DEF Right
  <2> QED BY <1>3, <2>1, <2>2, <2>3, <2>4
<1>5. LET e == ws[Len(ws)] IN (G(e) => tn[e].left = Nil) /\ (~G(e) => tn[e].right = Nil)
  BY <1>1, <1>3
<1> QED BY <1>4, <1>5 DEF Turns, G

\* What stands beside the subtree at the end of the way.
Beside(low, ws, pre, post) ==
  LET on == 1 .. Len(ws) - 1 IN
  /\ pre = <<>> \/ \E j \in on : ~(low <= tn[ws[j]].key) /\ 0 < Len(pre) /\ pre[Len(pre)] = ws[j]
  /\ LET J == {j \in on : low <= tn[ws[j]].key}
     IN  /\ J = {} => post = <<>>
         /\ J # {} => 0 < Len(post) /\ post[1] = ws[Max(J)] /\ Max(J) \in J

\* So what is on its left is below low, and what is on its right is not.
LEMMA TurnsBeside ==
  ASSUME NEW low, NEW ws, Chain(tn, ws), Turns(low, ws), NEW pre, NEW post, NextTo(tn, ws, 1, pre, post)
  PROVE  Beside(low, ws, pre, post)
<1> DEFINE on == 1 .. Len(ws) - 1
           G(x) == low <= tn[x].key
           I == {j \in on : ~G(ws[j])}
           J == {j \in on : G(ws[j])}
<1>1. Len(ws) - 1 \in Nat /\ on \subseteq Nat /\ \A j \in on : j <= Len(ws) - 1
  <2>1. Len(ws) \in Nat /\ 0 < Len(ws)
    BY ChainType DEF Chain
  <2> QED BY <2>1
<1>2. \A j \in on : Right(tn, ws, j) <=> ~G(ws[j])
  BY DEF Turns
<1>3. /\ (\A j \in on : ~Right(tn, ws, j)) => pre = <<>>
      /\ (\A j \in on : Right(tn, ws, j)) => post = <<>>
      /\ \A j \in on : Right(tn, ws, j) /\ (\A k \in on : k > j => ~Right(tn, ws, k)) =>
           0 < Len(pre) /\ pre[Len(pre)] = ws[j]
      /\ \A j \in on : ~Right(tn, ws, j) /\ (\A k \in on : k > j => Right(tn, ws, k)) =>
           0 < Len(post) /\ post[1] = ws[j]
  BY DEF NextTo
<1> HIDE DEF G, on
<1>4. ASSUME NEW T, T \subseteq on, T # {}
      PROVE  Max(T) \in T /\ \A k \in on : k > Max(T) => k \notin T
  <2>1. T \subseteq Nat /\ \A j \in T : j <= Len(ws) - 1
    BY <1>1, <1>4
  <2>2. Max(T) \in T /\ \A x \in T : x <= Max(T)
    BY <1>1, <1>4, <2>1, MaxOfSet
  <2>3. ASSUME NEW k \in on, k > Max(T), k \in T PROVE FALSE
    <3>1. k <= Max(T) /\ k \in Nat /\ Max(T) \in Nat
      BY <2>1, <2>2, <2>3
    <3> QED BY <2>3, <3>1
  <2> QED BY <2>2, <2>3
<1>5. pre = <<>> \/ \E j \in on : ~G(ws[j]) /\ 0 < Len(pre) /\ pre[Len(pre)] = ws[j]
  <2>1. CASE I = {}
    BY <1>2, <1>3, <2>1
  <2>2. CASE I # {}
    <3> DEFINE m == Max(I)
    <3>1. m \in I /\ \A k \in on : k > m => k \notin I
      <4>1. I \subseteq on
        OBVIOUS
      <4> HIDE DEF I
      <4> QED BY <1>4, <2>2, <4>1
    <3> HIDE DEF m
    <3>2. m \in on /\ ~G(ws[m]) /\ \A k \in on : k > m => G(ws[k])
      BY <3>1
    <3> QED BY <1>2, <1>3, <3>2
  <2> QED BY <2>1, <2>2
<1>6. J = {} => post = <<>>
  BY <1>2, <1>3
<1>7. J # {} => 0 < Len(post) /\ post[1] = ws[Max(J)] /\ Max(J) \in J
  <2> HAVE J # {}
  <2> DEFINE m == Max(J)
  <2>1. m \in J /\ \A k \in on : k > m => k \notin J
    <3>1. J \subseteq on
      OBVIOUS
    <3> HIDE DEF J
    <3> QED BY <1>4, <3>1
  <2> HIDE DEF m
  <2>2. m \in on /\ G(ws[m]) /\ \A k \in on : k > m => ~G(ws[k])
    BY <2>1
  <2>3. 0 < Len(post) /\ post[1] = ws[m]
    BY <1>2, <1>3, <2>2
  <2> QED BY <2>1, <2>3 DEF m
<1> QED BY <1>5, <1>6, <1>7 DEF Beside, on, G

\* In key order, all nodes before one below low are, and all after one that is not are not.
LEMMA AllBelow ==
  ASSUME TreeOK, NEW low \in Key, NEW a \in Seq(Node), NEW c \in Seq(Node), InOrder(tn, root) = a \o c,
         a # <<>> => ~(low <= tn[a[Len(a)]].key), c # <<>> => low <= tn[c[1]].key
  PROVE  /\ \A i \in 1 .. Len(a) : ~(low <= tn[a[i]].key)
         /\ \A i \in 1 .. Len(c) : low <= tn[c[i]].key
<1>1. tn \in Links /\ Ordered(tn, a \o c) /\ low \in Nat
  BY TreeType, KeyAssumption
<1>2. /\ \A i \in 1 .. Len(a) : tn[a[i]].key \in Key /\ tn[a[i]].key <= tn[a[Len(a)]].key
      /\ \A i \in 1 .. Len(c) : tn[c[i]].key \in Key /\ tn[c[1]].key <= tn[c[i]].key
  BY <1>1, OrderedEnds
<1>3. ASSUME NEW i \in 1 .. Len(a) PROVE ~(low <= tn[a[i]].key)
  <2>1. a # <<>> /\ Len(a) \in 1 .. Len(a)
    OBVIOUS
  <2>2. tn[a[i]].key \in Nat /\ tn[a[Len(a)]].key \in Nat /\ tn[a[i]].key <= tn[a[Len(a)]].key
    BY <1>2, <2>1, KeyAssumption
  <2> QED BY <1>1, <2>1, <2>2
<1>4. ASSUME NEW i \in 1 .. Len(c) PROVE low <= tn[c[i]].key
  <2>1. c # <<>> /\ 1 \in 1 .. Len(c)
    OBVIOUS
  <2>2. tn[c[i]].key \in Nat /\ tn[c[1]].key \in Nat /\ tn[c[1]].key <= tn[c[i]].key
    BY <1>2, <2>1, KeyAssumption
  <2> QED BY <1>1, <2>1, <2>2
<1> QED BY <1>3, <1>4

\* tn_find_low's way divides the tree at low.
LEMMA LowCleft ==
  ASSUME TreeOK, NEW low \in Key, NEW ws, Path(tn, LowSteer(low), root, ws)
  PROVE  \E a, c : Cleft(low, ws, a, c)
<1> DEFINE d == Len(ws)
           e == ws[d]
           L == InOrder(tn, tn[e].left)
           R == InOrder(tn, tn[e].right)
           z == <<>>
           N == NotBelowLow(low, ws)
           J == {j \in 1 .. Len(ws) - 1 : low <= tn[ws[j]].key}
           G(x) == low <= tn[x].key
<1>1. Chain(tn, ws) /\ ws[1] = root /\ d \in Nat /\ d \in 1 .. d /\ e \in Node /\ ws \in Seq(Node)
  BY ChainType DEF Path, Chain
<1>2. tn \in Forest /\ Distinct(InOrder(tn, root))
  BY TreeType
<1>3. PICK pre, post \in Seq(Node) :
        InOrder(tn, root) = Wrap(pre, InOrder(tn, e), post) /\ NextTo(tn, ws, 1, pre, post)
  <2> HIDE DEF d
  <2> QED BY <1>1, <1>2, ChainSplit DEF d
<1>4. Turns(low, ws)
  BY LowTurns
<1>5. Beside(low, ws, pre, post)
  BY <1>1, <1>3, <1>4, TurnsBeside
<1>6. L \in Seq(Node) /\ R \in Seq(Node) /\ InOrder(tn, e) = Join(L, e, R)
  BY <1>1, <1>2, InOrderJoin
<1>7. (G(e) => L = z) /\ (~G(e) => R = z) /\ z \in Seq(Node)
  <2>1. InOrder(tn, Nil) = <<>>
    BY <1>2, InOrderEq
  <2> QED BY <1>4, <2>1 DEF Turns
<1>8. N = IF G(e) THEN J \cup {d} ELSE J
  <2>1. DOMAIN ws = 1 .. d
    BY <1>1
  <2>2. \A j : j \in 1 .. d <=> (j \in 1 .. d - 1 \/ j = d)
    BY <1>1
  <2>3. N = {j \in 1 .. d : G(ws[j])}
    BY <2>1 DEF NotBelowLow
  <2> HIDE DEF N, G
  <2>4. J = {j \in 1 .. d - 1 : G(ws[j])}
    BY DEF G
  <2> HIDE DEF J, d
  <2> QED BY <2>2, <2>3, <2>4 DEF G
<1>9. /\ pre = z \/ \E j \in 1 .. d - 1 : ~G(ws[j]) /\ 0 < Len(pre) /\ pre[Len(pre)] = ws[j]
      /\ J = {} => post = z
      /\ J # {} => 0 < Len(post) /\ post[1] = ws[Max(J)] /\ Max(J) \in J
  BY <1>5 DEF Beside
<1>10. J \subseteq 1 .. d - 1 /\ \A j \in J : G(ws[j])
  OBVIOUS
<1> HIDE DEF L, R, G, J, N, e
<1>11. Wraps(Node, pre, L, e, R, post)
  BY <1>1, <1>3, <1>6, WrapsJoin
<1>12. InOrder(tn, root) = Join(pre \o L, e, R \o post) /\ pre \o L \in Seq(Node) /\ R \o post \in Seq(Node)
  BY <1>3, <1>6, <1>11 DEF Wraps
<1>13. CASE G(e)
  <2> DEFINE Q == R \o post
             c == Join(z, e, Q)
  <2>1. pre \o L = pre
    BY <1>3, <1>7, <1>13, ConcatEmptySeq
  <2>2. Q \in Seq(Node) /\ InOrder(tn, root) = Join(pre, e, Q)
    BY <1>12, <2>1
  <2> HIDE DEF Q
  <2>3. Neighbours(Node, pre, e, e, Q, post)
    BY <1>1, <1>3, <2>2, TwoNodes
  <2>4. c \in Seq(Node) /\ InOrder(tn, root) = pre \o c
    BY <2>2, <2>3 DEF Neighbours
  <2>5. 0 < Len(c) /\ c[1] = e
    <3> HIDE DEF z
    <3>1. Divided(c, z, e, Q)
      BY <1>1, <1>7, <2>2, JoinDivided
    <3>2. Len(z) = 0
      BY DEF z
    <3> QED BY <3>1, <3>2 DEF Divided
  <2> HIDE DEF c
  <2>6. N # {} /\ Max(N) = d
    <3>1. N = J \cup {d}
      BY <1>8, <1>13
    <3>2. N \subseteq Nat /\ N # {} /\ \A j \in N : j <= d
      <4> HIDE DEF d
      <4>1. \A j \in 1 .. d - 1 : j \in Nat /\ j <= d
        BY <1>1
      <4>2. d <= d /\ d \in Nat
        BY <1>1
      <4> QED BY <1>10, <3>1, <4>1, <4>2
    <3>3. Max(N) \in N /\ \A j \in N : j <= Max(N)
      <4> HIDE DEF d
      <4> QED BY <1>1, <3>2, MaxOfSet
    <3>4. d <= Max(N) /\ Max(N) <= d /\ Max(N) \in Nat
      BY <3>1, <3>2, <3>3
    <3> HIDE DEF d
    <3> QED BY <1>1, <3>2, <3>4
  <2>7. pre # <<>> => ~(low <= tn[pre[Len(pre)]].key)
    BY <1>9 DEF G
  <2>8. low <= tn[c[1]].key
    BY <1>13, <2>5 DEF G
  <2>9. /\ \A i \in 1 .. Len(pre) : ~(low <= tn[pre[i]].key)
        /\ \A i \in 1 .. Len(c) : low <= tn[c[i]].key
    BY <1>3, <2>4, <2>7, <2>8, AllBelow
  <2>10. Cleft(low, ws, pre, c)
    BY <1>3, <2>4, <2>5, <2>6, <2>9 DEF Cleft, N, e
  <2> QED BY <2>10
<1>14. CASE ~G(e)
  <2> DEFINE P == pre \o L
             a == Join(P, e, z)
  <2>1. R \o post = post
    BY <1>3, <1>7, <1>14, ConcatEmptySeq
  <2>2. P \in Seq(Node) /\ InOrder(tn, root) = Join(P, e, post)
    BY <1>12, <2>1
  <2> HIDE DEF P
  <2>3. Neighbours(Node, P, e, e, post, post)
    BY <1>1, <1>3, <2>2, TwoNodes
  <2>4. a \in Seq(Node) /\ InOrder(tn, root) = a \o post
    BY <2>2, <2>3 DEF Neighbours
  <2>5. 0 < Len(a) /\ a[Len(a)] = e
    <3> HIDE DEF z
    <3>1. Divided(a, P, e, z)
      BY <1>1, <1>7, <2>2, JoinDivided
    <3>2. Len(z) = 0
      BY DEF z
    <3> QED BY <2>2, <3>1, <3>2 DEF Divided
  <2> HIDE DEF a
  <2>6. N = J
    BY <1>8, <1>14
  <2>7. ~(low <= tn[a[Len(a)]].key)
    BY <1>14, <2>5 DEF G
  <2>8. post # <<>> => low <= tn[post[1]].key
    <3> HAVE post # <<>>
    <3>1. J # {} /\ post[1] = ws[Max(J)] /\ Max(J) \in J
      BY <1>9
    <3> QED BY <1>10, <3>1 DEF G
  <2>9. /\ \A i \in 1 .. Len(a) : ~(low <= tn[a[i]].key)
        /\ \A i \in 1 .. Len(post) : low <= tn[post[i]].key
    BY <1>3, <2>4, <2>7, <2>8, AllBelow
  <2>10. Cleft(low, ws, a, post)
    BY <1>3, <1>9, <2>4, <2>6, <2>9 DEF Cleft, N
  <2> QED BY <2>10
<1> QED BY <1>13, <1>14

-----------------------------------------------------------------------------
(* Iterators that begin.                                                   *)

\* An iterator that begins.
Begun(it, low, high) ==
  it = [path |-> <<>>, state |-> "visited_nothing", last |-> Nil, high |-> high,
        todo |-> Wanted(low, high), valid |-> TRUE]

\* An iterator that is about to go down from the root.
Rooted(it, new) == new = [it EXCEPT !.last = root]

\* tree_begin without a low key.
LEMMA BeginAll ==
  ASSUME TreeOK, NEW high \in Key \cup {Nil}, NEW it, Begun(it, Nil, high), NEW new, Rooted(it, new)
  PROVE  IterOK(tn, root, new) /\ IsIter(new) /\ new.valid = TRUE
<1>1. new = [path |-> <<>>, state |-> "visited_nothing", last |-> root, high |-> high,
             todo |-> Wanted(Nil, high), valid |-> TRUE]
  BY DEF Begun, Rooted
<1>2. tn \in Forest /\ root \in Ref /\ Height(tn, root) \in Nat /\ InOrder(tn, root) \in Seq(Node)
  BY TreeType, HeightEq
<1>3. /\ new.path = <<>> /\ new.state = "visited_nothing" /\ new.last = root /\ new.high = high
      /\ new.todo = Wanted(Nil, high) /\ IsIter(new) /\ new.valid = TRUE
  BY <1>1 DEF IsIter
<1>4. new.path \in Seq(Node) /\ Len(new.path) <= Height(tn, root)
  <2> DEFINE h == Height(tn, root)
  <2>1. h \in Nat /\ new.path = <<>>
    BY <1>2, <1>3
  <2> HIDE DEF h
  <2>2. new.path \in Seq(Node) /\ Len(new.path) <= h
    BY <2>1
  <2> QED BY <2>2 DEF h
<1>5. root = Nil => new.todo = {}
  <2>1. Within(tn, Nil) = {}
    BY <1>2, WithinEq
  <2> QED BY <1>3, <2>1 DEF Wanted
<1>6. \E a, c \in Seq(Node) : /\ InOrder(tn, root) = a \o c
                              /\ new.todo = Rest(tn, new.high, c)
                              /\ Stands(tn, root, new, a, c)
  <2> DEFINE a == <<>>
             c == InOrder(tn, root)
  <2>1. a \in Seq(Node) /\ a \o c = c
    BY <1>2, ConcatEmptySeq
  <2>2. new.todo = Rest(tn, new.high, c)
    BY <1>3 DEF Wanted, Rest, Within
  <2>3. Stands(tn, root, new, a, c)
    BY <1>3 DEF Stands
  <2> HIDE DEF a, c
  <2>4. InOrder(tn, root) = a \o c /\ c \in Seq(Node)
    BY <1>2, <2>1 DEF c
  <2> QED BY <2>1, <2>2, <2>3, <2>4
<1> QED BY <1>3, <1>4, <1>5, <1>6 DEF IterOK

\* tree_begin with a low key.
LEMMA BeginLow ==
  ASSUME TreeOK, NEW low \in Key, NEW high \in Key \cup {Nil}, NEW it, Begun(it, low, high),
         NEW ws, LowWay(low, ws), NEW new, Lowered(it, low, ws, new)
  PROVE  IterOK(tn, root, new) /\ IsIter(new) /\ new.valid = TRUE
<1> DEFINE N == NotBelowLow(low, ws)
           h == Height(tn, root)
           m == Max(N)
<1>1. /\ tn \in Forest /\ root \in Ref /\ h \in Nat /\ InOrder(tn, root) \in Seq(Node)
      /\ low # Nil
  BY TreeType, HeightEq, NilAssumption
<1>2. CASE N = {}
  <2>1. new = [path |-> ws, state |-> "visited_nothing", last |-> Nil, high |-> high,
               todo |-> Wanted(low, high), valid |-> TRUE]
    BY <1>2 DEF Begun, Lowered
  <2>2. /\ new.path = ws /\ new.last = Nil /\ new.high = high
        /\ new.todo = Wanted(low, high) /\ IsIter(new) /\ new.valid = TRUE
    BY <2>1 DEF IsIter
  <2>3. CASE root = Nil
    <3>1. ws = <<>>
      BY <2>3 DEF LowWay
    <3>2. Within(tn, root) = {}
      BY <1>1, <2>3, WithinEq
    <3>3. new.todo = {} /\ new.path \in Seq(Node) /\ Len(new.path) <= h
      BY <1>1, <2>2, <3>1, <3>2 DEF Wanted
    <3> QED BY <2>2, <3>3 DEF IterOK
  <2>4. CASE root # Nil
    <3>1. Path(tn, LowSteer(low), root, ws)
      BY <1>1, <2>4 DEF LowWay, Ref
    <3>2. PICK a, c : Cleft(low, ws, a, c)
      BY <3>1, LowCleft
    <3>3. c = <<>> /\ a \in Seq(Node) /\ InOrder(tn, root) = a /\ \A i \in 1 .. Len(a) : ~(low <= tn[a[i]].key)
      <4>1. c = <<>> /\ a \in Seq(Node) /\ InOrder(tn, root) = a \o c
        BY <1>2, <3>2 DEF Cleft
      <4>2. a \o c = a
        BY <4>1, ConcatEmptySeq
      <4> QED BY <3>2, <4>1, <4>2 DEF Cleft
    <3>4. new.todo = {}
      <4> SUFFICES ASSUME NEW x \in Wanted(low, high) PROVE FALSE
        BY <2>2
      <4>1. x \in Range(a) /\ low <= tn[x].key
        BY <1>1, <3>3 DEF Wanted, Within
      <4>2. PICK i \in 1 .. Len(a) : x = a[i]
        BY <3>3, <4>1 DEF Range
      <4> QED BY <3>3, <4>1, <4>2
    <3>5. new.path \in Seq(Node) /\ Len(new.path) <= h
      <4>1. Chain(tn, ws) /\ ws[1] = root
        BY <3>1 DEF Path
      <4>2. Len(ws) \in 1 .. Len(ws) /\ ws \in Seq(Node) /\ Len(ws) \in Nat
        BY <4>1, ChainType DEF Chain
      <4> DEFINE d == Len(ws)
                 q == SubSeq(ws, 1, d - 1)
      <4>3. Carries(tn, root, SubSeq(ws, 1, d), q, ws[d])
        BY <4>1, <4>2, CarriesPrefix
      <4>4. Len(q) < h /\ Len(q) = d - 1
        <5>1. Len(q) < h
          <6> HIDE DEF q, h, d
          <6> QED BY <4>3, CarriesLow DEF h
        <5>2. Len(q) = d - 1
          <6> DEFINE k == d - 1
          <6>1. k \in Nat /\ k <= Len(ws)
            BY <4>2
          <6> HIDE DEF k
          <6>2. Len(SubSeq(ws, 1, k)) = k
            BY <4>2, <6>1
          <6> QED BY <6>2 DEF k
        <5> QED BY <5>1, <5>2
      <4> HIDE DEF q, h
      <4> QED BY <1>1, <2>2, <4>2, <4>4
    <3> QED BY <2>2, <3>4, <3>5 DEF IterOK
  <2> QED BY <2>3, <2>4
<1>3. CASE N # {}
  <2>1. new = [path |-> SubSeq(ws, 1, m - 1), state |-> "find_low_prepared", last |-> ws[m], high |-> high,
               todo |-> Wanted(low, high), valid |-> TRUE]
    BY <1>3 DEF Begun, Lowered
  <2> DEFINE q == SubSeq(ws, 1, m - 1)
  <2>2. /\ new.path = q /\ new.state = "find_low_prepared" /\ new.last = ws[m] /\ new.high = high
        /\ new.todo = Wanted(low, high) /\ IsIter(new) /\ new.valid = TRUE
    BY <2>1 DEF IsIter
  <2>3. root # Nil
    <3> SUFFICES ASSUME root = Nil PROVE FALSE
      OBVIOUS
    <3>1. ws = <<>>
      BY DEF LowWay
    <3> QED BY <1>3, <3>1 DEF NotBelowLow
  <2>4. Path(tn, LowSteer(low), root, ws)
    BY <1>1, <2>3 DEF LowWay, Ref
  <2>5. Chain(tn, ws) /\ ws[1] = root /\ ws \in Seq(Node) /\ Len(ws) \in Nat
    BY <2>4 DEF Path, Chain
  <2>6. m \in 1 .. Len(ws)
    <3>1. N \subseteq 1 .. Len(ws)
      BY <2>5 DEF NotBelowLow
    <3>2. N \subseteq Nat /\ \A j \in N : j <= Len(ws)
      BY <2>5, <3>1
    <3>3. Max(N) \in N
      <4> HIDE DEF N
      <4> QED BY <1>3, <2>5, <3>2, MaxOfSet
    <3> QED BY <3>1, <3>3
  <2>7. PICK a, c : Cleft(low, ws, a, c)
    BY <2>4, LowCleft
  <2>8. /\ a \in Seq(Node) /\ c \in Seq(Node) /\ InOrder(tn, root) = a \o c
        /\ \A i \in 1 .. Len(a) : ~(low <= tn[a[i]].key)
        /\ \A i \in 1 .. Len(c) : low <= tn[c[i]].key
        /\ 0 < Len(c) /\ c[1] = ws[m]
    BY <1>3, <2>7 DEF Cleft
  <2> HIDE DEF m, N
  <2>9. \E vs : Carries(tn, root, vs, q, ws[m])
    BY <2>5, <2>6, CarriesPrefix
  <2> HIDE DEF q
  <2>10. q \in Seq(Node) /\ Len(q) < h /\ ws[m] \in Node
    BY <2>9, CarriesLow
  <2>11. new.todo = Rest(tn, high, c)
    <3>1. Within(tn, root) = Range(a) \cup Range(c)
      <4>1. Range(a \o c) = Range(a) \cup Range(c)
        BY <2>8, RangeConcatenation
      <4> QED BY <2>8, <4>1 DEF Within
    <3>2. ASSUME NEW x \in Range(a) PROVE ~(low <= tn[x].key)
      <4>0. a \in Seq(Node)
        BY <2>8
      <4>1. PICK i \in 1 .. Len(a) : x = a[i]
        BY <4>0 DEF Range
      <4> QED BY <2>8, <4>1
    <3>3. ASSUME NEW x \in Range(c) PROVE low <= tn[x].key
      <4>0. c \in Seq(Node)
        BY <2>8
      <4>1. PICK i \in 1 .. Len(c) : x = c[i]
        BY <4>0 DEF Range
      <4> QED BY <2>8, <4>1
    <3> QED BY <1>1, <2>2, <3>1, <3>2, <3>3 DEF Wanted, Rest
  <2>12. Stands(tn, root, new, a, c)
    BY <2>2, <2>8, <2>9 DEF Stands
  <2>13. new.path \in Seq(Node) /\ Len(new.path) <= h
    <3> HIDE DEF h
    <3> QED BY <1>1, <2>2, <2>10
  <2>14. new.last # Nil
    BY <2>2, <2>10, NilAssumption
  <2> QED BY <2>2, <2>8, <2>11, <2>12, <2>13, <2>14 DEF IterOK
<1> QED BY <1>2, <1>3

-----------------------------------------------------------------------------
(* The invariant.                                                          *)

\* The iterators: those whose tree has not changed have visited some of its nodes, in order,
\* and stand between these and the others.
ItersOK ==
  /\ iter = [i \in Iter |-> iter[i]]
  /\ \A i \in Iter : IsIter(iter[i]) /\ (iter[i].valid => IterOK(tn, root, iter[i]))

\* The invariant from which the properties follow.
Inv == TreeOK /\ ItersOK

\* The invariant holds at first.
LEMMA InitOK ==
  ASSUME Init
  PROVE  Inv
<1>1. tn \in Forest
  <2> DEFINE rk == [n \in Node |-> 0]
  <2>1. Blank \in [key : Key \cup {Nil}, left : Ref, right : Ref]
    BY DEF Blank, Ref
  <2>2. tn \in Links
    BY <2>1 DEF Init, Links
  <2>3. rk \in [Node -> Nat] /\ Descends(tn, rk)
    BY DEF Init, Descends, Blank
  <2> HIDE DEF rk
  <2> QED BY <2>2, <2>3 DEF Forest
<1>2. root = Nil /\ size = 0 /\ maxSize = 0 /\ iter = [i \in Iter |-> Idle] /\ root \in Ref
  BY DEF Init, Ref
<1> DEFINE e == <<>>
<1>3. InOrder(tn, root) = e
  BY <1>1, <1>2, InOrderEq
<1>4. Len(e) = 0 /\ Distinct(e) /\ Ordered(tn, e)
  BY DEF Distinct, Ordered
<1> HIDE DEF e
<1>5. TreeOK
  BY <1>1, <1>2, <1>3, <1>4 DEF TreeOK, Shape, Sized
<1>6. IsIter(Idle) /\ Idle.valid = FALSE
  BY DEF IsIter, Idle
<1>7. ItersOK
  BY <1>2, <1>6 DEF ItersOK
<1> QED BY <1>5, <1>7 DEF Inv

\* A change of the tree makes every iterator stale.
LEMMA StaleOK ==
  ASSUME ItersOK, NEW new, NEW sz, NEW mx, Becomes(new, sz, mx)
  PROVE  ItersOK'
<1>1. iter = [i \in Iter |-> iter[i]] /\ \A i \in Iter : IsIter(iter[i])
  BY DEF ItersOK
<1>2. /\ iter' = [i \in Iter |-> iter'[i]]
      /\ \A i \in Iter : IsIter(iter'[i]) /\ iter'[i].valid = FALSE
  BY <1>1, BecomesStale
<1> QED BY <1>2 DEF ItersOK

\* A removal sets the new tree with Becomes.
LEMMA RemovedBecomes ==
  ASSUME NEW new, Removed(new)
  PROVE  \E out, sz, mx : Becomes(out, sz, mx)
<1>1. CASE Shrunk(size - 1, maxSize)
  BY <1>1 DEF Removed
<1>2. CASE ~Shrunk(size - 1, maxSize)
  BY <1>2 DEF Removed
<1> QED BY <1>1, <1>2

\* So does an insertion.
LEMMA InsertBecomes ==
  ASSUME NEW n \in Node, NEW k \in Key, NEW dup \in BOOLEAN, Insert(n, k, dup)
  PROVE  \E out, sz, mx : Becomes(out, sz, mx)
<1> DEFINE at == Last(Way(k, dup))
<1>1. CASE root = Nil
  BY <1>1 DEF Insert
<1>2. CASE root # Nil /\ tn[at].key = k /\ ~dup
  BY <1>2 DEF Insert
<1>3. CASE root # Nil /\ ~(tn[at].key = k /\ ~dup)
  BY <1>3 DEF Insert
<1> QED BY <1>1, <1>2, <1>3

\* The operations on the tree.
TreeStep ==
  \/ \E n \in Node, k \in Key, dup \in BOOLEAN : Insert(n, k, dup)
  \/ \E k \in Key : Delete(k)
  \/ \E n \in Node : DeleteSpecific(n)
  \/ DelMin \/ Clear

\* What the operations do to the order of the nodes.
Changes ==
  \/ \E n \in Node, k \in Key, dup \in BOOLEAN : Gains(n, k, dup) \/ (~dup /\ Trades(n, k))
  \/ Loses \/ Emptied

\* The operations on the tree keep the invariant, and change the order in one place.
LEMMA TreeStepOK ==
  ASSUME Inv, TreeStep
  PROVE  Inv' /\ Changes
<1>1. TreeOK /\ ItersOK
  BY DEF Inv
<1>2. TreeOK' /\ Changes
  <2>1. ASSUME NEW n \in Node, NEW k \in Key, NEW dup \in BOOLEAN, Insert(n, k, dup)
        PROVE  TreeOK' /\ Changes
    <3>1. TreeOK' /\ (Gains(n, k, dup) \/ (~dup /\ Trades(n, k)))
      BY <1>1, <2>1, InsertStep
    <3> QED BY <3>1 DEF Changes
  <2>2. ASSUME NEW k \in Key, Delete(k) PROVE TreeOK' /\ Changes
    BY <1>1, <2>2, DeleteStep DEF Changes
  <2>3. ASSUME NEW n \in Node, DeleteSpecific(n) PROVE TreeOK' /\ Changes
    BY <1>1, <2>3, DeleteSpecificStep DEF Changes
  <2>4. CASE DelMin
    BY <1>1, <2>4, DelMinStep DEF Changes
  <2>5. CASE Clear
    BY <1>1, <2>5, ClearStep DEF Changes
  <2> QED BY <2>1, <2>2, <2>3, <2>4, <2>5 DEF TreeStep
<1>3. \E out, sz, mx : Becomes(out, sz, mx)
  <2>1. ASSUME NEW n \in Node, NEW k \in Key, NEW dup \in BOOLEAN, Insert(n, k, dup)
        PROVE  \E out, sz, mx : Becomes(out, sz, mx)
    BY <2>1, InsertBecomes
  <2>2. ASSUME NEW k \in Key, Delete(k) PROVE \E out, sz, mx : Becomes(out, sz, mx)
    BY <2>2, RemovedBecomes DEF Delete
  <2>3. ASSUME NEW n \in Node, DeleteSpecific(n) PROVE \E out, sz, mx : Becomes(out, sz, mx)
    BY <2>3, RemovedBecomes DEF DeleteSpecific
  <2>4. CASE DelMin
    BY <2>4, RemovedBecomes DEF DelMin
  <2>5. CASE Clear
    BY <2>5 DEF Clear
  <2> QED BY <2>1, <2>2, <2>3, <2>4, <2>5 DEF TreeStep
<1>4. ItersOK'
  BY <1>1, <1>3, StaleOK
<1> QED BY <1>2, <1>4 DEF Inv

\* An iterator moves, and the tree stays.
Moves(i, new) ==
  /\ iter' = [iter EXCEPT ![i] = new] /\ UNCHANGED treeVars
  /\ IsIter(new) /\ (new.valid => IterOK(tn, root, new))

\* An iterator that moves to a place within the tree keeps the invariant.
LEMMA MovesOK ==
  ASSUME Inv, NEW i \in Iter, NEW new, Moves(i, new)
  PROVE  Inv'
<1>1. TreeOK /\ ItersOK
  BY DEF Inv
<1>2. tn' = tn /\ root' = root /\ size' = size /\ maxSize' = maxSize
  BY DEF Moves, treeVars
<1>3. TreeOK'
  BY <1>1, <1>2 DEF TreeOK
<1>4. iter' = [j \in Iter |-> IF j = i THEN new ELSE iter[j]]
  <2>1. iter = [j \in Iter |-> iter[j]] /\ iter' = [iter EXCEPT ![i] = new]
    BY <1>1 DEF ItersOK, Moves
  <2> QED BY <2>1
<1>5. ASSUME NEW j \in Iter
      PROVE  IsIter(iter'[j]) /\ (iter'[j].valid => IterOK(tn, root, iter'[j]))
  <2>1. CASE j = i
    <3>1. iter'[j] = new
      BY <1>4, <2>1
    <3> QED BY <3>1 DEF Moves
  <2>2. CASE j # i
    <3>1. iter'[j] = iter[j]
      BY <1>4, <2>2
    <3> QED BY <1>1, <3>1 DEF ItersOK
  <2> QED BY <2>1, <2>2
<1>6. iter' = [j \in Iter |-> iter'[j]]
  BY <1>4
<1>7. ItersOK'
  BY <1>2, <1>5, <1>6 DEF ItersOK
<1> QED BY <1>3, <1>7 DEF Inv

\* tree_begin and tree_reset move an iterator.
LEMMA BeginMoves ==
  ASSUME Inv, NEW i \in Iter, NEW low \in Key \cup {Nil}, NEW high \in Key \cup {Nil}, Begin(i, low, high)
  PROVE  \E new : Moves(i, new)
<1> DEFINE it  == [Idle EXCEPT !.high = high, !.todo = Wanted(low, high), !.valid = TRUE]
           all == [it EXCEPT !.last = root]
           fl  == FoundLow(it, low)
<1>1. TreeOK /\ tn \in Forest
  BY TreeType DEF Inv
<1>2. Begun(it, low, high)
  <2> DEFINE W == Wanted(low, high)
  <2>1. it = [Idle EXCEPT !.high = high, !.todo = W, !.valid = TRUE]
    OBVIOUS
  <2> HIDE DEF W, it
  <2>2. it = [path |-> <<>>, state |-> "visited_nothing", last |-> Nil, high |-> high,
              todo |-> W, valid |-> TRUE]
    BY <2>1 DEF Idle
  <2> QED BY <2>2 DEF Begun, W
<1>3. iter' = [iter EXCEPT ![i] = IF low = Nil THEN all ELSE fl] /\ UNCHANGED treeVars
  BY DEF Begin
<1>4. CASE low = Nil
  <2>1. Rooted(it, all)
    BY DEF Rooted
  <2>2. Begun(it, Nil, high)
    BY <1>2, <1>4
  <2> HIDE DEF it, all
  <2>3. IterOK(tn, root, all) /\ IsIter(all)
    BY <1>1, <2>1, <2>2, BeginAll
  <2>4. Moves(i, all)
    BY <1>3, <1>4, <2>3 DEF Moves
  <2> QED BY <2>4
<1>5. CASE low # Nil
  <2> HIDE DEF it
  <2>1. low \in Key
    BY <1>5
  <2>2. PICK ws : LowWay(low, ws) /\ Lowered(it, low, ws, fl)
    BY <1>1, FoundLowIs
  <2> HIDE DEF fl
  <2>3. IterOK(tn, root, fl) /\ IsIter(fl)
    BY <1>1, <1>2, <2>1, <2>2, BeginLow
  <2>4. Moves(i, fl)
    BY <1>3, <1>5, <2>3 DEF Moves
  <2> QED BY <2>4
<1> QED BY <1>4, <1>5

\* tree_next moves an iterator.
LEMMA NextMoves ==
  ASSUME Inv, NEW i \in Iter, TreeNext(i)
  PROVE  \E new : Moves(i, new)
<1> DEFINE it  == iter[i]
           f   == FindNext(it)
           nl  == IF Below(f.node, it.high) THEN f.node ELSE Nil
           nt  == it.todo \ {f.node}
           new == [path |-> f.path, state |-> f.state, last |-> nl, high |-> it.high,
                   todo |-> nt, valid |-> it.valid]
<1>1. TreeOK /\ IsIter(it) /\ (it.valid => IterOK(tn, root, it)) /\ iter = [j \in Iter |-> iter[j]]
  BY DEF Inv, ItersOK
<1>2. it.last # Nil /\ UNCHANGED treeVars
  BY DEF TreeNext
<1>3. iter' = [iter EXCEPT ![i].path = f.path, ![i].state = f.state, ![i].last = nl, ![i].todo = @ \ {f.node}]
  BY DEF TreeNext
<1>4. iter' = [iter EXCEPT ![i] = new]
  <2> DEFINE fp == f.path
             fs == f.state
             fn == f.node
             z  == [it EXCEPT !.path = fp, !.state = fs, !.last = nl, !.todo = @ \ {fn}]
  <2>1. iter' = [iter EXCEPT ![i] = z]
    <3> HIDE DEF f, nl
    <3> QED BY <1>1, <1>3
  <2>2. z = new
    <3>1. it = [path |-> it.path, state |-> it.state, last |-> it.last, high |-> it.high,
                todo |-> it.todo, valid |-> it.valid]
      BY <1>1 DEF IsIter
    <3> HIDE DEF it, nl, fp, fs, fn
    <3> DEFINE td == it.todo \ {fn}
    <3>2. z = [it EXCEPT !.path = fp, !.state = fs, !.last = nl, !.todo = td]
      OBVIOUS
    <3> HIDE DEF z, td
    <3>3. z = [path |-> fp, state |-> fs, last |-> nl, high |-> it.high, todo |-> td, valid |-> it.valid]
      BY <3>1, <3>2
    <3> HIDE DEF f
    <3> QED BY <3>3 DEF fp, fs, fn, td
  <2> QED BY <2>1, <2>2
<1>5. /\ new.path = f.path /\ new.state = f.state /\ new.last = nl /\ new.high = it.high
      /\ new.todo = nt /\ new.valid = it.valid /\ IsIter(new)
  BY DEF IsIter
<1> HIDE DEF new
<1>6. Goes(it, new, f)
  BY <1>5 DEF Goes
<1> HIDE DEF f, nl, nt, it
<1>7. it.valid => IterOK(tn, root, new)
  BY <1>1, <1>2, <1>6, NextOK
<1>8. Moves(i, new)
  BY <1>2, <1>4, <1>5, <1>7 DEF Moves
<1> QED BY <1>8

\* copy_tree_iter and replace_tree_iter move an iterator.
LEMMA CopyMoves ==
  ASSUME Inv, NEW i \in Iter, NEW j \in Iter, Copy(i, j)
  PROVE  \E new : Moves(i, new)
<1>1. Moves(i, iter[j])
  BY DEF Copy, Moves, Inv, ItersOK
<1> QED BY <1>1

\* Every step keeps the invariant.
LEMMA NextInv ==
  ASSUME Inv, [Next]_vars
  PROVE  Inv'
<1>1. CASE TreeStep
  BY <1>1, TreeStepOK
<1>2. ASSUME NEW i \in Iter, NEW low \in Key \cup {Nil}, NEW high \in Key \cup {Nil}, Begin(i, low, high)
      PROVE  Inv'
  BY <1>2, BeginMoves, MovesOK
<1>3. ASSUME NEW i \in Iter, TreeNext(i) PROVE Inv'
  BY <1>3, NextMoves, MovesOK
<1>4. ASSUME NEW i \in Iter, NEW j \in Iter, Copy(i, j) PROVE Inv'
  BY <1>4, CopyMoves, MovesOK
<1>5. CASE UNCHANGED vars
  BY <1>5 DEF Inv, TreeOK, ItersOK, vars, treeVars
<1> QED BY <1>1, <1>2, <1>3, <1>4, <1>5 DEF Next, TreeStep

\* The invariant holds in every state.
THEOREM TreesInv == Spec => []Inv
<1>1. Init => Inv
  BY InitOK
<1>2. Inv /\ [Next]_vars => Inv'
  BY NextInv
<1> QED BY <1>1, <1>2, PTL DEF Spec

\* The size that tree_insert and tr_delete keep is that of the tree, and max_size is at most
\* twice that, in every state.
THEOREM CountsAlwaysExact == Spec => []CountsExact
<1>1. Inv => CountsExact
  <2> HAVE Inv
  <2>1. TreeOK
    BY DEF Inv
  <2>2. tn \in Forest /\ root \in Ref /\ size = Len(InOrder(tn, root)) /\ size <= maxSize /\ maxSize <= 2 * size
    BY <2>1, TreeType
  <2>3. Count(tn, root) = Len(InOrder(tn, root))
    BY <2>2, CountIs
  <2> QED BY <2>2, <2>3 DEF CountsExact
<1> QED BY <1>1, TreesInv, PTL

\* The rebuilding of tr_insert and tr_delete bounds the height by the logarithm of max_size,
\* in every state; and so the paths of the iterators.
THEOREM AlwaysBalanced == Spec => []Balance
<1>1. Inv => Balance
  <2> HAVE Inv
  <2>1. root # Nil => Pow2[Height(tn, root) - 1] <= maxSize
    BY TreeType DEF Inv
  <2>2. \A i \in Iter : iter[i].valid => Len(iter[i].path) <= Height(tn, root)
    BY DEF Inv, ItersOK, IterOK
  <2> QED BY <2>1, <2>2 DEF Balance
<1> QED BY <1>1, TreesInv, PTL

\* tree_peek and tree_next go through the nodes from low to high, in order, each once.
THEOREM TraversesInOrder == Spec => []Traversal
<1>1. Inv => Traversal
  <2> HAVE Inv
  <2>1. ASSUME NEW i \in Iter, iter[i].valid
        PROVE  Peek(iter[i]) = IF iter[i].todo = {} THEN Nil ELSE First(iter[i].todo)
    <3>1. TreeOK /\ IterOK(tn, root, iter[i])
      BY <2>1 DEF Inv, ItersOK
    <3> DEFINE it == iter[i]
    <3> HIDE DEF it
    <3>2. Peek(it) = IF it.todo = {} THEN Nil ELSE First(it.todo)
      BY <3>1, PeekIs DEF it
    <3> QED BY <3>2 DEF it
  <2> QED BY <2>1 DEF Traversal
<1> QED BY <1>1, TreesInv, PTL

-----------------------------------------------------------------------------
(* The abstract sequence.                                                  *)

\* The sequence that Order computes, for the links t and the root r.
Walked(t, r) ==
  LET walk[x \in Ref] ==
        IF x = Nil THEN <<>>
        ELSE walk[t[x].left] \o <<<<x, t[x].key>>>> \o walk[t[x].right]
  IN  walk[r]

\* The entry of a node in the abstract sequence, and those of a sequence of nodes.
EntryOf(t, x) == <<x, t[x].key>>
Entries(t, s) == [i \in 1 .. Len(s) |-> EntryOf(t, s[i])]

\* A node and its key, or a node without one.
Noted == Node \X (Key \cup {Nil})

\* The entries of a sequence of nodes.
LEMMA EntriesIs ==
  ASSUME NEW t \in Links, NEW s \in Seq(Node)
  PROVE  /\ Entries(t, s) \in Seq(Noted) /\ Len(Entries(t, s)) = Len(s)
         /\ DOMAIN Entries(t, s) = 1 .. Len(s)
         /\ \A i \in 1 .. Len(s) : Entries(t, s)[i] = EntryOf(t, s[i])
<1>1. \A x \in Node : EntryOf(t, x) \in Noted
  BY LinksType DEF EntryOf, Noted
<1>2. \A i \in 1 .. Len(s) : s[i] \in Node
  OBVIOUS
<1>3. Len(s) \in Nat
  OBVIOUS
<1>4. Entries(t, s) \in Seq(Noted) /\ Len(Entries(t, s)) = Len(s)
  BY <1>1, <1>2, <1>3 DEF Entries
<1> QED BY <1>4 DEF Entries

\* The entries of a divided sequence.
LEMMA EntriesJoin ==
  ASSUME NEW t \in Links, NEW a \in Seq(Node), NEW w \in Node, NEW b \in Seq(Node)
  PROVE  Entries(t, Join(a, w, b)) = Join(Entries(t, a), EntryOf(t, w), Entries(t, b))
<1> DEFINE s == Join(a, w, b)
           A == Entries(t, a)
           B == Entries(t, b)
           e == EntryOf(t, w)
           S == Entries(t, s)
           z == Join(A, e, B)
<1>1. s \in Seq(Node) /\ Divided(s, a, w, b)
  BY JoinDivided
<1>2. /\ S \in Seq(Noted) /\ Len(S) = Len(s)
      /\ \A i \in 1 .. Len(s) : S[i] = EntryOf(t, s[i])
  <2> HIDE DEF s
  <2> QED BY <1>1, EntriesIs
<1>3. /\ A \in Seq(Noted) /\ Len(A) = Len(a) /\ B \in Seq(Noted) /\ Len(B) = Len(b)
      /\ \A i \in 1 .. Len(a) : A[i] = EntryOf(t, a[i])
      /\ \A i \in 1 .. Len(b) : B[i] = EntryOf(t, b[i])
  BY EntriesIs
<1>4. e \in Noted
  BY LinksType DEF EntryOf, Noted
<1> HIDE DEF s, A, B, e, S
<1>5. z \in Seq(Noted) /\ Divided(z, A, e, B)
  BY <1>3, <1>4, JoinDivided
<1> HIDE DEF z
<1>6. Len(S) = Len(z)
  BY <1>1, <1>2, <1>3, <1>5 DEF Divided
<1>7. \A i \in 1 .. Len(S) : S[i] = z[i]
  <2> TAKE i \in 1 .. Len(S)
  <2>0. Len(a) \in Nat /\ Len(b) \in Nat /\ Len(s) = Len(a) + 1 + Len(b) /\ S[i] = EntryOf(t, s[i])
    BY <1>1, <1>2 DEF Divided
  <2>1. CASE i <= Len(a)
    <3>1. i \in 1 .. Len(a)
      BY <2>0, <2>1
    <3>2. s[i] = a[i] /\ z[i] = A[i]
      BY <1>1, <1>3, <1>5, <3>1 DEF Divided
    <3> QED BY <1>3, <2>0, <3>1, <3>2
  <2>2. CASE i = Len(a) + 1
    <3>1. s[i] = w /\ z[i] = e
      BY <1>1, <1>3, <1>5, <2>2 DEF Divided
    <3> QED BY <2>0, <3>1 DEF e
  <2>3. CASE i > Len(a) + 1
    <3> DEFINE j == i - (Len(a) + 1)
    <3>1. j \in 1 .. Len(b) /\ i = Len(a) + 1 + j
      BY <1>2, <2>0, <2>3
    <3> HIDE DEF j
    <3>2. s[i] = b[j] /\ z[i] = B[j]
      BY <1>1, <1>3, <1>5, <3>1 DEF Divided
    <3> QED BY <1>3, <2>0, <3>1, <3>2
  <2>4. i \in Nat
    BY <1>2
  <2>5. i <= Len(a) \/ i = Len(a) + 1 \/ i > Len(a) + 1
    BY <2>0, <2>4
  <2> QED BY <2>1, <2>2, <2>3, <2>5
<1>8. S = z
  BY <1>2, <1>5, <1>6, <1>7, SameSeq
<1> QED BY <1>8 DEF S, z, s, A, B, e

\* No nodes, no entries.
LEMMA EntriesEmpty ==
  ASSUME NEW t
  PROVE  Entries(t, <<>>) = <<>>
  BY DEF Entries

\* The walk of Order is the traversal of the tree, with the keys.
LEMMA WalkedIs ==
  ASSUME NEW t \in Forest, NEW r \in Ref
  PROVE  Walked(t, r) = Entries(t, InOrder(t, r))
<1> DEFINE Fix(f) == f = [x \in Ref |-> IF x = Nil THEN <<>>
                            ELSE f[t[x].left] \o <<<<x, t[x].key>>>> \o f[t[x].right]]
           g == [x \in Ref |-> Entries(t, InOrder(t, x))]
           F == CHOOSE h : Fix(h)
<1>0. t \in Links
  BY DEF Forest
<1>1. Fix(g)
  <2>1. ASSUME NEW x \in Ref
        PROVE  g[x] = IF x = Nil THEN <<>>
                      ELSE g[t[x].left] \o <<<<x, t[x].key>>>> \o g[t[x].right]
    <3>1. CASE x = Nil
      <4> DEFINE e == <<>>
      <4>1. InOrder(t, x) = e
        BY <3>1, InOrderEq
      <4>2. Entries(t, e) = <<>>
        BY EntriesEmpty
      <4> HIDE DEF e
      <4> QED BY <3>1, <4>1, <4>2
    <3>2. CASE x # Nil
      <4>1. x \in Node
        BY <3>2 DEF Ref
      <4> DEFINE l == t[x].left
                 c == t[x].right
      <4>2. l \in Ref /\ c \in Ref
        BY <1>0, <4>1, LinksType
      <4>3. /\ InOrder(t, l) \in Seq(Node) /\ InOrder(t, c) \in Seq(Node)
            /\ InOrder(t, x) = Join(InOrder(t, l), x, InOrder(t, c))
        BY <4>1, InOrderJoin
      <4> HIDE DEF l, c
      <4>4. Entries(t, InOrder(t, x)) = Join(Entries(t, InOrder(t, l)), EntryOf(t, x), Entries(t, InOrder(t, c)))
        BY <1>0, <4>1, <4>3, EntriesJoin
      <4>5. g[x] = Join(g[l], EntryOf(t, x), g[c])
        BY <4>2, <4>4
      <4> HIDE DEF g
      <4>6. g[x] = g[l] \o <<<<x, t[x].key>>>> \o g[c]
        BY <4>5 DEF Join, EntryOf
      <4> QED BY <3>2, <4>6 DEF l, c
    <3> QED BY <3>1, <3>2
  <2>2. g = [x \in Ref |-> g[x]]
    OBVIOUS
  <2> HIDE DEF g
  <2> QED BY <2>1, <2>2
<1>2. Fix(F)
  <2> HIDE DEF g, Fix
  <2> QED BY <1>1 DEF F
<1>3. \A h, k : Fix(h) /\ Fix(k) => \A x \in Ref : h[x] = k[x]
  <2> SUFFICES ASSUME NEW h, NEW k, Fix(h), Fix(k) PROVE \A x \in Ref : h[x] = k[x]
    <3> HIDE DEF Fix
    <3> QED OBVIOUS
  <2> DEFINE S == {x \in Ref : h[x] = k[x]}
  <2>0. /\ \A x \in Ref : h[x] = IF x = Nil THEN <<>>
                            ELSE h[t[x].left] \o <<<<x, t[x].key>>>> \o h[t[x].right]
        /\ \A x \in Ref : k[x] = IF x = Nil THEN <<>>
                            ELSE k[t[x].left] \o <<<<x, t[x].key>>>> \o k[t[x].right]
    OBVIOUS
  <2> HIDE DEF Fix
  <2>1. Nil \in S
    BY <2>0 DEF Ref
  <2>2. ASSUME NEW x \in Node, t[x].left \in S, t[x].right \in S PROVE x \in S
    <3>1. x \in Ref /\ x # Nil
      BY NilAssumption DEF Ref
    <3>2. h[t[x].left] = k[t[x].left] /\ h[t[x].right] = k[t[x].right]
      BY <2>2
    <3>3. h[x] = k[x]
      <4> DEFINE e == <<<<x, t[x].key>>>>
      <4>1. h[x] = h[t[x].left] \o e \o h[t[x].right] /\ k[x] = k[t[x].left] \o e \o k[t[x].right]
        BY <2>0, <3>1
      <4> HIDE DEF e
      <4> QED BY <3>2, <4>1
    <3> QED BY <3>1, <3>3
  <2>3. \A x \in Ref : x \in S
    <3> HIDE DEF S
    <3> QED BY <2>1, <2>2, TreeInduction
  <2> QED BY <2>3
<1>4. \A x \in Ref : F[x] = g[x]
  <2> HIDE DEF Fix, F, g
  <2> QED BY <1>1, <1>2, <1>3
<1>5. Walked(t, r) = F[r]
  BY DEF Walked
<1> HIDE DEF F
<1> QED BY <1>4, <1>5

\* A part of a sequence is the sequence that has its elements.
LEMMA PartIs ==
  ASSUME NEW V, NEW s \in Seq(V), NEW z \in Seq(V), NEW m \in Nat, NEW n \in Nat, n <= Len(s),
         n = m + Len(z), \A i \in 1 .. Len(z) : s[m + i] = z[i]
  PROVE  SubSeq(s, m + 1, n) = z
<1> DEFINE p == SubSeq(s, m + 1, n)
           q == m + 1
<1>0. Len(s) \in Nat /\ Len(z) \in Nat /\ q \in Int /\ n \in Int
  OBVIOUS
<1>1. \A i \in q .. n : s[i] \in V
  <2>1. \A i \in 1 .. Len(s) : s[i] \in V
    OBVIOUS
  <2> QED BY <1>0, <2>1
<1>2. /\ SubSeq(s, q, n) \in Seq(V) /\ Len(SubSeq(s, q, n)) = IF q <= n THEN n - q + 1 ELSE 0
      /\ \A i \in 1 .. n - q + 1 : SubSeq(s, q, n)[i] = s[q + i - 1]
  <2> HIDE DEF q
  <2> QED BY <1>0, <1>1, SubSeqProperties
<1>3. p \in Seq(V) /\ Len(p) = IF q <= n THEN n - q + 1 ELSE 0
  BY <1>2
<1>4. \A i \in 1 .. n - q + 1 : p[i] = s[q + i - 1]
  BY <1>2
<1> HIDE DEF p
<1>5. Len(p) = Len(z) /\ n - q + 1 = Len(z)
  BY <1>0, <1>3
<1>6. \A i \in 1 .. Len(p) : p[i] = z[i]
  <2> TAKE i \in 1 .. Len(p)
  <2>1. i \in 1 .. n - q + 1 /\ i \in 1 .. Len(z) /\ q + i - 1 = m + i
    BY <1>0, <1>5
  <2>2. p[i] = s[q + i - 1]
    BY <1>4, <2>1
  <2> HIDE DEF q
  <2> QED BY <2>1, <2>2
<1>7. p = z
  BY <1>3, <1>5, <1>6, SameSeq
<1> QED BY <1>7 DEF p

\* InsertAt and RemoveAt, spelled out.
LEMMA InsertAtDef ==
  ASSUME NEW s, NEW i, NEW e
  PROVE  /\ InsertAt(s, i, e) = SubSeq(s, 1, i - 1) \o <<e>> \o SubSeq(s, i, Len(s))
         /\ RemoveAt(s, i) = SubSeq(s, 1, i - 1) \o SubSeq(s, i + 1, Len(s))
  BY DEF InsertAt, RemoveAt

\* An element inserted between two sequences.
LEMMA InsertAtIs ==
  ASSUME NEW V, NEW a \in Seq(V), NEW b \in Seq(V), NEW e \in V
  PROVE  InsertAt(a \o b, Len(a) + 1, e) = Join(a, e, b)
<1> DEFINE s == a \o b
           m == Len(a)
           z == 0
<1>1. /\ s \in Seq(V) /\ Len(s) = Len(a) + Len(b) /\ Len(a) \in Nat /\ Len(b) \in Nat
      /\ \A i \in 1 .. Len(a) : s[i] = a[i]
      /\ \A i \in 1 .. Len(b) : s[Len(a) + i] = b[i]
  BY ConcatIs
<1> HIDE DEF s
<1>2. SubSeq(s, 1, m) = a
  <2>1. z \in Nat /\ m \in Nat /\ m <= Len(s) /\ m = z + Len(a) /\ z + 1 = 1
    BY <1>1
  <2>2. \A i \in 1 .. Len(a) : s[z + i] = a[i]
    BY <1>1
  <2> HIDE DEF z, m
  <2>3. SubSeq(s, z + 1, m) = a
    BY <1>1, <2>1, <2>2, PartIs
  <2> QED BY <2>1, <2>3
<1>3. SubSeq(s, m + 1, Len(s)) = b
  <2> DEFINE n == Len(s)
  <2>1. n \in Nat /\ m \in Nat /\ n <= Len(s) /\ n = m + Len(b)
    BY <1>1
  <2>2. \A i \in 1 .. Len(b) : s[m + i] = b[i]
    BY <1>1
  <2> HIDE DEF n, m
  <2>3. SubSeq(s, m + 1, n) = b
    BY <1>1, <2>1, <2>2, PartIs
  <2> QED BY <2>3 DEF n
<1> DEFINE i == m + 1
<1>4. i - 1 = m /\ SubSeq(s, i, Len(s)) = b
  BY <1>1, <1>3
<1> HIDE DEF i, m
<1>5. SubSeq(s, 1, i - 1) = a
  BY <1>2, <1>4
<1>6. InsertAt(s, i, e) = a \o <<e>> \o b
  BY <1>4, <1>5, InsertAtDef
<1> QED BY <1>6 DEF Join, s, i, m

\* An element removed from between two sequences.
LEMMA RemoveAtIs ==
  ASSUME NEW V, NEW a \in Seq(V), NEW b \in Seq(V), NEW e \in V
  PROVE  RemoveAt(Join(a, e, b), Len(a) + 1) = a \o b
<1> DEFINE s == Join(a, e, b)
           m == Len(a)
           z == 0
<1>1. s \in Seq(V) /\ Divided(s, a, e, b)
  BY JoinDivided
<1> HIDE DEF s
<1>0. /\ Len(s) = Len(a) + 1 + Len(b) /\ Len(a) \in Nat /\ Len(b) \in Nat
      /\ \A i \in 1 .. Len(a) : s[i] = a[i]
      /\ \A i \in 1 .. Len(b) : s[Len(a) + 1 + i] = b[i]
  BY <1>1 DEF Divided
<1>2. SubSeq(s, 1, m) = a
  <2>1. z \in Nat /\ m \in Nat /\ m <= Len(s) /\ m = z + Len(a) /\ z + 1 = 1
    BY <1>0
  <2>2. \A i \in 1 .. Len(a) : s[z + i] = a[i]
    BY <1>0
  <2> HIDE DEF z, m
  <2>3. SubSeq(s, z + 1, m) = a
    BY <1>1, <2>1, <2>2, PartIs
  <2> QED BY <2>1, <2>3
<1>3. SubSeq(s, m + 1 + 1, Len(s)) = b
  <2> DEFINE n == Len(s)
             q == m + 1
  <2>1. n \in Nat /\ q \in Nat /\ n <= Len(s) /\ n = q + Len(b)
    BY <1>0
  <2>2. \A i \in 1 .. Len(b) : s[q + i] = b[i]
    BY <1>0
  <2> HIDE DEF n, q
  <2>3. SubSeq(s, q + 1, n) = b
    BY <1>1, <2>1, <2>2, PartIs
  <2> QED BY <2>3 DEF n, q
<1> DEFINE i == m + 1
<1>4. i - 1 = m /\ SubSeq(s, i + 1, Len(s)) = b
  BY <1>0, <1>3
<1> HIDE DEF i, m
<1>5. SubSeq(s, 1, i - 1) = a
  BY <1>2, <1>4
<1>6. RemoveAt(s, i) = a \o b
  BY <1>4, <1>5, InsertAtDef
<1> QED BY <1>6 DEF s, i, m

\* An element replaced between two sequences.
LEMMA ExceptIs ==
  ASSUME NEW V, NEW a \in Seq(V), NEW b \in Seq(V), NEW d \in V, NEW e \in V
  PROVE  [Join(a, d, b) EXCEPT ![Len(a) + 1] = e] = Join(a, e, b)
<1> DEFINE s == Join(a, d, b)
           m == Len(a) + 1
           y == Join(a, e, b)
           z == [s EXCEPT ![m] = e]
<1>1. s \in Seq(V) /\ Divided(s, a, d, b) /\ y \in Seq(V) /\ Divided(y, a, e, b)
  BY JoinDivided
<1> HIDE DEF s, y
<1>2. /\ Len(s) = Len(a) + 1 + Len(b) /\ Len(y) = Len(s) /\ Len(a) \in Nat /\ Len(b) \in Nat /\ m \in 1 .. Len(s)
      /\ s[m] = d /\ y[m] = e
  BY <1>1 DEF Divided
<1>3. z \in Seq(V) /\ Len(z) = Len(s) /\ \A i \in 1 .. Len(s) : z[i] = IF i = m THEN e ELSE s[i]
  <2> HIDE DEF m
  <2> QED BY <1>1, <1>2
<1> HIDE DEF z
<1>4. \A i \in 1 .. Len(z) : z[i] = y[i]
  <2> TAKE i \in 1 .. Len(z)
  <2>0. i \in Nat /\ i \in 1 .. Len(s)
    BY <1>1, <1>3
  <2>1. CASE i < m
    <3>1. i \in 1 .. Len(a) /\ i # m
      BY <1>2, <2>0, <2>1
    <3>2. s[i] = a[i] /\ y[i] = a[i]
      BY <1>1, <3>1 DEF Divided
    <3> QED BY <1>3, <2>0, <3>1, <3>2
  <2>2. CASE i = m
    BY <1>2, <1>3, <2>0, <2>2
  <2>3. CASE i > m
    <3> DEFINE j == i - m
    <3>1. j \in 1 .. Len(b) /\ i = Len(a) + 1 + j /\ i # m
      BY <1>2, <2>0, <2>3
    <3> HIDE DEF j
    <3>2. s[i] = b[j] /\ y[i] = b[j]
      BY <1>1, <3>1 DEF Divided
    <3> QED BY <1>3, <2>0, <3>1, <3>2
  <2>4. i < m \/ i = m \/ i > m
    BY <1>2, <2>0
  <2> QED BY <2>1, <2>2, <2>3, <2>4
<1>5. z = y
  BY <1>1, <1>2, <1>3, <1>4, SameSeq
<1> QED BY <1>5 DEF z, y, s, m

\* The entries of a part are a part of the entries.
LEMMA EntriesConcat ==
  ASSUME NEW t \in Links, NEW a \in Seq(Node), NEW b \in Seq(Node)
  PROVE  Entries(t, a \o b) = Entries(t, a) \o Entries(t, b)
<1> DEFINE s == a \o b
           A == Entries(t, a)
           B == Entries(t, b)
           S == Entries(t, s)
           z == A \o B
<1>1. /\ s \in Seq(Node) /\ Len(s) = Len(a) + Len(b) /\ Len(a) \in Nat /\ Len(b) \in Nat
      /\ \A i \in 1 .. Len(a) : s[i] = a[i]
      /\ \A i \in 1 .. Len(b) : s[Len(a) + i] = b[i]
  BY ConcatIs
<1>2. /\ S \in Seq(Noted) /\ Len(S) = Len(s)
      /\ \A i \in 1 .. Len(s) : S[i] = EntryOf(t, s[i])
  <2> HIDE DEF s
  <2> QED BY <1>1, EntriesIs
<1>3. /\ A \in Seq(Noted) /\ Len(A) = Len(a) /\ B \in Seq(Noted) /\ Len(B) = Len(b)
      /\ \A i \in 1 .. Len(a) : A[i] = EntryOf(t, a[i])
      /\ \A i \in 1 .. Len(b) : B[i] = EntryOf(t, b[i])
  BY EntriesIs
<1> HIDE DEF s, A, B, S
<1>4. /\ z \in Seq(Noted) /\ Len(z) = Len(A) + Len(B)
      /\ \A i \in 1 .. Len(A) : z[i] = A[i]
      /\ \A i \in 1 .. Len(B) : z[Len(A) + i] = B[i]
  <2>1. A \in Seq(Noted) /\ B \in Seq(Noted)
    BY <1>3
  <2> QED BY <2>1, ConcatIs
<1> HIDE DEF z
<1>5. \A i \in 1 .. Len(S) : S[i] = z[i]
  <2> TAKE i \in 1 .. Len(S)
  <2>0. i \in Nat /\ S[i] = EntryOf(t, s[i])
    BY <1>1, <1>2
  <2>1. CASE i <= Len(a)
    <3>1. i \in 1 .. Len(a)
      BY <1>1, <2>0, <2>1
    <3> QED BY <1>1, <1>3, <1>4, <2>0, <3>1
  <2>2. CASE i > Len(a)
    <3> DEFINE j == i - Len(a)
    <3>1. j \in 1 .. Len(b) /\ i = Len(a) + j
      BY <1>1, <1>2, <2>0, <2>2
    <3> HIDE DEF j
    <3>2. s[i] = b[j] /\ z[i] = B[j] /\ B[j] = EntryOf(t, b[j])
      BY <1>1, <1>3, <1>4, <3>1
    <3> QED BY <2>0, <3>2
  <2> QED BY <1>1, <2>0, <2>1, <2>2
<1>6. S = z
  BY <1>1, <1>2, <1>3, <1>4, <1>5, SameSeq
<1> QED BY <1>6 DEF S, z, s, A, B

\* The entries are the same where the keys are.
LEMMA EntriesKept ==
  ASSUME NEW t, NEW u, NEW s \in Seq(Node), \A w \in Range(s) : u[w].key = t[w].key
  PROVE  Entries(u, s) = Entries(t, s)
<1>1. \A i \in 1 .. Len(s) : s[i] \in Range(s)
  BY DEF Range
<1>2. \A i \in 1 .. Len(s) : EntryOf(u, s[i]) = EntryOf(t, s[i])
  BY <1>1 DEF EntryOf
<1> QED BY <1>2 DEF Entries

\* The abstract sequence.
LEMMA OrderNow ==
  ASSUME TreeOK
  PROVE  Order = Entries(tn, InOrder(tn, root))
<1>1. Order = Walked(tn, root)
  BY DEF Order, Walked
<1>2. tn \in Forest /\ root \in Ref
  BY TreeType
<1> QED BY <1>1, <1>2, WalkedIs

\* The abstract sequence after a step.
LEMMA OrderNext ==
  ASSUME TreeOK'
  PROVE  Order' = Entries(tn', InOrder(tn', root')) /\ tn' \in Links
<1>1. Order' = Walked(tn', root')
  BY DEF Order, Walked
<1>2. tn' \in Forest /\ root' \in Ref
  BY DEF TreeOK, Shape
<1> QED BY <1>1, <1>2, WalkedIs DEF Forest

\* What is added behind all that are not greater is where the manual says.
LEMMA AddedThere ==
  ASSUME NEW A \in Seq(Noted), NEW B \in Seq(Noted), NEW e \in Node \X Key, NEW dup \in BOOLEAN,
         \A i \in 1 .. Len(A) : A[i][2] <= e[2] /\ (~dup => A[i][2] # e[2]),
         \A i \in 1 .. Len(B) : ~(B[i][2] <= e[2]) /\ B[i][2] # e[2]
  PROVE  Join(A, e, B) \in Contents!Added(A \o B, e, dup)
<1> DEFINE old == A \o B
           equals == {i \in DOMAIN old : old[i][2] = e[2]}
           before == {i \in DOMAIN old : old[i][2] <= e[2]}
<1>1. /\ old \in Seq(Noted) /\ Len(old) = Len(A) + Len(B) /\ Len(A) \in Nat /\ Len(B) \in Nat
      /\ \A i \in 1 .. Len(A) : old[i] = A[i] /\ i \in 1 .. Len(old)
      /\ \A i \in 1 .. Len(B) : old[Len(A) + i] = B[i]
  BY ConcatIs
<1>2. DOMAIN old = 1 .. Len(old)
  BY <1>1
<1> HIDE DEF old
<1>3. \A i \in 1 .. Len(old) : i \in 1 .. Len(A) \/ \E j \in 1 .. Len(B) : i = Len(A) + j
  <2> TAKE i \in 1 .. Len(old)
  <2>1. i - Len(A) \in 1 .. Len(B) \/ i \in 1 .. Len(A)
    BY <1>1
  <2>2. i = Len(A) + (i - Len(A))
    BY <1>1
  <2> QED BY <2>1, <2>2
<1>4. before = 1 .. Len(A)
  <2>1. ASSUME NEW i \in 1 .. Len(old), old[i][2] <= e[2] PROVE i \in 1 .. Len(A)
    <3>1. ASSUME NEW j \in 1 .. Len(B), i = Len(A) + j PROVE FALSE
      <4>1. old[i] = B[j]
        BY <1>1, <3>1
      <4> QED BY <2>1, <4>1
    <3> QED BY <1>3, <3>1
  <2>2. \A i \in 1 .. Len(A) : i \in 1 .. Len(old) /\ old[i][2] <= e[2]
    BY <1>1
  <2> QED BY <1>2, <2>1, <2>2
<1>5. dup \/ equals = {}
  <2> SUFFICES ASSUME ~dup, NEW i \in 1 .. Len(old), old[i][2] = e[2] PROVE FALSE
    BY <1>2
  <2>1. ASSUME NEW j \in 1 .. Len(B), i = Len(A) + j PROVE FALSE
    <3>1. old[i] = B[j]
      BY <1>1, <2>1
    <3> QED BY <3>1
  <2>2. CASE i \in 1 .. Len(A)
    <3>1. old[i] = A[i]
      BY <1>1, <2>2
    <3> QED BY <2>2, <3>1
  <2> QED BY <1>3, <2>1, <2>2
<1>6. Contents!Cardinality(before) = Len(A)
  <2>1. Cardinality(1 .. Len(A)) = Len(A)
    <3> DEFINE m == 1
               n == Len(A)
    <3>1. m \in Int /\ n \in Int /\ (IF m > n THEN 0 ELSE n - m + 1) = n
      BY <1>1
    <3> HIDE DEF m, n
    <3>2. Cardinality(m .. n) = n
      BY <3>1, FS_Interval
    <3> QED BY <3>2 DEF m, n
  <2>2. Contents!Cardinality(before) = Cardinality(before)
    BY DEF Contents!Cardinality, Cardinality
  <2> QED BY <1>4, <2>1, <2>2
<1> HIDE DEF before, equals
<1>7. Contents!InsertAt(old, Len(A) + 1, e) = Join(A, e, B)
  <2> DEFINE k == Len(A) + 1
  <2>1. InsertAt(old, k, e) = Join(A, e, B)
    <3>1. e \in Noted
      BY DEF Noted
    <3> QED BY <3>1, InsertAtIs DEF old
  <2> HIDE DEF k
  <2>2. Contents!InsertAt(old, k, e) = InsertAt(old, k, e)
    BY DEF Contents!InsertAt, InsertAt
  <2> QED BY <2>1, <2>2 DEF k
<1>8. Contents!Added(old, e, dup) = {Contents!InsertAt(old, Contents!Cardinality(before) + 1, e)}
  BY <1>5 DEF Contents!Added, equals, before
<1> QED BY <1>6, <1>7, <1>8 DEF old

\* A sequence of nodes that stay keeps its entries.
LEMMA PartKept ==
  ASSUME TreeOK, TreeOK', SameKeys, NEW s \in Seq(Node),
         Range(s) \subseteq Within(tn, root), Range(s) \subseteq Within(tn', root')
  PROVE  Entries(tn', s) = Entries(tn, s)
<1> DEFINE t == tn
           u == tn'
<1>1. \A w \in Range(s) : u[w].key = t[w].key
  BY DEF SameKeys
<1> HIDE DEF t, u
<1>2. Entries(u, s) = Entries(t, s)
  BY <1>1, EntriesKept
<1> QED BY <1>2 DEF t, u

\* The parts of a sequence are in its range.
LEMMA PartsIn ==
  ASSUME NEW V, NEW a \in Seq(V), NEW b \in Seq(V)
  PROVE  Range(a \o b) = Range(a) \cup Range(b)
<1> DEFINE s == a \o b
<1>1. /\ s \in Seq(V) /\ Len(s) = Len(a) + Len(b) /\ Len(a) \in Nat /\ Len(b) \in Nat
      /\ \A i \in 1 .. Len(a) : s[i] = a[i] /\ i \in 1 .. Len(s)
      /\ \A i \in 1 .. Len(b) : s[Len(a) + i] = b[i] /\ Len(a) + i \in 1 .. Len(s)
  BY ConcatIs
<1> HIDE DEF s
<1>2. Range(s) = {s[i] : i \in 1 .. Len(s)} /\ Range(a) = {a[i] : i \in 1 .. Len(a)} /\ Range(b) = {b[i] : i \in 1 .. Len(b)}
  <2>1. DOMAIN s = 1 .. Len(s) /\ DOMAIN a = 1 .. Len(a) /\ DOMAIN b = 1 .. Len(b)
    BY <1>1
  <2> QED BY <2>1 DEF Range
<1>3. \A i \in 1 .. Len(s) : s[i] \in Range(a) \cup Range(b)
  <2> TAKE i \in 1 .. Len(s)
  <2>1. CASE i \in 1 .. Len(a)
    BY <1>1, <1>2, <2>1
  <2>2. CASE i \notin 1 .. Len(a)
    <3> DEFINE j == i - Len(a)
    <3>1. j \in 1 .. Len(b) /\ i = Len(a) + j
      BY <1>1, <2>2
    <3> HIDE DEF j
    <3> QED BY <1>1, <1>2, <3>1
  <2> QED BY <2>1, <2>2
<1>4. \A i \in 1 .. Len(a) : a[i] \in Range(s)
  BY <1>1, <1>2
<1>5. \A i \in 1 .. Len(b) : b[i] \in Range(s)
  BY <1>1, <1>2
<1> QED BY <1>2, <1>3, <1>4, <1>5 DEF s

\* A new node in its place is an insertion into the sequence.
LEMMA GainsContents ==
  ASSUME TreeOK, TreeOK', NEW n \in Node, NEW k \in Key, NEW dup \in BOOLEAN, Gains(n, k, dup)
  PROVE  Contents!Insert(Order)
<1>1. PICK a, b \in Seq(Node) : /\ InOrder(tn, root) = a \o b /\ InOrder(tn', root') = Join(a, n, b)
                                /\ Fits(tn, k, dup, a, b)
  BY DEF Gains
<1>2. tn \in Links /\ tn' \in Links /\ tn'[n].key = k /\ n \notin Within(tn, root) /\ SameKeys
      /\ Ordered(tn, a \o b)
  BY <1>1, TreeType, OrderNext DEF Gains
<1> DEFINE A == Entries(tn, a)
           B == Entries(tn, b)
           e == <<n, k>>
           old == A \o B
<1>3. Within(tn, root) = Range(a) \cup Range(b) /\ Range(a) \cup Range(b) \subseteq Within(tn', root')
  BY <1>1, PartsIn, JoinDivided DEF Within
<1>4. Order = old
  BY <1>1, <1>2, OrderNow, EntriesConcat
<1>5. Order' = Join(A, e, B)
  <2> DEFINE u == tn'
             s == Join(a, n, b)
  <2>1. Order' = Entries(u, s)
    BY <1>1, OrderNext
  <2>2. u \in Links
    BY <1>2
  <2>3. Entries(u, a) = A /\ Entries(u, b) = B /\ EntryOf(u, n) = e
    BY <1>2, <1>3, PartKept DEF EntryOf
  <2> HIDE DEF u, A, B, e
  <2>4. Entries(u, s) = Join(Entries(u, a), EntryOf(u, n), Entries(u, b))
    BY <2>2, EntriesJoin
  <2> QED BY <2>1, <2>3, <2>4
<1>6. /\ A \in Seq(Noted) /\ Len(A) = Len(a) /\ \A i \in 1 .. Len(a) : A[i] = EntryOf(tn, a[i])
      /\ B \in Seq(Noted) /\ Len(B) = Len(b) /\ \A i \in 1 .. Len(b) : B[i] = EntryOf(tn, b[i])
  BY <1>2, EntriesIs
<1>7. e \in Contents!Entry /\ e \in Node \X Key /\ e[1] = n /\ e[2] = k
  BY DEF Contents!Entry
<1> HIDE DEF A, B, e, old
<1>8. \A i \in 1 .. Len(A) : A[i][2] <= e[2] /\ (~dup => A[i][2] # e[2])
  <2> TAKE i \in 1 .. Len(A)
  <2>1. A[i][2] = tn[a[i]].key
    BY <1>6 DEF EntryOf
  <2>2. tn[a[i]].key <= k /\ (~dup => tn[a[i]].key < k)
    BY <1>1, <1>6 DEF Fits
  <2>3. tn[a[i]].key \in Nat /\ k \in Nat
    BY <1>2, <1>6, OrderedEnds, KeyAssumption
  <2> QED BY <1>7, <2>1, <2>2, <2>3
<1>9. \A i \in 1 .. Len(B) : ~(B[i][2] <= e[2]) /\ B[i][2] # e[2]
  <2> TAKE i \in 1 .. Len(B)
  <2>1. B[i][2] = tn[b[i]].key
    BY <1>6 DEF EntryOf
  <2>2. k < tn[b[i]].key
    BY <1>1, <1>6 DEF Fits
  <2>3. tn[b[i]].key \in Nat /\ k \in Nat
    BY <1>2, <1>6, OrderedEnds, KeyAssumption
  <2> QED BY <1>7, <2>1, <2>2, <2>3
<1>10. Order' \in Contents!Added(old, e, dup)
  <2>1. A \in Seq(Noted) /\ B \in Seq(Noted)
    BY <1>6
  <2>2. Join(A, e, B) \in Contents!Added(A \o B, e, dup)
    BY <1>7, <1>8, <1>9, <2>1, AddedThere
  <2> QED BY <1>5, <2>2 DEF old
<1>11. \A i \in DOMAIN old : old[i][1] # e[1]
  <2>1. old = Entries(tn, a \o b)
    BY <1>2, EntriesConcat DEF old, A, B
  <2>2. a \o b \in Seq(Node)
    BY ConcatIs
  <2> DEFINE s == a \o b
  <2>3. \A i \in DOMAIN s : s[i] \in Within(tn, root)
    BY <1>1 DEF Within, Range
  <2>4. DOMAIN s = 1 .. Len(s)
    BY <2>2
  <2> HIDE DEF s
  <2>5. DOMAIN Entries(tn, s) = 1 .. Len(s) /\ \A i \in 1 .. Len(s) : Entries(tn, s)[i] = EntryOf(tn, s[i])
    BY <1>2, <2>2, EntriesIs DEF s
  <2>6. \A i \in DOMAIN Entries(tn, s) : Entries(tn, s)[i][1] # n
    BY <1>2, <2>3, <2>4, <2>5 DEF EntryOf
  <2> QED BY <1>7, <2>1, <2>6 DEF s
<1> QED BY <1>4, <1>7, <1>10, <1>11 DEF Contents!Insert

\* A node that replaces another with its key is an insertion without duplicates.
LEMMA TradesContents ==
  ASSUME TreeOK, TreeOK', NEW n \in Node, NEW k \in Key, Trades(n, k)
  PROVE  Contents!Insert(Order)
<1>1. PICK a, b \in Seq(Node), m \in Node :
        /\ InOrder(tn, root) = Join(a, m, b) /\ InOrder(tn', root') = Join(a, n, b)
        /\ tn[m].key = k
  BY DEF Trades
<1>2. tn \in Links /\ tn' \in Links /\ tn'[n].key = k /\ n \notin Within(tn, root) /\ SameKeys
  BY TreeType, OrderNext DEF Trades
<1> DEFINE A == Entries(tn, a)
           B == Entries(tn, b)
           d == <<m, k>>
           e == <<n, k>>
           old == Join(A, d, B)
           i == Len(a) + 1
<1>3. /\ Range(a) \subseteq Within(tn, root) /\ Range(b) \subseteq Within(tn, root)
      /\ Range(a) \subseteq Within(tn', root') /\ Range(b) \subseteq Within(tn', root')
  BY <1>1, JoinDivided DEF Within
<1>4. Order = old
  <2>1. EntryOf(tn, m) = d
    BY <1>1 DEF EntryOf
  <2> HIDE DEF d
  <2> QED BY <1>1, <1>2, <2>1, OrderNow, EntriesJoin
<1>5. Order' = Join(A, e, B)
  <2> DEFINE u == tn'
             s == Join(a, n, b)
  <2>1. Order' = Entries(u, s)
    BY <1>1, OrderNext
  <2>2. u \in Links
    BY <1>2
  <2>3. Entries(u, a) = A /\ Entries(u, b) = B /\ EntryOf(u, n) = e
    BY <1>2, <1>3, PartKept DEF EntryOf
  <2> HIDE DEF u, A, B, e
  <2>4. Entries(u, s) = Join(Entries(u, a), EntryOf(u, n), Entries(u, b))
    BY <2>2, EntriesJoin
  <2> QED BY <2>1, <2>3, <2>4
<1>6. A \in Seq(Noted) /\ Len(A) = Len(a) /\ B \in Seq(Noted) /\ Len(B) = Len(b)
  BY <1>2, EntriesIs
<1>7. e \in Contents!Entry /\ e \in Noted /\ d \in Noted /\ e[1] = n /\ e[2] = k /\ d[2] = k
  BY DEF Contents!Entry, Noted
<1>8. /\ old \in Seq(Noted) /\ Divided(old, A, d, B)
  <2> HIDE DEF A, B, d
  <2> QED BY <1>6, <1>7, JoinDivided
<1>9. i \in DOMAIN old /\ old[i][2] = e[2]
  <2> HIDE DEF A, B, d, e, old
  <2>1. Len(old) = Len(a) + 1 + Len(b) /\ old[i] = d /\ Len(a) \in Nat /\ Len(b) \in Nat
    BY <1>6, <1>8 DEF Divided
  <2>2. DOMAIN old = 1 .. Len(old) /\ i \in 1 .. Len(old)
    BY <1>8, <2>1
  <2> QED BY <1>7, <2>1, <2>2
<1>10. [old EXCEPT ![i] = e] = Order'
  <2> HIDE DEF A, B, d, e
  <2>1. A \in Seq(Noted) /\ B \in Seq(Noted) /\ d \in Noted /\ e \in Noted
    BY <1>6, <1>7
  <2>2. [Join(A, d, B) EXCEPT ![Len(A) + 1] = e] = Join(A, e, B)
    BY <2>1, ExceptIs
  <2> QED BY <1>5, <1>6, <2>2
<1>11. \A j \in DOMAIN old : old[j][1] # e[1]
  <2> DEFINE s == InOrder(tn, root)
  <2>1. Order = Entries(tn, s) /\ s \in Seq(Node)
    BY OrderNow, TreeType
  <2>3. \A j \in DOMAIN s : s[j] \in Within(tn, root)
    BY DEF Within, Range
  <2> HIDE DEF s
  <2>4. DOMAIN s = 1 .. Len(s)
    BY <2>1
  <2>5. DOMAIN Entries(tn, s) = 1 .. Len(s) /\ \A j \in 1 .. Len(s) : Entries(tn, s)[j] = EntryOf(tn, s[j])
    BY <1>2, <2>1, EntriesIs
  <2>6. \A j \in DOMAIN Entries(tn, s) : Entries(tn, s)[j][1] # n
    BY <1>2, <2>3, <2>4, <2>5 DEF EntryOf
  <2> HIDE DEF old, e
  <2> QED BY <1>4, <1>7, <2>1, <2>6
<1> HIDE DEF old, e, i
<1>12. Order' \in Contents!Added(old, e, FALSE)
  BY <1>9, <1>10 DEF Contents!Added
<1> QED BY <1>4, <1>7, <1>11, <1>12 DEF Contents!Insert

\* A node that goes is a deletion from the sequence.
LEMMA LosesContents ==
  ASSUME TreeOK, TreeOK', Loses
  PROVE  Contents!Delete(Order)
<1>1. PICK a, b \in Seq(Node), n \in Node :
        InOrder(tn, root) = Join(a, n, b) /\ InOrder(tn', root') = a \o b
  BY DEF Loses
<1>2. tn \in Links /\ tn' \in Links /\ SameKeys
  BY TreeType, OrderNext DEF Loses
<1> DEFINE A == Entries(tn, a)
           B == Entries(tn, b)
           d == EntryOf(tn, n)
           old == Join(A, d, B)
           i == Len(a) + 1
<1>3. /\ Range(a) \subseteq Within(tn, root) /\ Range(b) \subseteq Within(tn, root)
      /\ Range(a) \subseteq Within(tn', root') /\ Range(b) \subseteq Within(tn', root')
  BY <1>1, JoinDivided, PartsIn DEF Within
<1>4. Order = old
  BY <1>1, <1>2, OrderNow, EntriesJoin
<1>5. Order' = A \o B
  <2> DEFINE u == tn'
             s == a \o b
  <2>1. Order' = Entries(u, s)
    BY <1>1, OrderNext
  <2>2. u \in Links
    BY <1>2
  <2>3. Entries(u, a) = A /\ Entries(u, b) = B
    BY <1>2, <1>3, PartKept
  <2> HIDE DEF u, A, B
  <2>4. Entries(u, s) = Entries(u, a) \o Entries(u, b)
    BY <2>2, EntriesConcat
  <2> QED BY <2>1, <2>3, <2>4
<1>6. A \in Seq(Noted) /\ Len(A) = Len(a) /\ B \in Seq(Noted) /\ Len(B) = Len(b)
  BY <1>2, EntriesIs
<1>7. d \in Noted
  BY <1>2, LinksType DEF EntryOf, Noted
<1> HIDE DEF A, B, d
<1>8. old \in Seq(Noted) /\ Divided(old, A, d, B)
  BY <1>6, <1>7, JoinDivided
<1>9. i \in DOMAIN old
  <2> HIDE DEF old
  <2>1. Len(old) = Len(a) + 1 + Len(b) /\ Len(a) \in Nat /\ Len(b) \in Nat
    BY <1>6, <1>8 DEF Divided
  <2> QED BY <1>8, <2>1
<1>10. Contents!RemoveAt(old, i) = Order'
  <2>1. A \in Seq(Noted) /\ B \in Seq(Noted)
    BY <1>6
  <2>2. RemoveAt(Join(A, d, B), Len(A) + 1) = A \o B
    BY <1>7, <2>1, RemoveAtIs
  <2> HIDE DEF i
  <2>3. Contents!RemoveAt(old, i) = RemoveAt(old, i)
    BY DEF Contents!RemoveAt, RemoveAt
  <2>4. RemoveAt(old, i) = Order'
    BY <1>5, <1>6, <2>2 DEF i
  <2> QED BY <2>3, <2>4
<1> HIDE DEF old, i
<1> QED BY <1>4, <1>9, <1>10 DEF Contents!Delete

\* An empty tree is an empty sequence.
LEMMA ClearContents ==
  ASSUME TreeOK', Emptied
  PROVE  Contents!Clear
<1> DEFINE e == <<>>
<1>1. InOrder(tn', root') = e
  BY DEF Emptied
<1>2. Order' = Entries(tn', InOrder(tn', root'))
  BY OrderNext
<1>3. Entries(tn', e) = e
  BY EntriesEmpty
<1> HIDE DEF e
<1>4. Order' = e
  BY <1>1, <1>2, <1>3
<1> QED BY <1>4 DEF Contents!Clear, e

\* Every step of the tree is a step of the sequence, or cannot be seen in it.
LEMMA StepContents ==
  ASSUME Inv, [Next]_vars
  PROVE  [Contents!Next]_Order
<1>1. Inv' /\ TreeOK /\ TreeOK'
  BY NextInv DEF Inv
<1>2. CASE TreeStep
  <2>1. Changes
    BY <1>2, TreeStepOK
  <2>2. ASSUME NEW n \in Node, NEW k \in Key, NEW dup \in BOOLEAN, Gains(n, k, dup) \/ Trades(n, k)
        PROVE  Contents!Insert(Order)
    BY <1>1, <2>2, GainsContents, TradesContents
  <2>3. ASSUME Loses PROVE Contents!Delete(Order)
    BY <1>1, <2>3, LosesContents
  <2>4. ASSUME Emptied PROVE Contents!Clear
    BY <1>1, <2>4, ClearContents
  <2>5. Contents!Clear \/ Contents!Delete(Order) \/ Contents!Insert(Order)
    BY <2>1, <2>2, <2>3, <2>4 DEF Changes
  <2> QED BY <2>5 DEF Contents!Next
<1>3. CASE ~TreeStep
  <2>1. UNCHANGED treeVars
    BY <1>3 DEF Next, TreeStep, Begin, TreeNext, Copy, vars
  <2>2. tn' = tn /\ root' = root
    BY <2>1 DEF treeVars
  <2>3. Order = Walked(tn, root) /\ Order' = Walked(tn', root')
    BY DEF Order, Walked
  <2>4. Order' = Order
    BY <2>2, <2>3
  <2> QED BY <2>4
<1> QED BY <1>2, <1>3

\* The tree is a sequence of nodes in the order of their keys: tree_insert puts a duplicate
\* after its equals, or replaces one of them, the deletions take one node out, and rebuilding,
\* looking up and iterating change nothing that can be seen.
THEOREM ImplementsSequence == Spec => Implements
<1>1. Init => Contents!Init
  <2> SUFFICES ASSUME Init PROVE Contents!Init
    OBVIOUS
  <2> DEFINE e == <<>>
  <2>1. tn \in Forest /\ root = Nil /\ TreeOK
    BY InitOK, TreeType DEF Inv, Init
  <2>2. InOrder(tn, root) = e
    BY <2>1, InOrderEq
  <2>3. Order = Entries(tn, InOrder(tn, root)) /\ Entries(tn, e) = e
    BY <2>1, OrderNow, EntriesEmpty
  <2> HIDE DEF e
  <2>4. Order = e
    BY <2>2, <2>3
  <2> QED BY <2>4 DEF Contents!Init, e
<1>2. Inv /\ [Next]_vars => [Contents!Next]_Order
  BY StepContents
<1> QED BY <1>1, <1>2, TreesInv, PTL DEF Spec, Implements, Contents!Spec
=============================================================================

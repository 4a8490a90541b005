----------------------------- MODULE TreeShapes -----------------------------
(***************************************************************************)
(* Facts about binary trees of nodes and their order, whatever the nodes   *)
(* and the keys: what it makes of a tree to replace a subtree, to take a   *)
(* node out, to hang a leaf, and to flatten nodes and build a balanced     *)
(* tree of them.                                                           *)
(*                                                                         *)
(* Links that form no cycle are a Forest: a rank falls from each node to   *)
(* its children.  The walks over a tree are recursive functions of the     *)
(* node; what they compute is shown by going to a node of least rank for   *)
(* which it would fail (TreeInduction), and a tree is taken apart along    *)
(* the way from its root to a node (Chain, NextTo): the nodes in order are *)
(* some, those of the subtree, and the rest.                               *)
(***************************************************************************)
EXTENDS Tree, SequenceTheorems, LeastNumber, TLAPS

\* The links of the nodes, whatever tree or trees they form.
Links == [Node -> [key : Key \cup {Nil}, left : Ref, right : Ref]]

\* Every node is above its children.
Descends(t, r) ==
  \A x \in Node : /\ t[x].left # Nil => r[t[x].left] < r[x]
                  /\ t[x].right # Nil => r[t[x].right] < r[x]

\* Links without a cycle.
Forest == {t \in Links : \E r \in [Node -> Nat] : Descends(t, r)}

\* Max, of two numbers and of a bounded set of numbers.
LEMMA MaxOfTwo ==
  ASSUME NEW a \in Nat, NEW b \in Nat
  PROVE  /\ Max({a, b}) \in Nat /\ Max({a, b}) \in {a, b}
         /\ a <= Max({a, b}) /\ b <= Max({a, b})
<1>1. \E m \in {a, b} : \A x \in {a, b} : x <= m
  BY SMT
<1>2. Max({a, b}) \in {a, b} /\ \A x \in {a, b} : x <= Max({a, b})
  BY <1>1 DEF Max
<1> QED BY <1>2

\* Max of a bounded set of numbers is its greatest element.
LEMMA MaxOfSet ==
  ASSUME NEW T, T \subseteq Nat, T # {}, NEW n \in Nat, \A x \in T : x <= n
  PROVE  Max(T) \in T /\ \A x \in T : x <= Max(T)
<1>1. \E m \in T : \A x \in T : x <= m
  BY GreatestNat
<1> QED BY <1>1 DEF Max

\* Min of a set of numbers is its least element.
LEMMA MinOfSet ==
  ASSUME NEW T, T \subseteq Nat, T # {}
  PROVE  Min(T) \in T /\ \A x \in T : Min(T) <= x
<1>1. \E m \in T : \A x \in T : m <= x
  BY LeastNat
<1> QED BY <1>1 DEF Min

-----------------------------------------------------------------------------
(* Induction and recursion over trees.                                     *)

\* The fields of a node.
LEMMA LinksType ==
  ASSUME NEW t \in Links, NEW x \in Node
  PROVE  t[x].left \in Ref /\ t[x].right \in Ref /\ t[x].key \in Key \cup {Nil}
         /\ x \in Ref /\ Nil \in Ref /\ x # Nil
  BY NilAssumption DEF Links, Ref

\* What holds of the empty tree, and of a node when it holds of its children,
\* holds of every tree.
LEMMA TreeInduction ==
  ASSUME NEW t \in Forest, NEW S, Nil \in S,
         \A x \in Node : t[x].left \in S /\ t[x].right \in S => x \in S
  PROVE  \A x \in Ref : x \in S
<1>1. PICK r \in [Node -> Nat] : Descends(t, r)
  BY DEF Forest
<1> DEFINE T == {r[x] : x \in Node \ S}
<1> SUFFICES ASSUME T # {} PROVE FALSE
  BY DEF Ref
<1>2. T \subseteq Nat
  OBVIOUS
<1>3. PICK n \in T : \A m \in T : n <= m
  <2> HIDE DEF T
  <2> QED BY <1>2, LeastNat
<1>4. PICK x \in Node \ S : n = r[x]
  BY <1>3
<1>5. \A y \in Node : r[y] < r[x] => y \in S
  <2> SUFFICES ASSUME NEW y \in Node, r[y] < r[x], y \notin S PROVE FALSE
    OBVIOUS
  <2>1. r[y] \in T /\ r[y] \in Nat /\ r[x] \in Nat
    OBVIOUS
  <2> HIDE DEF T
  <2> QED BY <1>3, <1>4, <2>1
<1>6. t[x].left \in S /\ t[x].right \in S
  BY <1>1, <1>5, LinksType DEF Descends, Ref, Forest
<1> QED BY <1>4, <1>6

\* A function on trees is defined by its value on the empty tree, and on a node
\* from its values on the children.
LEMMA TreeRecursion ==
  ASSUME NEW t \in Forest, NEW V, NEW b \in V, NEW G \in [Node -> [V -> [V -> V]]]
  PROVE  \E f \in [Ref -> V] :
           /\ f[Nil] = b
           /\ \A x \in Node : f[x] = G[x][f[t[x].left]][f[t[x].right]]
<1>1. PICK r \in [Node -> Nat] : Descends(t, r)
  BY DEF Forest
<1>0. t \in Links /\ Nil \in Ref /\ Nil \notin Node /\ Node \subseteq Ref
  BY NilAssumption DEF Forest, Ref
<1> DEFINE rhs(f, x) == IF x = Nil THEN b ELSE G[x][f[t[x].left]][f[t[x].right]]
           Part(f, n) == /\ f \in [Ref -> V]
                         /\ f[Nil] = b
                         /\ \A x \in Node : r[x] < n => f[x] = rhs(f, x)
           T == {n \in Nat : ~\E f : Part(f, n)}
<1>2. \A f \in [Ref -> V] : [x \in Ref |-> rhs(f, x)] \in [Ref -> V]
  <2> TAKE f \in [Ref -> V]
  <2>1. ASSUME NEW x \in Ref PROVE rhs(f, x) \in V
    <3>1. CASE x = Nil
      BY <3>1
    <3>2. CASE x # Nil
      <4>1. x \in Node
        BY <3>2 DEF Ref
      <4>2. f[t[x].left] \in V /\ f[t[x].right] \in V
        BY <1>0, <4>1, LinksType
      <4>3. G[x][f[t[x].left]][f[t[x].right]] \in V
        BY <4>1, <4>2
      <4> QED BY <4>3, <3>2
    <3> QED BY <3>1, <3>2
  <2> HIDE DEF rhs
  <2> QED BY <2>1
<1>3. \A n \in Nat : \E f : Part(f, n)
  <2> SUFFICES ASSUME T # {} PROVE FALSE
    OBVIOUS
  <2>1. PICK n \in T : \A m \in T : n <= m
    <3>1. T \subseteq Nat
      OBVIOUS
    <3> HIDE DEF T
    <3> QED BY <3>1, LeastNat
  <2>2. n # 0
    <3> DEFINE g == [x \in Ref |-> b]
    <3>1. g \in [Ref -> V] /\ g[Nil] = b
      BY <1>0
    <3>2. \A x \in Node : ~(r[x] < 0)
      <4> HIDE DEF g, Part, T, rhs
      <4> QED OBVIOUS
    <3>3. Part(g, 0)
      <4> HIDE DEF g, rhs
      <4> QED BY <3>1, <3>2
    <3>4. \E f : Part(f, 0)
      <4> HIDE DEF g, Part
      <4> QED BY <3>3
    <3>5. 0 \notin T
      <4> HIDE DEF g, Part
      <4> QED BY <3>4
    <3> HIDE DEF T, Part, g
    <3> QED BY <2>1, <3>5
  <2>3. PICK f : Part(f, n - 1)
    <3>1. n - 1 \in Nat /\ ~(n <= n - 1)
      <4>1. n \in Nat
        <5> HIDE DEF Part
        <5> QED BY <2>1
      <4> HIDE DEF T, Part
      <4> QED BY <2>2, <4>1
    <3> QED BY <2>1, <3>1
  <2> DEFINE g == [x \in Ref |-> rhs(f, x)]
  <2>4. g \in [Ref -> V] /\ g[Nil] = b
    BY <1>0, <1>2, <2>3
  <2>5. \A y \in Node : r[y] < n - 1 => g[y] = f[y]
    BY <1>0, <2>3
  <2>6. ASSUME NEW x \in Node, r[x] < n PROVE g[x] = rhs(g, x)
    <3>1. \A y \in Ref : (y # Nil => r[y] < r[x]) => g[y] = f[y]
      <4> SUFFICES ASSUME NEW y \in Ref, y # Nil => r[y] < r[x] PROVE g[y] = f[y]
        OBVIOUS
      <4>1. CASE y = Nil
        BY <4>1, <2>3, <2>4
      <4>2. CASE y # Nil
        <5>1. y \in Node /\ r[y] \in Nat /\ r[x] \in Nat /\ n \in Nat
          BY <4>2, <2>1 DEF Ref
        <5>2. r[y] < n - 1
          <6> HIDE DEF g, Part, T, rhs
          <6> QED BY <4>2, <5>1, <2>6
        <5> HIDE DEF g
        <5> QED BY <5>1, <5>2, <2>5
      <4> QED BY <4>1, <4>2
    <3>2. g[x] = rhs(f, x) /\ x # Nil
      BY <1>0
    <3> HIDE DEF g
    <3>3. g[t[x].left] = f[t[x].left] /\ g[t[x].right] = f[t[x].right]
      BY <1>1, <1>0, <3>1, LinksType DEF Descends
    <3> QED BY <3>2, <3>3
  <2>7. Part(g, n)
    <3> HIDE DEF g, rhs
    <3> QED BY <2>4, <2>6
  <2> HIDE DEF Part, g
  <2> QED BY <2>7, <2>1
<1>4. \A f, g : \A n, m \in Nat : Part(f, n) /\ Part(g, m) =>
        \A x \in Node : r[x] < n /\ r[x] < m => f[x] = g[x]
  <2> SUFFICES ASSUME NEW f, NEW g, NEW n \in Nat, NEW m \in Nat, Part(f, n), Part(g, m)
               PROVE \A x \in Node : r[x] < n /\ r[x] < m => f[x] = g[x]
    <3> HIDE DEF Part
    <3> QED OBVIOUS
  <2> DEFINE S == {x \in Ref : x = Nil \/ (r[x] < n /\ r[x] < m => f[x] = g[x])}
  <2>1. Nil \in S
    BY <1>0
  <2>2. ASSUME NEW x \in Node, t[x].left \in S, t[x].right \in S PROVE x \in S
    <3>1. SUFFICES ASSUME r[x] < n, r[x] < m PROVE f[x] = g[x]
      BY <1>0
    <3>2. \A y \in S : (y # Nil => r[y] < r[x]) => f[y] = g[y]
      <4> SUFFICES ASSUME NEW y \in S, y # Nil => r[y] < r[x] PROVE f[y] = g[y]
        OBVIOUS
      <4>1. CASE y # Nil
        <5>1. r[y] \in Nat /\ r[x] \in Nat
          BY <4>1 DEF Ref
        <5> QED BY <5>1, <3>1, <4>1
      <4> QED BY <4>1
    <3>3. f[t[x].left] = g[t[x].left] /\ f[t[x].right] = g[t[x].right]
      <4> HIDE DEF S, Part
      <4> QED BY <1>1, <2>2, <3>2 DEF Descends
    <3>4. f[x] = rhs(f, x) /\ g[x] = rhs(g, x) /\ x # Nil
      BY <3>1, <1>0
    <3> QED BY <3>3, <3>4
  <2>3. \A x \in Ref : x \in S
    <3> HIDE DEF S
    <3> QED BY <2>1, <2>2, TreeInduction
  <2> QED BY <2>3, <1>0
<1> DEFINE F(x) == CHOOSE f : Part(f, r[x] + 1)
           h == [x \in Ref |-> IF x = Nil THEN b ELSE F(x)[x]]
<1>5. \A x \in Node : Part(F(x), r[x] + 1)
  <2> TAKE x \in Node
  <2>1. r[x] + 1 \in Nat
    OBVIOUS
  <2> HIDE DEF Part
  <2> QED BY <1>3, <2>1
<1>6. \A x \in Node : \A n \in Nat : \A f : Part(f, n) /\ r[x] < n => h[x] = f[x]
  <2> TAKE x \in Node
  <2>0. h[x] = F(x)[x]
    <3> HIDE DEF F
    <3> QED BY <1>0
  <2>1. h[x] = F(x)[x] /\ r[x] + 1 \in Nat /\ r[x] < r[x] + 1
    <3> HIDE DEF F, h
    <3> QED BY <2>0
  <2> HIDE DEF Part, F, h
  <2> QED BY <1>4, <1>5, <2>1
<1>7. h \in [Ref -> V] /\ h[Nil] = b
  <2>1. \A x \in Node : F(x)[x] \in V
    <3> TAKE x \in Node
    <3>1. F(x) \in [Ref -> V]
      BY <1>5
    <3> HIDE DEF F
    <3> QED BY <3>1, <1>0
  <2> HIDE DEF F, Part
  <2> QED BY <1>0, <2>1 DEF Ref
<1>8. ASSUME NEW x \in Node PROVE h[x] = rhs(h, x)
  <2>1. PICK f : Part(f, r[x] + 1)
    <3> HIDE DEF Part, F
    <3> QED BY <1>5
  <2>2. r[x] \in Nat /\ r[x] + 1 \in Nat /\ r[x] < r[x] + 1
    OBVIOUS
  <2>3. \A y \in Ref : (y # Nil => r[y] < r[x]) => h[y] = f[y]
    <3> SUFFICES ASSUME NEW y \in Ref, y # Nil => r[y] < r[x] PROVE h[y] = f[y]
      OBVIOUS
    <3>1. CASE y = Nil
      <4> HIDE DEF h
      <4> QED BY <3>1, <2>1, <1>7
    <3>2. CASE y # Nil
      <4>1. y \in Node /\ r[y] \in Nat
        BY <3>2 DEF Ref
      <4>2. r[y] < r[x] + 1
        BY <4>1, <3>2, <2>2
      <4> HIDE DEF h, Part
      <4> QED BY <4>1, <4>2, <2>1, <2>2, <1>6
    <3> QED BY <3>1, <3>2
  <2>4. f[x] = rhs(f, x) /\ x # Nil
    BY <2>1, <2>2, <1>0
  <2>5. h[x] = f[x]
    <3> HIDE DEF h, Part
    <3> QED BY <2>1, <2>2, <1>6
  <2>6. h[t[x].left] = f[t[x].left] /\ h[t[x].right] = f[t[x].right]
    <3> HIDE DEF h, Part
    <3> QED BY <1>1, <1>0, <2>3, LinksType DEF Descends
  <2> HIDE DEF h
  <2> QED BY <2>4, <2>5, <2>6
<1>9. \A x \in Node : h[x] = G[x][h[t[x].left]][h[t[x].right]]
  <2> TAKE x \in Node
  <2>1. h[x] = rhs(h, x) /\ x # Nil
    <3> HIDE DEF h, rhs
    <3> QED BY <1>8, <1>0
  <2> HIDE DEF h
  <2> QED BY <2>1
<1> HIDE DEF h
<1> QED BY <1>7, <1>9

\* The nodes of a tree are those of its left subtree, its root and those of its
\* right subtree.
LEMMA InOrderEq ==
  ASSUME NEW t \in Forest
  PROVE  /\ InOrder(t, Nil) = <<>>
         /\ \A x \in Ref : InOrder(t, x) \in Seq(Node)
         /\ \A x \in Node : InOrder(t, x) = InOrder(t, t[x].left) \o <<x>> \o InOrder(t, t[x].right)
<1> DEFINE V == Seq(Node)
           G == [x \in Node |-> [a \in V |-> [c \in V |-> a \o <<x>> \o c]]]
           Fix(f) == f = [x \in Ref |-> IF x = Nil THEN <<>> ELSE f[t[x].left] \o <<x>> \o f[t[x].right]]
<1>1. <<>> \in V
  OBVIOUS
<1>2. G \in [Node -> [V -> [V -> V]]]
  <2>1. \A x \in Node : \A a, c \in V : a \o <<x>> \o c \in V
    OBVIOUS
  <2> HIDE DEF V
  <2> QED BY <2>1
<1>3. \E f \in [Ref -> V] : f[Nil] = <<>>
        /\ \A x \in Node : f[x] = G[x][f[t[x].left]][f[t[x].right]]
  <2> HIDE DEF G, V
  <2>1. \A b \in V : \A H \in [Node -> [V -> [V -> V]]] :
          \E f \in [Ref -> V] : /\ f[Nil] = b
            /\ \A x \in Node : f[x] = H[x][f[t[x].left]][f[t[x].right]]
    BY TreeRecursion
  <2> QED BY <1>1, <1>2, <2>1
<1>4. PICK f \in [Ref -> V] : Fix(f)
  <2>1. PICK f \in [Ref -> V] : f[Nil] = <<>>
          /\ \A x \in Node : f[x] = G[x][f[t[x].left]][f[t[x].right]]
    BY <1>3
  <2>2. \A x \in Ref : f[x] = IF x = Nil THEN <<>> ELSE f[t[x].left] \o <<x>> \o f[t[x].right]
    <3> HIDE DEF V
    <3> SUFFICES ASSUME NEW x \in Ref, x # Nil PROVE f[x] = f[t[x].left] \o <<x>> \o f[t[x].right]
      BY <2>1
    <3>1. x \in Node /\ t \in Links
      BY DEF Ref, Forest
    <3>2. f[t[x].left] \in V /\ f[t[x].right] \in V
      BY <3>1, LinksType
    <3> QED BY <2>1, <3>1, <3>2
  <2> HIDE DEF V, G
  <2>3. Fix(f)
    BY <2>2
  <2> QED BY <2>3
<1> DEFINE F == CHOOSE g : Fix(g)
<1>5. Fix(F)
  BY <1>4
<1>6. \A g, h : Fix(g) /\ Fix(h) => \A x \in Ref : g[x] = h[x]
  <2> SUFFICES ASSUME NEW g, NEW h, Fix(g), Fix(h) PROVE \A x \in Ref : g[x] = h[x]
    <3> HIDE DEF Fix
    <3> QED OBVIOUS
  <2> DEFINE S == {x \in Ref : g[x] = h[x]}
  <2>1. Nil \in S
    BY DEF Ref
  <2>2. ASSUME NEW x \in Node, t[x].left \in S, t[x].right \in S PROVE x \in S
    <3>1. /\ g[x] = (IF x = Nil THEN <<>> ELSE g[t[x].left] \o <<x>> \o g[t[x].right])
          /\ h[x] = (IF x = Nil THEN <<>> ELSE h[t[x].left] \o <<x>> \o h[t[x].right])
      BY DEF Ref
    <3>2. g[x] = g[t[x].left] \o <<x>> \o g[t[x].right] /\ h[x] = h[t[x].left] \o <<x>> \o h[t[x].right] /\ x \in Ref
      BY <3>1, NilAssumption DEF Ref
    <3> HIDE DEF Fix
    <3> QED BY <2>2, <3>2
  <2>3. \A x \in Ref : x \in S
    <3> HIDE DEF S
    <3> QED BY <2>1, <2>2, TreeInduction
  <2> QED BY <2>3
<1>7. \A x \in Ref : F[x] = f[x]
  <2> HIDE DEF Fix, F
  <2> QED BY <1>4, <1>5, <1>6
<1>8. \A x : InOrder(t, x) = F[x]
  BY DEF InOrder
<1>9. \A x \in Ref : f[x] = IF x = Nil THEN <<>> ELSE f[t[x].left] \o <<x>> \o f[t[x].right]
  BY <1>4
<1> HIDE DEF F, Fix, G
<1>10. \A x \in Node : x \in Ref /\ x # Nil /\ t[x].left \in Ref /\ t[x].right \in Ref
  BY LinksType, NilAssumption DEF Forest
<1>11. Nil \in Ref /\ \A x \in Ref : f[x] \in V
  BY DEF Ref
<1>12. \A x \in Ref : InOrder(t, x) = f[x]
  BY <1>7, <1>8
<1> HIDE DEF V
<1>13. \A x \in Ref : InOrder(t, x) \in V
  BY <1>11, <1>12
<1>14. InOrder(t, Nil) = <<>>
  BY <1>9, <1>11, <1>12
<1>15. \A x \in Node : InOrder(t, x) = InOrder(t, t[x].left) \o <<x>> \o InOrder(t, t[x].right)
  BY <1>9, <1>10, <1>12
<1> QED BY <1>13, <1>14, <1>15 DEF V

\* A tree has as many nodes as its subtrees and one more.
LEMMA CountEq ==
  ASSUME NEW t \in Forest
  PROVE  /\ Count(t, Nil) = 0
         /\ \A x \in Ref : Count(t, x) \in Nat
         /\ \A x \in Node : Count(t, x) = 1 + Count(t, t[x].left) + Count(t, t[x].right)
<1> DEFINE V == Nat
           G == [x \in Node |-> [a \in V |-> [c \in V |-> 1 + a + c]]]
           Fix(f) == f = [x \in Ref |-> IF x = Nil THEN 0 ELSE 1 + f[t[x].left] + f[t[x].right]]
<1>1. 0 \in V
  OBVIOUS
<1>2. G \in [Node -> [V -> [V -> V]]]
  <2>1. \A x \in Node : \A a, c \in V : 1 + a + c \in V
    OBVIOUS
  <2> HIDE DEF V
  <2> QED BY <2>1
<1>3. \E f \in [Ref -> V] : f[Nil] = 0
        /\ \A x \in Node : f[x] = G[x][f[t[x].left]][f[t[x].right]]
  <2> HIDE DEF G, V
  <2>1. \A b \in V : \A H \in [Node -> [V -> [V -> V]]] :
          \E f \in [Ref -> V] : /\ f[Nil] = b
            /\ \A x \in Node : f[x] = H[x][f[t[x].left]][f[t[x].right]]
    BY TreeRecursion
  <2> QED BY <1>1, <1>2, <2>1
<1>4. PICK f \in [Ref -> V] : Fix(f)
  <2>1. PICK f \in [Ref -> V] : f[Nil] = 0
          /\ \A x \in Node : f[x] = G[x][f[t[x].left]][f[t[x].right]]
    BY <1>3
  <2>2. \A x \in Ref : f[x] = IF x = Nil THEN 0 ELSE 1 + f[t[x].left] + f[t[x].right]
    <3> HIDE DEF V
    <3> SUFFICES ASSUME NEW x \in Ref, x # Nil PROVE f[x] = 1 + f[t[x].left] + f[t[x].right]
      BY <2>1
    <3>1. x \in Node /\ t \in Links
      BY DEF Ref, Forest
    <3>2. f[t[x].left] \in V /\ f[t[x].right] \in V
      BY <3>1, LinksType
    <3> QED BY <2>1, <3>1, <3>2
  <2> HIDE DEF V, G
  <2>3. Fix(f)
    BY <2>2
  <2> QED BY <2>3
<1> DEFINE F == CHOOSE g : Fix(g)
<1>5. Fix(F)
  BY <1>4
<1>6. \A g, h : Fix(g) /\ Fix(h) => \A x \in Ref : g[x] = h[x]
  <2> SUFFICES ASSUME NEW g, NEW h, Fix(g), Fix(h) PROVE \A x \in Ref : g[x] = h[x]
    <3> HIDE DEF Fix
    <3> QED OBVIOUS
  <2> DEFINE S == {x \in Ref : g[x] = h[x]}
  <2>1. Nil \in S
    BY DEF Ref
  <2>2. ASSUME NEW x \in Node, t[x].left \in S, t[x].right \in S PROVE x \in S
    <3>1. /\ g[x] = (IF x = Nil THEN 0 ELSE 1 + g[t[x].left] + g[t[x].right])
          /\ h[x] = (IF x = Nil THEN 0 ELSE 1 + h[t[x].left] + h[t[x].right])
      BY DEF Ref
    <3>2. g[x] = 1 + g[t[x].left] + g[t[x].right] /\ h[x] = 1 + h[t[x].left] + h[t[x].right] /\ x \in Ref
      BY <3>1, NilAssumption DEF Ref
    <3> HIDE DEF Fix
    <3> QED BY <2>2, <3>2
  <2>3. \A x \in Ref : x \in S
    <3> HIDE DEF S
    <3> QED BY <2>1, <2>2, TreeInduction
  <2> QED BY <2>3
<1>7. \A x \in Ref : F[x] = f[x]
  <2> HIDE DEF Fix, F
  <2> QED BY <1>4, <1>5, <1>6
<1>8. \A x : Count(t, x) = F[x]
  BY DEF Count
<1>9. \A x \in Ref : f[x] = IF x = Nil THEN 0 ELSE 1 + f[t[x].left] + f[t[x].right]
  BY <1>4
<1> HIDE DEF F, Fix, G
<1>10. \A x \in Node : x \in Ref /\ x # Nil /\ t[x].left \in Ref /\ t[x].right \in Ref
  BY LinksType, NilAssumption DEF Forest
<1>11. Nil \in Ref /\ \A x \in Ref : f[x] \in V
  BY DEF Ref
<1>12. \A x \in Ref : Count(t, x) = f[x]
  BY <1>7, <1>8
<1> HIDE DEF V
<1>13. \A x \in Ref : Count(t, x) \in V
  BY <1>11, <1>12
<1>14. Count(t, Nil) = 0
  BY <1>9, <1>11, <1>12
<1>15. \A x \in Node : Count(t, x) = 1 + Count(t, t[x].left) + Count(t, t[x].right)
  BY <1>9, <1>10, <1>12
<1> QED BY <1>13, <1>14, <1>15 DEF V

\* A tree is one higher than the higher of its subtrees.
LEMMA HeightEq ==
  ASSUME NEW t \in Forest
  PROVE  /\ Height(t, Nil) = 0
         /\ \A x \in Ref : Height(t, x) \in Nat
         /\ \A x \in Node : Height(t, x) = 1 + Max({Height(t, t[x].left), Height(t, t[x].right)})
<1> DEFINE V == Nat
           G == [x \in Node |-> [a \in V |-> [c \in V |-> 1 + Max({a, c})]]]
           Fix(f) == f = [x \in Ref |-> IF x = Nil THEN 0 ELSE 1 + Max({f[t[x].left], f[t[x].right]})]
<1>1. 0 \in V
  OBVIOUS
<1>2. G \in [Node -> [V -> [V -> V]]]
  <2>1. \A x \in Node : \A a, c \in V : 1 + Max({a, c}) \in V
    BY MaxOfTwo
  <2> HIDE DEF V
  <2> QED BY <2>1
<1>3. \E f \in [Ref -> V] : f[Nil] = 0
        /\ \A x \in Node : f[x] = G[x][f[t[x].left]][f[t[x].right]]
  <2> HIDE DEF G, V
  <2>1. \A b \in V : \A H \in [Node -> [V -> [V -> V]]] :
          \E f \in [Ref -> V] : /\ f[Nil] = b
            /\ \A x \in Node : f[x] = H[x][f[t[x].left]][f[t[x].right]]
    BY TreeRecursion
  <2> QED BY <1>1, <1>2, <2>1
<1>4. PICK f \in [Ref -> V] : Fix(f)
  <2>1. PICK f \in [Ref -> V] : f[Nil] = 0
          /\ \A x \in Node : f[x] = G[x][f[t[x].left]][f[t[x].right]]
    BY <1>3
  <2>2. \A x \in Ref : f[x] = IF x = Nil THEN 0 ELSE 1 + Max({f[t[x].left], f[t[x].right]})
    <3> HIDE DEF V
    <3> SUFFICES ASSUME NEW x \in Ref, x # Nil PROVE f[x] = 1 + Max({f[t[x].left], f[t[x].right]})
      BY <2>1
    <3>1. x \in Node /\ t \in Links
      BY DEF Ref, Forest
    <3>2. f[t[x].left] \in V /\ f[t[x].right] \in V
      BY <3>1, LinksType
    <3> QED BY <2>1, <3>1, <3>2
  <2> HIDE DEF V, G
  <2>3. Fix(f)
    BY <2>2
  <2> QED BY <2>3
<1> DEFINE F == CHOOSE g : Fix(g)
<1>5. Fix(F)
  BY <1>4
<1>6. \A g, h : Fix(g) /\ Fix(h) => \A x \in Ref : g[x] = h[x]
  <2> SUFFICES ASSUME NEW g, NEW h, Fix(g), Fix(h) PROVE \A x \in Ref : g[x] = h[x]
    <3> HIDE DEF Fix
    <3> QED OBVIOUS
  <2> DEFINE S == {x \in Ref : g[x] = h[x]}
  <2>1. Nil \in S
    BY DEF Ref
  <2>2. ASSUME NEW x \in Node, t[x].left \in S, t[x].right \in S PROVE x \in S
    <3>1. /\ g[x] = (IF x = Nil THEN 0 ELSE 1 + Max({g[t[x].left], g[t[x].right]}))
          /\ h[x] = (IF x = Nil THEN 0 ELSE 1 + Max({h[t[x].left], h[t[x].right]}))
      BY DEF Ref
    <3>2. g[x] = 1 + Max({g[t[x].left], g[t[x].right]}) /\ h[x] = 1 + Max({h[t[x].left], h[t[x].right]}) /\ x \in Ref
      BY <3>1, NilAssumption DEF Ref
    <3> HIDE DEF Fix
    <3> QED BY <2>2, <3>2
  <2>3. \A x \in Ref : x \in S
    <3> HIDE DEF S
    <3> QED BY <2>1, <2>2, TreeInduction
  <2> QED BY <2>3
<1>7. \A x \in Ref : F[x] = f[x]
  <2> HIDE DEF Fix, F
  <2> QED BY <1>4, <1>5, <1>6
<1>8. \A x : Height(t, x) = F[x]
  BY DEF Height
<1>9. \A x \in Ref : f[x] = IF x = Nil THEN 0 ELSE 1 + Max({f[t[x].left], f[t[x].right]})
  BY <1>4
<1> HIDE DEF F, Fix, G
<1>10. \A x \in Node : x \in Ref /\ x # Nil /\ t[x].left \in Ref /\ t[x].right \in Ref
  BY LinksType, NilAssumption DEF Forest
<1>11. Nil \in Ref /\ \A x \in Ref : f[x] \in V
  BY DEF Ref
<1>12. \A x \in Ref : Height(t, x) = f[x]
  BY <1>7, <1>8
<1> HIDE DEF V
<1>13. \A x \in Ref : Height(t, x) \in V
  BY <1>11, <1>12
<1>14. Height(t, Nil) = 0
  BY <1>9, <1>11, <1>12
<1>15. \A x \in Node : Height(t, x) = 1 + Max({Height(t, t[x].left), Height(t, t[x].right)})
  BY <1>9, <1>10, <1>12
<1> QED BY <1>13, <1>14, <1>15 DEF V

\* The left spine goes on with that of the left subtree.
LEMMA SpineEq ==
  ASSUME NEW t \in Forest
  PROVE  /\ LeftSpine(t, Nil) = <<>>
         /\ \A x \in Ref : LeftSpine(t, x) \in Seq(Node)
         /\ \A x \in Node : LeftSpine(t, x) = <<x>> \o LeftSpine(t, t[x].left)
<1> DEFINE V == Seq(Node)
           G == [x \in Node |-> [a \in V |-> [c \in V |-> <<x>> \o a]]]
           Fix(f) == f = [x \in Ref |-> IF x = Nil THEN <<>> ELSE <<x>> \o f[t[x].left]]
<1>1. <<>> \in V
  OBVIOUS
<1>2. G \in [Node -> [V -> [V -> V]]]
  <2>1. \A x \in Node : \A a, c \in V : <<x>> \o a \in V
    OBVIOUS
  <2> HIDE DEF V
  <2> QED BY <2>1
<1>3. \E f \in [Ref -> V] : f[Nil] = <<>>
        /\ \A x \in Node : f[x] = G[x][f[t[x].left]][f[t[x].right]]
  <2> HIDE DEF G, V
  <2>1. \A b \in V : \A H \in [Node -> [V -> [V -> V]]] :
          \E f \in [Ref -> V] : /\ f[Nil] = b
            /\ \A x \in Node : f[x] = H[x][f[t[x].left]][f[t[x].right]]
    BY TreeRecursion
  <2> QED BY <1>1, <1>2, <2>1
<1>4. PICK f \in [Ref -> V] : Fix(f)
  <2>1. PICK f \in [Ref -> V] : f[Nil] = <<>>
          /\ \A x \in Node : f[x] = G[x][f[t[x].left]][f[t[x].right]]
    BY <1>3
  <2>2. \A x \in Ref : f[x] = IF x = Nil THEN <<>> ELSE <<x>> \o f[t[x].left]
    <3> HIDE DEF V
    <3> SUFFICES ASSUME NEW x \in Ref, x # Nil PROVE f[x] = <<x>> \o f[t[x].left]
      BY <2>1
    <3>1. x \in Node /\ t \in Links
      BY DEF Ref, Forest
    <3>2. f[t[x].left] \in V /\ f[t[x].right] \in V
      BY <3>1, LinksType
    <3> QED BY <2>1, <3>1, <3>2
  <2> HIDE DEF V, G
  <2>3. Fix(f)
    BY <2>2
  <2> QED BY <2>3
<1> DEFINE F == CHOOSE g : Fix(g)
<1>5. Fix(F)
  BY <1>4
<1>6. \A g, h : Fix(g) /\ Fix(h) => \A x \in Ref : g[x] = h[x]
  <2> SUFFICES ASSUME NEW g, NEW h, Fix(g), Fix(h) PROVE \A x \in Ref : g[x] = h[x]
    <3> HIDE DEF Fix
    <3> QED OBVIOUS
  <2> DEFINE S == {x \in Ref : g[x] = h[x]}
  <2>1. Nil \in S
    BY DEF Ref
  <2>2. ASSUME NEW x \in Node, t[x].left \in S, t[x].right \in S PROVE x \in S
    <3>1. /\ g[x] = (IF x = Nil THEN <<>> ELSE <<x>> \o g[t[x].left])
          /\ h[x] = (IF x = Nil THEN <<>> ELSE <<x>> \o h[t[x].left])
      BY DEF Ref
    <3>2. g[x] = <<x>> \o g[t[x].left] /\ h[x] = <<x>> \o h[t[x].left] /\ x \in Ref
      BY <3>1, NilAssumption DEF Ref
    <3> HIDE DEF Fix
    <3> QED BY <2>2, <3>2
  <2>3. \A x \in Ref : x \in S
    <3> HIDE DEF S
    <3> QED BY <2>1, <2>2, TreeInduction
  <2> QED BY <2>3
<1>7. \A x \in Ref : F[x] = f[x]
  <2> HIDE DEF Fix, F
  <2> QED BY <1>4, <1>5, <1>6
<1>8. \A x : LeftSpine(t, x) = F[x]
  BY DEF LeftSpine
<1>9. \A x \in Ref : f[x] = IF x = Nil THEN <<>> ELSE <<x>> \o f[t[x].left]
  BY <1>4
<1> HIDE DEF F, Fix, G
<1>10. \A x \in Node : x \in Ref /\ x # Nil /\ t[x].left \in Ref /\ t[x].right \in Ref
  BY LinksType, NilAssumption DEF Forest
<1>11. Nil \in Ref /\ \A x \in Ref : f[x] \in V
  BY DEF Ref
<1>12. \A x \in Ref : LeftSpine(t, x) = f[x]
  BY <1>7, <1>8
<1> HIDE DEF V
<1>13. \A x \in Ref : LeftSpine(t, x) \in V
  BY <1>11, <1>12
<1>14. LeftSpine(t, Nil) = <<>>
  BY <1>9, <1>11, <1>12
<1>15. \A x \in Node : LeftSpine(t, x) = <<x>> \o LeftSpine(t, t[x].left)
  BY <1>9, <1>10, <1>12
<1> QED BY <1>13, <1>14, <1>15 DEF V

-----------------------------------------------------------------------------
(* Nodes without repetition.                                               *)

-----------------------------------------------------------------------------
(* Sequences of nodes.                                                     *)

\* No node comes twice.
Distinct(s) == \A i, j \in DOMAIN s : s[i] = s[j] => i = j

\* A sequence of one.
LEMMA RangeSingle ==
  ASSUME NEW x
  PROVE  Range(<<x>>) = {x} /\ \A V : x \in V => <<x>> \in Seq(V)
  BY DEF Range

\* Two sequences with an element between them.
LEMMA RangeMiddle ==
  ASSUME NEW V, NEW a \in Seq(V), NEW x \in V, NEW c \in Seq(V)
  PROVE  /\ a \o <<x>> \o c \in Seq(V)
         /\ Range(a \o <<x>> \o c) = Range(a) \cup {x} \cup Range(c)
         /\ Len(a \o <<x>> \o c) = Len(a) + 1 + Len(c)
<1> DEFINE u == <<x>>
           au == a \o u
<1>1. u \in Seq(V) /\ Len(u) = 1 /\ Range(u) = {x}
  BY RangeSingle
<1> HIDE DEF u
<1>2. au \in Seq(V) /\ Len(au) = Len(a) + 1
  <2>1. au \in Seq(V) /\ Len(au) = Len(a) + Len(u)
    BY <1>1, ConcatProperties
  <2> QED BY <1>1, <2>1
<1>3. Range(au) = Range(a) \cup {x}
  BY <1>1, RangeConcatenation
<1>4. Len(a) \in Nat /\ Len(c) \in Nat
  OBVIOUS
<1> HIDE DEF au
<1>5. au \o c \in Seq(V) /\ Len(au \o c) = Len(a) + 1 + Len(c)
  <2>1. au \in Seq(V) /\ Len(au) = Len(a) + 1
    BY <1>2
  <2>2. au \o c \in Seq(V) /\ Len(au \o c) = Len(au) + Len(c)
    BY <2>1, ConcatProperties
  <2> QED BY <2>1, <2>2
<1>6. Range(au \o c) = Range(a) \cup {x} \cup Range(c)
  BY <1>2, <1>3, RangeConcatenation
<1> QED BY <1>5, <1>6 DEF au, u

\* Two sequences without a common node.
LEMMA DistinctConcat ==
  ASSUME NEW V, NEW a \in Seq(V), NEW c \in Seq(V)
  PROVE  Distinct(a \o c) <=> /\ Distinct(a) /\ Distinct(c)
                              /\ Range(a) \cap Range(c) = {}
<1>1. /\ Len(a) \in Nat /\ Len(c) \in Nat
      /\ DOMAIN a = 1 .. Len(a) /\ DOMAIN c = 1 .. Len(c)
      /\ DOMAIN (a \o c) = 1 .. Len(a) + Len(c)
      /\ \A i \in 1 .. Len(a) : (a \o c)[i] = a[i]
      /\ \A i \in 1 .. Len(c) : (a \o c)[Len(a) + i] = c[i]
  <2>1. a \o c \in Seq(V) /\ Len(a \o c) = Len(a) + Len(c)
    BY ConcatProperties
  <2>2. \A i \in 1 .. Len(a) + Len(c) : (a \o c)[i] =
                     IF i <= Len(a) THEN a[i] ELSE c[i - Len(a)]
    BY ConcatProperties
  <2>3. Len(a) \in Nat /\ Len(c) \in Nat /\ DOMAIN a = 1 .. Len(a) /\ DOMAIN c = 1 .. Len(c)
        /\ DOMAIN (a \o c) = 1 .. Len(a) + Len(c)
    BY <2>1, LenProperties
  <2>4. \A i \in 1 .. Len(a) : (a \o c)[i] = a[i]
    BY <2>2, <2>3
  <2>5. ASSUME NEW i \in 1 .. Len(c) PROVE (a \o c)[Len(a) + i] = c[i]
    <3>1. Len(a) + i \in 1 .. Len(a) + Len(c) /\ ~(Len(a) + i <= Len(a))
          /\ (Len(a) + i) - Len(a) = i
      BY <2>3
    <3> QED BY <2>2, <3>1
  <2> QED BY <2>3, <2>4, <2>5
<1> DEFINE s == a \o c
<1> HIDE DEF s
<1>2. ASSUME Distinct(s) PROVE Distinct(a) /\ Distinct(c) /\ Range(a) \cap Range(c) = {}
  <2>1. \A i, j \in 1 .. Len(a) + Len(c) : s[i] = s[j] => i = j
    BY <1>1, <1>2 DEF Distinct, s
  <2>2. Distinct(a)
    BY <1>1, <2>1 DEF Distinct, s
  <2>3. Distinct(c)
    <3> SUFFICES ASSUME NEW i \in 1 .. Len(c), NEW j \in 1 .. Len(c), c[i] = c[j] PROVE i = j
      BY <1>1 DEF Distinct
    <3>1. Len(a) + i \in 1 .. Len(a) + Len(c) /\ Len(a) + j \in 1 .. Len(a) + Len(c)
      BY <1>1
    <3>2. s[Len(a) + i] = s[Len(a) + j]
      BY <1>1 DEF s
    <3>3. Len(a) + i = Len(a) + j
      BY <2>1, <3>1, <3>2
    <3> QED BY <1>1, <3>3
  <2>4. Range(a) \cap Range(c) = {}
    <3> SUFFICES ASSUME NEW i \in 1 .. Len(a), NEW j \in 1 .. Len(c), a[i] = c[j] PROVE FALSE
      BY <1>1 DEF Range
    <3>1. i \in 1 .. Len(a) + Len(c) /\ Len(a) + j \in 1 .. Len(a) + Len(c)
      BY <1>1
    <3>2. s[i] = s[Len(a) + j]
      BY <1>1 DEF s
    <3> QED BY <1>1, <2>1, <3>1, <3>2
  <2> QED BY <2>2, <2>3, <2>4
<1>3. ASSUME Distinct(a), Distinct(c), Range(a) \cap Range(c) = {} PROVE Distinct(s)
  <2> SUFFICES ASSUME NEW i \in 1 .. Len(a) + Len(c), NEW j \in 1 .. Len(a) + Len(c), s[i] = s[j]
               PROVE i = j
    BY <1>1 DEF Distinct, s
  <2>1. \A k \in 1 .. Len(a) + Len(c) :
          \/ k \in 1 .. Len(a) /\ s[k] = a[k]
          \/ k - Len(a) \in 1 .. Len(c) /\ s[k] = c[k - Len(a)]
    <3> TAKE k \in 1 .. Len(a) + Len(c)
    <3>1. CASE k <= Len(a)
      BY <1>1, <3>1 DEF s
    <3>2. CASE ~(k <= Len(a))
      <4>1. k - Len(a) \in 1 .. Len(c) /\ Len(a) + (k - Len(a)) = k
        BY <1>1, <3>2
      <4> QED BY <1>1, <4>1 DEF s
    <3> QED BY <3>1, <3>2
  <2>2. \A p \in 1 .. Len(a), q \in 1 .. Len(c) : a[p] # c[q]
    BY <1>1, <1>3 DEF Range
  <2>3. \A p, q \in 1 .. Len(a) : a[p] = a[q] => p = q
    BY <1>1, <1>3 DEF Distinct
  <2>4. \A p, q \in 1 .. Len(c) : c[p] = c[q] => p = q
    BY <1>1, <1>3 DEF Distinct
  <2>5. CASE i \in 1 .. Len(a) /\ s[i] = a[i] /\ j \in 1 .. Len(a) /\ s[j] = a[j]
    BY <2>3, <2>5
  <2>6. CASE i - Len(a) \in 1 .. Len(c) /\ s[i] = c[i - Len(a)]
             /\ j - Len(a) \in 1 .. Len(c) /\ s[j] = c[j - Len(a)]
    <3>1. i - Len(a) = j - Len(a)
      BY <2>4, <2>6
    <3> QED BY <3>1, <1>1
  <2> QED BY <2>1, <2>2, <2>5, <2>6
<1> QED BY <1>2, <1>3 DEF s

\* When two sequences with an element between them repeat nothing.
LEMMA DistinctMiddle ==
  ASSUME NEW V, NEW a \in Seq(V), NEW x \in V, NEW c \in Seq(V)
  PROVE  Distinct(a \o <<x>> \o c) <=>
           /\ Distinct(a) /\ Distinct(c)
           /\ x \notin Range(a) /\ x \notin Range(c) /\ Range(a) \cap Range(c) = {}
<1> DEFINE u == <<x>>
           au == a \o u
<1>1. u \in Seq(V) /\ Range(u) = {x} /\ Distinct(u)
  BY RangeSingle DEF Distinct
<1> HIDE DEF u
<1>2. au \in Seq(V)
  BY <1>1, ConcatProperties
<1>3. Range(au) = Range(a) \cup {x}
  BY <1>1, RangeConcatenation
<1>4. Distinct(au) <=> Distinct(a) /\ Range(a) \cap {x} = {}
  BY <1>1, DistinctConcat
<1> HIDE DEF au
<1>5. Distinct(au \o c) <=> /\ Distinct(au) /\ Distinct(c)
                            /\ Range(au) \cap Range(c) = {}
  BY <1>2, DistinctConcat
<1>6. Distinct(au \o c) <=>
           /\ Distinct(a) /\ Distinct(c)
           /\ x \notin Range(a) /\ x \notin Range(c) /\ Range(a) \cap Range(c) = {}
  BY <1>3, <1>4, <1>5
<1> QED BY <1>6 DEF au, u

-----------------------------------------------------------------------------
(* The nodes of a tree.                                                    *)

\* The nodes of a tree are its root and those of its subtrees.
LEMMA WithinEq ==
  ASSUME NEW t \in Forest
  PROVE  /\ Within(t, Nil) = {}
         /\ \A x \in Ref : Within(t, x) \subseteq Node
         /\ \A x \in Node : /\ x \in Within(t, x)
                            /\ Within(t, x) = Within(t, t[x].left) \cup {x}
                                                 \cup Within(t, t[x].right)
<1>1. Within(t, Nil) = {}
  BY InOrderEq DEF Within, Range
<1>2. \A x \in Ref : Within(t, x) \subseteq Node
  BY InOrderEq, RangeOfSeq DEF Within
<1>3. ASSUME NEW x \in Node
      PROVE Within(t, x) = Within(t, t[x].left) \cup {x} \cup Within(t, t[x].right)
  <2>1. t[x].left \in Ref /\ t[x].right \in Ref
    BY LinksType DEF Forest
  <2>2. InOrder(t, t[x].left) \in Seq(Node) /\ InOrder(t, t[x].right) \in Seq(Node)
    BY <2>1, InOrderEq
  <2>3. InOrder(t, x) = InOrder(t, t[x].left) \o <<x>> \o InOrder(t, t[x].right)
    BY InOrderEq
  <2> QED BY <2>2, <2>3, RangeMiddle DEF Within
<1> QED BY <1>1, <1>2, <1>3

\* The nodes of a subtree are nodes of the tree.
LEMMA WithinTrans ==
  ASSUME NEW t \in Forest, NEW x \in Ref, NEW y \in Within(t, x)
  PROVE  Within(t, y) \subseteq Within(t, x)
<1> DEFINE S == {z \in Ref : \A w \in Within(t, z) : Within(t, w) \subseteq Within(t, z)}
<1>1. Nil \in S
  BY WithinEq DEF Ref
<1>2. ASSUME NEW z \in Node, t[z].left \in S, t[z].right \in S PROVE z \in S
  <2>1. Within(t, z) = Within(t, t[z].left) \cup {z} \cup Within(t, t[z].right)
    BY WithinEq
  <2> QED BY <1>2, <2>1 DEF Ref
<1>3. \A z \in Ref : z \in S
  <2> HIDE DEF S
  <2> QED BY <1>1, <1>2, TreeInduction
<1> QED BY <1>3

\* A subtree lies below its root.
LEMMA RankWithin ==
  ASSUME NEW t \in Forest, NEW r \in [Node -> Nat], Descends(t, r), NEW x \in Node,
         NEW y \in Within(t, x)
  PROVE  /\ y \in Node /\ r[y] <= r[x]
         /\ (y \in Within(t, t[x].left) \/ y \in Within(t, t[x].right)) => r[y] < r[x]
<1> DEFINE S == {z \in Ref : \A w \in Within(t, z) : r[w] <= r[z]}
<1>0. t \in Links
  BY DEF Forest
<1>1. Nil \in S
  BY WithinEq DEF Ref
<1>2. ASSUME NEW z \in Node, NEW k \in Ref, k \in {t[z].left, t[z].right}, k \in S
      PROVE  \A w \in Within(t, k) : w \in Node /\ r[w] < r[z]
  <2> TAKE w \in Within(t, k)
  <2>1. w \in Node /\ k # Nil
    BY WithinEq
  <2>2. r[w] <= r[k] /\ k \in Node
    BY <1>2, <2>1 DEF Ref
  <2>3. r[k] < r[z]
    BY <1>2, <2>1, <2>2 DEF Descends
  <2>4. r[w] \in Nat /\ r[k] \in Nat /\ r[z] \in Nat
    BY <2>1, <2>2
  <2> QED BY <2>1, <2>2, <2>3, <2>4
<1>3. ASSUME NEW z \in Node, t[z].left \in S, t[z].right \in S PROVE z \in S
  <2>1. Within(t, z) = Within(t, t[z].left) \cup {z} \cup Within(t, t[z].right)
    BY WithinEq
  <2>2. \A w \in Within(t, t[z].left) : w \in Node /\ r[w] < r[z]
    BY <1>0, <1>2, <1>3, LinksType
  <2>3. \A w \in Within(t, t[z].right) : w \in Node /\ r[w] < r[z]
    BY <1>0, <1>2, <1>3, LinksType
  <2>4. \A w \in Node : r[w] \in Nat
    OBVIOUS
  <2> QED BY <2>1, <2>2, <2>3, <2>4 DEF Ref
<1>4. \A z \in Ref : z \in S
  <2> HIDE DEF S
  <2> QED BY <1>1, <1>3, TreeInduction
<1>5. y \in Node /\ x \in Ref
  BY WithinEq DEF Ref
<1>6. r[y] <= r[x]
  BY <1>4, <1>5
<1>7. ASSUME y \in Within(t, t[x].left) \/ y \in Within(t, t[x].right) PROVE r[y] < r[x]
  <2> HIDE DEF S
  <2> QED BY <1>0, <1>2, <1>4, <1>7, LinksType
<1> QED BY <1>5, <1>6, <1>7

\* A node is not below itself.
LEMMA NotBelow ==
  ASSUME NEW t \in Forest, NEW x \in Node
  PROVE  x \notin Within(t, t[x].left) /\ x \notin Within(t, t[x].right)
<1>1. PICK r \in [Node -> Nat] : Descends(t, r)
  BY DEF Forest
<1>2. r[x] \in Nat
  OBVIOUS
<1>3. x \in Within(t, x)
  BY WithinEq
<1> QED BY <1>1, <1>2, <1>3, RankWithin

\* The two sides of a node have no node in common, in a tree that has none twice.
LEMMA SidesApart ==
  ASSUME NEW t \in Forest, NEW x \in Node, Distinct(InOrder(t, x))
  PROVE  /\ Distinct(InOrder(t, t[x].left)) /\ Distinct(InOrder(t, t[x].right))
         /\ Within(t, t[x].left) \cap Within(t, t[x].right) = {}
<1>1. t[x].left \in Ref /\ t[x].right \in Ref
  BY LinksType DEF Forest
<1>2. InOrder(t, t[x].left) \in Seq(Node) /\ InOrder(t, t[x].right) \in Seq(Node)
  BY <1>1, InOrderEq
<1>3. InOrder(t, x) = InOrder(t, t[x].left) \o <<x>> \o InOrder(t, t[x].right)
  BY InOrderEq
<1> QED BY <1>2, <1>3, DistinctMiddle DEF Within

\* Trees with the same links are the same.
LEMMA Agreement ==
  ASSUME NEW t \in Forest, NEW u \in Forest, NEW x \in Ref,
         \A w \in Within(t, x) : u[w].left = t[w].left /\ u[w].right = t[w].right
  PROVE  /\ InOrder(u, x) = InOrder(t, x) /\ Within(u, x) = Within(t, x)
         /\ Height(u, x) = Height(t, x) /\ Count(u, x) = Count(t, x)
<1> DEFINE Same(z) == \A w \in Within(t, z) : u[w].left = t[w].left /\ u[w].right = t[w].right
           S == {z \in Ref : Same(z) =>
                   /\ InOrder(u, z) = InOrder(t, z)
                   /\ Height(u, z) = Height(t, z) /\ Count(u, z) = Count(t, z)}
<1>1. Nil \in S
  BY InOrderEq, HeightEq, CountEq DEF Ref
<1>2. ASSUME NEW z \in Node, t[z].left \in S, t[z].right \in S PROVE z \in S
  <2>1. SUFFICES ASSUME Same(z)
                 PROVE /\ InOrder(u, z) = InOrder(t, z)
                       /\ Height(u, z) = Height(t, z) /\ Count(u, z) = Count(t, z)
    BY DEF Ref
  <2>2. /\ Within(t, z) = Within(t, t[z].left) \cup {z} \cup Within(t, t[z].right)
    BY WithinEq
  <2>3. u[z].left = t[z].left /\ u[z].right = t[z].right
        /\ Same(t[z].left) /\ Same(t[z].right)
    BY <2>1, <2>2
  <2>4. /\ InOrder(t, z) = InOrder(t, t[z].left) \o <<z>> \o InOrder(t, t[z].right)
        /\ InOrder(u, z) = InOrder(u, u[z].left) \o <<z>> \o InOrder(u, u[z].right)
    BY InOrderEq
  <2>5. /\ Height(t, z) = 1 + Max({Height(t, t[z].left), Height(t, t[z].right)})
        /\ Height(u, z) = 1 + Max({Height(u, u[z].left), Height(u, u[z].right)})
    BY HeightEq
  <2>6. /\ Count(t, z) = 1 + Count(t, t[z].left) + Count(t, t[z].right)
        /\ Count(u, z) = 1 + Count(u, u[z].left) + Count(u, u[z].right)
    BY CountEq
  <2> HIDE DEF Same
  <2> QED BY <1>2, <2>3, <2>4, <2>5, <2>6
<1>3. \A z \in Ref : z \in S
  <2> HIDE DEF S
  <2> QED BY <1>1, <1>2, TreeInduction
<1>4. Same(x)
  OBVIOUS
<1> HIDE DEF Same
<1> QED BY <1>3, <1>4 DEF Within

\* The size of a subtree is the number of its nodes.
LEMMA CountIs ==
  ASSUME NEW t \in Forest, NEW x \in Ref
  PROVE  Count(t, x) = Len(InOrder(t, x))
<1> DEFINE S == {z \in Ref : Count(t, z) = Len(InOrder(t, z))}
<1>1. Nil \in S
  BY InOrderEq, CountEq DEF Ref
<1>2. ASSUME NEW z \in Node, t[z].left \in S, t[z].right \in S PROVE z \in S
  <2>1. InOrder(t, t[z].left) \in Seq(Node) /\ InOrder(t, t[z].right) \in Seq(Node)
    BY <1>2, InOrderEq
  <2>2. InOrder(t, z) = InOrder(t, t[z].left) \o <<z>> \o InOrder(t, t[z].right)
    BY InOrderEq
  <2>3. Len(InOrder(t, z)) = Len(InOrder(t, t[z].left)) + 1 + Len(InOrder(t, t[z].right))
    BY <2>1, <2>2, RangeMiddle
  <2>4. Count(t, z) = 1 + Count(t, t[z].left) + Count(t, t[z].right)
    BY CountEq
  <2>5. Len(InOrder(t, t[z].left)) \in Nat /\ Len(InOrder(t, t[z].right)) \in Nat
    BY <2>1
  <2> QED BY <1>2, <2>3, <2>4, <2>5 DEF Ref
<1>3. \A z \in Ref : z \in S
  <2> HIDE DEF S
  <2> QED BY <1>1, <1>2, TreeInduction
<1> QED BY <1>3

-----------------------------------------------------------------------------
(* Powers of two and heights.                                              *)

-----------------------------------------------------------------------------
(* Numbers, powers of two and heights.                                     *)

\* Induction from 1 up to n, and from n down to 1.
LEMMA UpTo ==
  ASSUME NEW n \in Nat, NEW S, 1 \in S, \A i \in 1 .. n - 1 : i \in S => i + 1 \in S
  PROVE  \A i \in 1 .. n : i \in S
<1> DEFINE T == {i \in 1 .. n : i \notin S}
<1> SUFFICES ASSUME T # {} PROVE FALSE
  OBVIOUS
<1>1. T \subseteq Nat
  OBVIOUS
<1>2. PICK i \in T : \A j \in T : i <= j
  <2> HIDE DEF T
  <2> QED BY <1>1, LeastNat
<1>3. i # 1 /\ i - 1 \in 1 .. n - 1 /\ i - 1 + 1 = i
  BY <1>2
<1>4. i - 1 \in S
  <2>1. ~(i <= i - 1)
    BY <1>1, <1>2
  <2> QED BY <1>2, <1>3, <2>1
<1>5. i \in S
  BY <1>3, <1>4
<1> QED BY <1>2, <1>5

\* Induction from n down to 1.
LEMMA DownFrom ==
  ASSUME NEW n \in Nat, NEW S, n \in S, \A i \in 1 .. n - 1 : i + 1 \in S => i \in S
  PROVE  \A i \in 1 .. n : i \in S
<1> DEFINE T == {i \in 1 .. n : i \notin S}
<1> SUFFICES ASSUME T # {} PROVE FALSE
  OBVIOUS
<1>1. T \subseteq Nat /\ \A i \in T : i <= n
  OBVIOUS
<1>2. PICK i \in T : \A j \in T : j <= i
  <2> HIDE DEF T
  <2> QED BY <1>1, GreatestNat
<1>3. i # n /\ i \in 1 .. n - 1 /\ i + 1 \in 1 .. n
  BY <1>2
<1>4. i + 1 \in S
  <2>1. ~(i + 1 <= i)
    BY <1>3
  <2> QED BY <1>2, <1>3, <2>1
<1> QED BY <1>2, <1>3, <1>4

\* A function on the natural numbers is defined by its first value and by how
\* each value follows from the one before it.
LEMMA NatRecursion ==
  ASSUME NEW V, NEW b \in V, NEW H \in [V -> V]
  PROVE  \E f \in [Nat -> V] : f[0] = b /\ \A n \in Nat : f[n + 1] = H[f[n]]
<1> DEFINE Part(f, n) == /\ f \in [Nat -> V]
                         /\ f[0] = b
                         /\ \A m \in Nat : m < n => f[m + 1] = H[f[m]]
           T == {n \in Nat : ~\E f : Part(f, n)}
<1>1. \A n \in Nat : \E f : Part(f, n)
  <2> SUFFICES ASSUME T # {} PROVE FALSE
    OBVIOUS
  <2>1. PICK n \in T : \A m \in T : n <= m
    <3>1. T \subseteq Nat
      OBVIOUS
    <3> HIDE DEF T
    <3> QED BY <3>1, LeastNat
  <2>2. n # 0
    <3> DEFINE g == [x \in Nat |-> b]
    <3>1. g \in [Nat -> V] /\ g[0] = b /\ \A m \in Nat : ~(m < 0)
      OBVIOUS
    <3>2. Part(g, 0)
      <4> HIDE DEF g
      <4> QED BY <3>1
    <3> QED BY <3>2
  <2>3. PICK f : Part(f, n - 1)
    <3>1. n - 1 \in Nat /\ ~(n <= n - 1)
      BY <2>2
    <3> QED BY <2>1, <3>1
  <2>4. n \in Nat
    BY <2>1
  <2> DEFINE g == [x \in Nat |-> IF x = n THEN H[f[n - 1]] ELSE f[x]]
  <2>5. g \in [Nat -> V]
    <3>1. n - 1 \in Nat
      BY <2>2, <2>4
    <3> QED BY <2>3, <3>1
  <2>6. g[0] = b
    BY <2>2, <2>3
  <2>7. ASSUME NEW m \in Nat, m < n PROVE g[m + 1] = H[g[m]]
    <3>1. g[m] = f[m]
      BY <2>7
    <3>2. CASE m + 1 = n
      <4>1. m = n - 1
        BY <3>2
      <4>2. g[m + 1] = H[f[n - 1]]
        BY <3>2
      <4> HIDE DEF g
      <4> QED BY <3>1, <4>1, <4>2
    <3>3. CASE m + 1 # n
      <4>1. m < n - 1
        BY <2>4, <2>7, <3>3
      <4>2. g[m + 1] = f[m + 1]
        BY <3>3
      <4> HIDE DEF g
      <4> QED BY <2>3, <3>1, <4>1, <4>2
    <3> QED BY <3>2, <3>3
  <2>8. Part(g, n)
    <3> HIDE DEF g
    <3> QED BY <2>5, <2>6, <2>7
  <2> HIDE DEF Part, g
  <2> QED BY <2>1, <2>8
<1>2. \A f, g : \A n, m \in Nat : Part(f, n) /\ Part(g, m) =>
        \A k \in Nat : k <= n /\ k <= m => f[k] = g[k]
  <2> SUFFICES ASSUME NEW f, NEW g, NEW n \in Nat, NEW m \in Nat, Part(f, n), Part(g, m)
               PROVE \A k \in Nat : k <= n /\ k <= m => f[k] = g[k]
    <3> HIDE DEF Part
    <3> QED OBVIOUS
  <2> DEFINE U == {k \in Nat : k <= n /\ k <= m /\ f[k] # g[k]}
  <2> SUFFICES ASSUME U # {} PROVE FALSE
    OBVIOUS
  <2>1. PICK k \in U : \A j \in U : k <= j
    <3>1. U \subseteq Nat
      OBVIOUS
    <3> HIDE DEF U
    <3> QED BY <3>1, LeastNat
  <2>2. k \in Nat /\ k <= n /\ k <= m /\ f[k] # g[k]
    BY <2>1
  <2>3. k # 0
    BY <2>2
  <2>4. k - 1 \in Nat /\ k - 1 < n /\ k - 1 < m /\ k - 1 + 1 = k /\ ~(k <= k - 1)
        /\ k - 1 <= n /\ k - 1 <= m
    BY <2>2, <2>3
  <2>5. f[k - 1] = g[k - 1]
    <3>1. k - 1 \notin U
      BY <2>1, <2>4
    <3> QED BY <2>4, <3>1
  <2>6. f[k] = H[f[k - 1]] /\ g[k] = H[g[k - 1]]
    BY <2>4
  <2> QED BY <2>2, <2>5, <2>6
<1> DEFINE F(n) == CHOOSE f : Part(f, n)
           h == [n \in Nat |-> F(n)[n]]
<1>3. \A n \in Nat : Part(F(n), n)
  <2> HIDE DEF Part
  <2> QED BY <1>1
<1>4. \A n \in Nat : h[n] = F(n)[n]
  <2> HIDE DEF F
  <2> QED OBVIOUS
<1>5. \A n \in Nat : F(n) \in [Nat -> V] /\ F(n)[0] = b
  <2> HIDE DEF F
  <2> QED BY <1>3
<1>6. h \in [Nat -> V]
  <2> HIDE DEF F, Part
  <2> QED BY <1>5
<1>7. h[0] = b
  <2> HIDE DEF F, Part, h
  <2> QED BY <1>4, <1>5
<1>8. ASSUME NEW n \in Nat PROVE h[n + 1] = H[h[n]]
  <2>1. n + 1 \in Nat /\ n < n + 1 /\ n <= n + 1 /\ n <= n
    OBVIOUS
  <2>2. F(n + 1)[n + 1] = H[F(n + 1)[n]]
    <3> HIDE DEF F
    <3> QED BY <1>3, <2>1
  <2>3. F(n + 1)[n] = F(n)[n]
    <3> HIDE DEF F, Part
    <3> QED BY <1>2, <1>3, <2>1
  <2> HIDE DEF F, Part, h
  <2> QED BY <1>4, <2>1, <2>2, <2>3
<1> HIDE DEF h
<1> QED BY <1>6, <1>7, <1>8

\* What Pow2 computes, step by step.
LEMMA Pow2Eq ==
  /\ Pow2[0] = 1
  /\ \A n \in Nat : Pow2[n] \in Nat /\ Pow2[n + 1] = 2 * Pow2[n]
<1> DEFINE H == [v \in Nat |-> 2 * v]
           Fix(f) == f = [n \in Nat |-> IF n = 0 THEN 1 ELSE 2 * f[n - 1]]
<1>1. PICK f \in [Nat -> Nat] : f[0] = 1 /\ \A n \in Nat : f[n + 1] = H[f[n]]
  <2>1. 1 \in Nat /\ H \in [Nat -> Nat]
    OBVIOUS
  <2> HIDE DEF H
  <2> DEFINE V == Nat
  <2> HIDE DEF V
  <2>2. \A b \in V : \A G \in [V -> V] :
          \E f \in [Nat -> V] : f[0] = b /\ \A n \in Nat : f[n + 1] = G[f[n]]
    BY NatRecursion
  <2> QED BY <2>1, <2>2 DEF V
<1>2. \A n \in Nat : f[n + 1] = 2 * f[n]
  BY <1>1
<1>3. Fix(f)
  <2>1. ASSUME NEW n \in Nat PROVE f[n] = IF n = 0 THEN 1 ELSE 2 * f[n - 1]
    <3>1. CASE n = 0
      BY <1>1, <3>1
    <3>2. CASE n # 0
      <4>1. n - 1 \in Nat /\ n - 1 + 1 = n
        BY <3>2
      <4> QED BY <1>2, <3>2, <4>1
    <3> QED BY <3>1, <3>2
  <2> HIDE DEF H
  <2> QED BY <1>1, <2>1
<1>4. Pow2 = CHOOSE g : Fix(g)
  BY DEF Pow2
<1>5. Fix(Pow2)
  BY <1>3, <1>4
<1>6. \A n \in Nat : Pow2[n] = IF n = 0 THEN 1 ELSE 2 * Pow2[n - 1]
  BY <1>5
<1> HIDE DEF Fix, H
<1> DEFINE U == {n \in Nat : Pow2[n] \notin Nat}
<1>7. U = {}
  <2> SUFFICES ASSUME U # {} PROVE FALSE
    OBVIOUS
  <2>1. PICK n \in U : \A m \in U : n <= m
    <3>1. U \subseteq Nat
      OBVIOUS
    <3> HIDE DEF U
    <3> QED BY <3>1, LeastNat
  <2>2. n \in Nat /\ n # 0
    BY <2>1, <1>6
  <2>3. n - 1 \in Nat /\ ~(n <= n - 1)
    BY <2>2
  <2>4. Pow2[n - 1] \in Nat
    BY <2>1, <2>3
  <2> QED BY <1>6, <2>1, <2>2, <2>4
<1>8. ASSUME NEW n \in Nat PROVE Pow2[n + 1] = 2 * Pow2[n]
  <2>1. n + 1 \in Nat /\ n + 1 # 0 /\ n + 1 - 1 = n
    OBVIOUS
  <2> QED BY <1>6, <2>1
<1> QED BY <1>6, <1>7, <1>8

\* A greater number has a greater power.
LEMMA Pow2Grows ==
  ASSUME NEW m \in Nat, NEW n \in Nat
  PROVE  /\ m <= n => Pow2[m] <= Pow2[n]
         /\ m < n => 2 * Pow2[m] <= Pow2[n]
         /\ 1 <= Pow2[n]
<1>1. \A k \in Nat : Pow2[k] \in Nat /\ Pow2[k + 1] = 2 * Pow2[k]
  BY Pow2Eq
<1> DEFINE U == {k \in Nat : ~(Pow2[m] <= Pow2[m + k])}
<1>2. U = {}
  <2> SUFFICES ASSUME U # {} PROVE FALSE
    OBVIOUS
  <2>1. PICK k \in U : \A j \in U : k <= j
    <3>1. U \subseteq Nat
      OBVIOUS
    <3> HIDE DEF U
    <3> QED BY <3>1, LeastNat
  <2>2. k \in Nat /\ k # 0
    BY <2>1, <1>1
  <2>3. k - 1 \in Nat /\ ~(k <= k - 1) /\ m + (k - 1) \in Nat /\ m + (k - 1) + 1 = m + k
    BY <2>2
  <2>4. Pow2[m] <= Pow2[m + (k - 1)]
    BY <2>1, <2>3
  <2>5. Pow2[m + k] = 2 * Pow2[m + (k - 1)] /\ Pow2[m + (k - 1)] \in Nat
    BY <1>1, <2>3
  <2> QED BY <1>1, <2>1, <2>4, <2>5
<1>3. \A k \in Nat : Pow2[m] <= Pow2[m + k]
  BY <1>2
<1> HIDE DEF U
<1>4. ASSUME m <= n PROVE Pow2[m] <= Pow2[n]
  <2>1. n - m \in Nat /\ m + (n - m) = n
    BY <1>4
  <2> QED BY <1>3, <2>1
<1>5. ASSUME m < n PROVE 2 * Pow2[m] <= Pow2[n]
  <2>1. n - m - 1 \in Nat /\ m + (n - m - 1) + 1 = n /\ m + (n - m - 1) \in Nat
    BY <1>5
  <2>2. Pow2[m] <= Pow2[m + (n - m - 1)]
    BY <1>3, <2>1
  <2>3. Pow2[n] = 2 * Pow2[m + (n - m - 1)] /\ Pow2[m + (n - m - 1)] \in Nat
    BY <1>1, <2>1
  <2> QED BY <1>1, <2>2, <2>3
<1> DEFINE W == {k \in Nat : ~(1 <= Pow2[k])}
<1>6. W = {}
  <2> SUFFICES ASSUME W # {} PROVE FALSE
    OBVIOUS
  <2>1. PICK k \in W : \A j \in W : k <= j
    <3>1. W \subseteq Nat
      OBVIOUS
    <3> HIDE DEF W
    <3> QED BY <3>1, LeastNat
  <2>2. k \in Nat /\ k # 0
    BY <2>1, Pow2Eq
  <2>3. k - 1 \in Nat /\ ~(k <= k - 1) /\ (k - 1) + 1 = k
    BY <2>2
  <2>4. 1 <= Pow2[k - 1] /\ Pow2[k - 1] \in Nat /\ Pow2[k] = 2 * Pow2[k - 1]
    BY <1>1, <2>1, <2>3
  <2> QED BY <2>1, <2>4
<1> QED BY <1>4, <1>5, <1>6

\* A tree is higher by one than the higher of its subtrees.
LEMMA HeightNode ==
  ASSUME NEW t \in Forest, NEW x \in Node
  PROVE  /\ Height(t, x) \in Nat /\ Height(t, t[x].left) \in Nat
         /\ Height(t, t[x].right) \in Nat
         /\ Height(t, t[x].left) < Height(t, x) /\ Height(t, t[x].right) < Height(t, x)
         /\ \/ Height(t, x) = 1 + Height(t, t[x].left)
            \/ Height(t, x) = 1 + Height(t, t[x].right)
<1>1. t[x].left \in Ref /\ t[x].right \in Ref /\ x \in Ref
  BY LinksType DEF Forest
<1>2. Height(t, t[x].left) \in Nat /\ Height(t, t[x].right) \in Nat /\ Height(t, x) \in Nat
  BY <1>1, HeightEq
<1>3. Height(t, x) = 1 + Max({Height(t, t[x].left), Height(t, t[x].right)})
  BY HeightEq
<1> DEFINE a == Height(t, t[x].left)
           c == Height(t, t[x].right)
           h == Height(t, x)
<1> HIDE DEF a, c, h
<1>4. Max({a, c}) \in Nat /\ Max({a, c}) \in {a, c} /\ a <= Max({a, c}) /\ c <= Max({a, c})
  BY <1>2, MaxOfTwo DEF a, c
<1>5. h = 1 + Max({a, c}) /\ a \in Nat /\ c \in Nat /\ h \in Nat
  BY <1>2, <1>3 DEF a, c, h
<1>6. a < h /\ c < h /\ (h = 1 + a \/ h = 1 + c)
  BY <1>4, <1>5
<1> QED BY <1>2, <1>6 DEF a, c, h

\* A tree of height h has less than 2^h nodes.
LEMMA HeightBound ==
  ASSUME NEW t \in Forest, NEW x \in Ref
  PROVE  Height(t, x) \in Nat /\ Len(InOrder(t, x)) + 1 <= Pow2[Height(t, x)]
<1> DEFINE S == {z \in Ref : Len(InOrder(t, z)) + 1 <= Pow2[Height(t, z)]}
<1>1. Nil \in S
  BY InOrderEq, HeightEq, Pow2Eq DEF Ref
<1>2. ASSUME NEW z \in Node, t[z].left \in S, t[z].right \in S PROVE z \in S
  <2>1. InOrder(t, t[z].left) \in Seq(Node) /\ InOrder(t, t[z].right) \in Seq(Node)
    BY <1>2, InOrderEq
  <2>2. InOrder(t, z) = InOrder(t, t[z].left) \o <<z>> \o InOrder(t, t[z].right)
    BY InOrderEq
  <2>3. Len(InOrder(t, z)) = Len(InOrder(t, t[z].left)) + 1 + Len(InOrder(t, t[z].right))
    BY <2>1, <2>2, RangeMiddle
  <2> DEFINE a == Height(t, t[z].left)
             c == Height(t, t[z].right)
             h == Height(t, z)
  <2>4. a \in Nat /\ c \in Nat /\ h \in Nat /\ a < h /\ c < h
    BY HeightNode
  <2>5. Len(InOrder(t, t[z].left)) + 1 <= Pow2[a] /\ Len(InOrder(t, t[z].right)) + 1 <= Pow2[c]
    BY <1>2
  <2> HIDE DEF a, c, h
  <2>6. 2 * Pow2[a] <= Pow2[h] /\ 2 * Pow2[c] <= Pow2[h]
    BY <2>4, Pow2Grows
  <2>7. Pow2[a] \in Nat /\ Pow2[c] \in Nat /\ Pow2[h] \in Nat
    BY <2>4, Pow2Eq
  <2>8. Len(InOrder(t, t[z].left)) \in Nat /\ Len(InOrder(t, t[z].right)) \in Nat
    BY <2>1
  <2>9. Len(InOrder(t, z)) + 1 <= Pow2[h]
    BY <2>3, <2>5, <2>6, <2>7, <2>8
  <2> QED BY <2>9 DEF Ref, h
<1>3. \A z \in Ref : z \in S
  <2> HIDE DEF S
  <2> QED BY <1>1, <1>2, TreeInduction
<1> QED BY <1>3, HeightEq

-----------------------------------------------------------------------------
(* Sequences in parts, and ways from a root down.                          *)

-----------------------------------------------------------------------------
(* A subtree within a tree.                                                *)

\* Two sequences with a node between them, and a sequence between two others.
Join(a, w, c) == a \o <<w>> \o c
Wrap(p, x, q) == p \o x \o q

\* Concatenation can be regrouped.
Assoc(a, b, c) == (a \o b) \o c = a \o (b \o c)

\* Concatenation is associative.
LEMMA ConcatAssoc ==
  ASSUME NEW V, NEW a \in Seq(V), NEW b \in Seq(V), NEW c \in Seq(V)
  PROVE  Assoc(a, b, c)
<1>1. \A S : \A x \in Seq(S) : \A y \in Seq(S) : \A z \in Seq(S) :
        (x \o y) \o z = x \o (y \o z)
  BY ConcatAssociative, Zenon
<1> QED BY <1>1 DEF Assoc

\* A sequence between two others, beside a node and a further sequence.
LEMMA Regroup ==
  ASSUME NEW V, NEW a \in Seq(V), NEW w \in V, NEW p \in Seq(V), NEW x \in Seq(V), NEW q \in Seq(V)
  PROVE  /\ Join(a, w, Wrap(p, x, q)) = Wrap(Join(a, w, p), x, q)
         /\ Join(Wrap(p, x, q), w, a) = Wrap(p, x, Join(q, w, a))
<1> DEFINE u == <<w>>
           au == a \o u
           px == p \o x
           qu == q \o u
<1>0. u \in Seq(V)
  BY RangeSingle
<1> HIDE DEF u
<1>1. au \in Seq(V) /\ px \in Seq(V) /\ qu \in Seq(V)
  BY <1>0, ConcatProperties
<1> HIDE DEF au, px, qu
<1>3. Assoc(au, px, q) /\ Assoc(px, qu, a) /\ Assoc(au, p, x) /\ Assoc(px, q, u)
  BY <1>0, <1>1, ConcatAssoc
<1>4. /\ (au \o px) \o q = au \o (px \o q) /\ (px \o qu) \o a = px \o (qu \o a)
      /\ (au \o p) \o x = au \o (p \o x) /\ (px \o q) \o u = px \o (q \o u)
  BY <1>3 DEF Assoc
<1>5. px = p \o x /\ au = a \o <<w>> /\ qu = q \o u /\ u = <<w>>
  BY DEF px, au, qu, u
<1> QED BY <1>4, <1>5, Zenon DEF Join, Wrap

\* The last of a, w, p is the last of p, or w; the first of q, w, a is the first of q, or w.
LEMMA EndsOf ==
  ASSUME NEW V, NEW a \in Seq(V), NEW w \in V, NEW p \in Seq(V)
  PROVE  /\ Join(a, w, p) \in Seq(V) /\ Join(p, w, a) \in Seq(V)
         /\ 0 < Len(Join(a, w, p)) /\ 0 < Len(Join(p, w, a))
         /\ Len(Join(a, w, p)) = Len(a) + 1 + Len(p)
         /\ Len(Join(p, w, a)) = Len(a) + 1 + Len(p)
         /\ p = <<>> => Join(a, w, p)[Len(Join(a, w, p))] = w /\ Join(p, w, a)[1] = w
         /\ Len(p) > 0 => /\ Join(a, w, p)[Len(Join(a, w, p))] = p[Len(p)]
                          /\ Join(p, w, a)[1] = p[1]
<1> DEFINE u == <<w>>
           au == a \o u
           pu == p \o u
           s == au \o p
           z == pu \o a
<1>0. u \in Seq(V) /\ Len(u) = 1 /\ u[1] = w
  BY RangeSingle
<1> HIDE DEF u
<1>1. Len(a) \in Nat /\ Len(p) \in Nat
  OBVIOUS
<1>2. /\ au \in Seq(V) /\ Len(au) = Len(a) + 1
      /\ \A i \in 1 .. Len(a) + 1 : au[i] = IF i <= Len(a) THEN a[i] ELSE u[i - Len(a)]
  <2>1. au \in Seq(V) /\ Len(au) = Len(a) + Len(u)
        /\ \A i \in 1 .. Len(a) + Len(u) : au[i] = IF i <= Len(a) THEN a[i] ELSE u[i - Len(a)]
    BY <1>0, ConcatProperties
  <2> HIDE DEF au
  <2> QED BY <2>1, <1>0
<1>3. /\ pu \in Seq(V) /\ Len(pu) = Len(p) + 1
      /\ \A i \in 1 .. Len(p) + 1 : pu[i] = IF i <= Len(p) THEN p[i] ELSE u[i - Len(p)]
  <2>1. pu \in Seq(V) /\ Len(pu) = Len(p) + Len(u)
        /\ \A i \in 1 .. Len(p) + Len(u) : pu[i] = IF i <= Len(p) THEN p[i] ELSE u[i - Len(p)]
    BY <1>0, ConcatProperties
  <2> HIDE DEF pu
  <2> QED BY <2>1, <1>0
<1>4. au[Len(a) + 1] = w /\ pu[1] = IF Len(p) > 0 THEN p[1] ELSE w
  <2> HIDE DEF au, pu
  <2>1. Len(a) + 1 \in 1 .. Len(a) + 1 /\ ~(Len(a) + 1 <= Len(a)) /\ Len(a) + 1 - Len(a) = 1
        /\ 1 \in 1 .. Len(p) + 1
    BY <1>1
  <2>2. au[Len(a) + 1] = w
    BY <1>0, <1>2, <2>1
  <2>3. CASE Len(p) > 0
    BY <1>1, <1>3, <2>1, <2>2, <2>3
  <2>4. CASE ~(Len(p) > 0)
    <3>1. Len(p) = 0 /\ ~(1 <= Len(p)) /\ 1 - Len(p) = 1
      BY <1>1, <2>4
    <3> QED BY <1>0, <1>3, <2>1, <2>2, <2>4, <3>1
  <2> QED BY <2>3, <2>4
<1> HIDE DEF au, pu
<1>5. /\ s \in Seq(V) /\ Len(s) = Len(a) + 1 + Len(p)
      /\ \A i \in 1 .. Len(au) + Len(p) : s[i] = IF i <= Len(au) THEN au[i] ELSE p[i - Len(au)]
  <2>0. au \in Seq(V)
    BY <1>2
  <2>1. s \in Seq(V) /\ Len(s) = Len(au) + Len(p)
      /\ \A i \in 1 .. Len(au) + Len(p) : s[i] = IF i <= Len(au) THEN au[i] ELSE p[i - Len(au)]
    BY <2>0, ConcatProperties, SMTT(20)
  <2> HIDE DEF s
  <2> QED BY <2>1, <1>1, <1>2
<1>6. /\ z \in Seq(V) /\ Len(z) = Len(a) + 1 + Len(p)
      /\ \A i \in 1 .. Len(pu) + Len(a) : z[i] = IF i <= Len(pu) THEN pu[i] ELSE a[i - Len(pu)]
  <2>1. z \in Seq(V) /\ Len(z) = Len(pu) + Len(a)
      /\ \A i \in 1 .. Len(pu) + Len(a) : z[i] = IF i <= Len(pu) THEN pu[i] ELSE a[i - Len(pu)]
    <3>1. pu \in Seq(V)
      BY <1>3
    <3> QED BY <3>1, ConcatProperties
  <2> HIDE DEF z
  <2> QED BY <2>1, <1>1, <1>3
<1> HIDE DEF s, z
<1>7. z[1] = pu[1]
  <2>1. 1 \in 1 .. Len(pu) + Len(a) /\ 1 <= Len(pu)
    BY <1>1, <1>3
  <2> QED BY <1>6, <2>1
<1>8. CASE p = <<>>
  <2>1. Len(p) = 0 /\ Len(s) = Len(a) + 1 /\ Len(au) = Len(a) + 1
    BY <1>1, <1>2, <1>5, <1>8
  <2>2. s[Len(s)] = au[Len(a) + 1]
    BY <1>1, <1>5, <2>1
  <2>3. s[Len(s)] = w /\ z[1] = w
    BY <1>4, <1>7, <2>1, <2>2
  <2> QED BY <1>1, <1>5, <1>6, <2>1, <2>3 DEF s, z, au, pu, u, Join
<1>9. CASE Len(p) > 0
  <2>1. Len(s) \in 1 .. Len(au) + Len(p) /\ ~(Len(s) <= Len(au)) /\ Len(s) - Len(au) = Len(p)
    BY <1>1, <1>2, <1>5, <1>9
  <2>2. s[Len(s)] = p[Len(p)]
    BY <1>5, <2>1
  <2>3. z[1] = p[1] /\ p # <<>>
    BY <1>4, <1>7, <1>9
  <2> QED BY <1>1, <1>5, <1>6, <1>9, <2>2, <2>3 DEF s, z, au, pu, u, Join
<1> QED BY <1>1, <1>8, <1>9

\* The sequence ws leads from its first node down to its last.
Chain(t, ws) ==
  /\ ws \in Seq(Node) /\ 0 < Len(ws)
  /\ \A i \in 1 .. Len(ws) - 1 : ws[i + 1] \in {t[ws[i]].left, t[ws[i]].right}

\* The places on a way.
LEMMA ChainType ==
  ASSUME NEW t, NEW ws, Chain(t, ws)
  PROVE  /\ Len(ws) \in Nat /\ Len(ws) \in 1 .. Len(ws) /\ 1 \in 1 .. Len(ws)
         /\ \A i \in 1 .. Len(ws) : ws[i] \in Node /\ i \in Nat
         /\ \A i \in 1 .. Len(ws) - 1 :
              i \in 1 .. Len(ws) /\ i + 1 \in 1 .. Len(ws) /\ i \in Nat
<1>1. ws \in Seq(Node) /\ Len(ws) \in Nat /\ 0 < Len(ws)
  BY DEF Chain
<1>2. \A i \in 1 .. Len(ws) : ws[i] \in Node
  BY <1>1, ElementOfSeq
<1> QED BY <1>1, <1>2

\* Each node of it has the later ones in its subtree, and is in the tree of the first.
LEMMA ChainWithin ==
  ASSUME NEW t \in Forest, NEW ws, Chain(t, ws), NEW j \in 1 .. Len(ws), NEW i \in 1 .. j
  PROVE  ws[j] \in Within(t, ws[i]) /\ Within(t, ws[j]) \subseteq Within(t, ws[i])
<1>0. /\ \A k \in 1 .. Len(ws) : ws[k] \in Node /\ k \in Nat
      /\ \A k \in 1 .. Len(ws) - 1 : k \in 1 .. Len(ws) /\ k + 1 \in 1 .. Len(ws) /\ k \in Nat
      /\ Len(ws) \in Nat
  BY ChainType
<1> DEFINE S == {k \in 1 .. j : ws[j] \in Within(t, ws[k])}
<1>1. j \in Nat /\ j \in S
  BY <1>0, WithinEq
<1>2. ASSUME NEW k \in 1 .. j - 1, k + 1 \in S PROVE k \in S
  <2>1. k \in 1 .. Len(ws) - 1 /\ k \in 1 .. j
    BY <1>0
  <2>2. ws[k + 1] \in {t[ws[k]].left, t[ws[k]].right}
    BY <2>1 DEF Chain
  <2>3. Within(t, ws[k + 1]) \subseteq Within(t, ws[k])
    BY <1>0, <2>1, <2>2, WithinEq
  <2> QED BY <1>2, <2>1, <2>3
<1>3. \A k \in 1 .. j : k \in S
  <2> HIDE DEF S
  <2> QED BY <1>1, <1>2, DownFrom
<1>4. ws[j] \in Within(t, ws[i])
  BY <1>3
<1>5. ws[i] \in Ref
  BY <1>0, <1>1 DEF Ref
<1> QED BY <1>4, <1>5, WithinTrans

\* A chain is no longer than its tree is high.
LEMMA ChainHeight ==
  ASSUME NEW t \in Forest, NEW ws, Chain(t, ws), NEW j \in 1 .. Len(ws)
  PROVE  Height(t, ws[j]) + (j - 1) <= Height(t, ws[1])
<1>0. /\ \A k \in 1 .. Len(ws) : ws[k] \in Node /\ k \in Nat
      /\ \A k \in 1 .. Len(ws) - 1 : k \in 1 .. Len(ws) /\ k + 1 \in 1 .. Len(ws) /\ k \in Nat
      /\ Len(ws) \in Nat /\ 1 \in 1 .. Len(ws)
  BY ChainType
<1> DEFINE h(k) == Height(t, ws[k])
           S == {k \in 1 .. Len(ws) : h(k) + (k - 1) <= h(1)}
<1>1. \A k \in 1 .. Len(ws) : h(k) \in Nat
  BY <1>0, HeightEq DEF Ref
<1>2. 1 \in S
  BY <1>0, <1>1
<1>3. ASSUME NEW k \in 1 .. Len(ws) - 1, k \in S PROVE k + 1 \in S
  <2>1. ws[k + 1] \in {t[ws[k]].left, t[ws[k]].right}
    BY DEF Chain
  <2>2. h(k + 1) < h(k)
    BY <1>0, <2>1, HeightNode
  <2>3. k + 1 \in 1 .. Len(ws) /\ k \in Nat /\ h(k) \in Nat /\ h(k + 1) \in Nat /\ h(1) \in Nat
    BY <1>0, <1>1
  <2>4. h(k) + (k - 1) <= h(1)
    BY <1>3
  <2> HIDE DEF h
  <2>5. h(k + 1) + (k + 1 - 1) <= h(1)
    BY <2>2, <2>3, <2>4
  <2> QED BY <2>3, <2>5
<1>4. \A k \in 1 .. Len(ws) : k \in S
  <2> HIDE DEF S
  <2> QED BY <1>0, <1>2, <1>3, UpTo
<1> QED BY <1>4

\* To every node of a tree there is a chain from the root.
LEMMA ChainTo ==
  ASSUME NEW t \in Forest, NEW x \in Ref, NEW y \in Within(t, x)
  PROVE  \E ws : Chain(t, ws) /\ ws[1] = x /\ ws[Len(ws)] = y
<1> DEFINE S == {z \in Ref : \A w \in Within(t, z) :
                   \E ws : Chain(t, ws) /\ ws[1] = z /\ ws[Len(ws)] = w}
<1>1. Nil \in S
  BY WithinEq DEF Ref
<1>2. ASSUME NEW z \in Node, t[z].left \in S, t[z].right \in S PROVE z \in S
  <2> SUFFICES ASSUME NEW w \in Within(t, z)
               PROVE  \E ws : Chain(t, ws) /\ ws[1] = z /\ ws[Len(ws)] = w
    BY DEF Ref
  <2>1. CASE w = z
    <3> DEFINE ws == <<z>>
    <3>1. ws \in Seq(Node) /\ Len(ws) = 1 /\ ws[1] = z
      BY RangeSingle
    <3>2. Chain(t, ws)
      <4> HIDE DEF ws
      <4> QED BY <3>1 DEF Chain
    <3> HIDE DEF ws
    <3> QED BY <2>1, <3>1, <3>2
  <2>2. CASE w # z
    <3>1. PICK k \in {t[z].left, t[z].right} : w \in Within(t, k)
      BY <2>2, WithinEq
    <3>2. PICK vs : Chain(t, vs) /\ vs[1] = k /\ vs[Len(vs)] = w
      BY <1>2, <3>1
    <3>3. vs \in Seq(Node) /\ Len(vs) \in Nat /\ 0 < Len(vs)
          /\ \A i \in 1 .. Len(vs) - 1 : vs[i + 1] \in {t[vs[i]].left, t[vs[i]].right}
      BY <3>2 DEF Chain
    <3> DEFINE u == <<z>>
               ws == u \o vs
    <3>4. u \in Seq(Node) /\ Len(u) = 1 /\ u[1] = z
      BY RangeSingle
    <3> HIDE DEF u
    <3>5. ws \in Seq(Node) /\ Len(ws) = 1 + Len(vs)
          /\ \A i \in 1 .. 1 + Len(vs) : ws[i] = IF i <= 1 THEN u[i] ELSE vs[i - 1]
      <4>1. ws \in Seq(Node) /\ Len(ws) = Len(u) + Len(vs)
            /\ \A i \in 1 .. Len(u) + Len(vs) : ws[i] = IF i <= Len(u) THEN u[i] ELSE vs[i - Len(u)]
        BY <3>3, <3>4, ConcatProperties
      <4> HIDE DEF ws
      <4> QED BY <3>4, <4>1
    <3> HIDE DEF ws
    <3>6. ws[1] = z /\ \A i \in 1 .. Len(vs) : ws[i + 1] = vs[i]
      <4>1. ws[1] = z
        BY <3>3, <3>4, <3>5
      <4>2. ASSUME NEW i \in 1 .. Len(vs) PROVE ws[i + 1] = vs[i]
        <5>1. i + 1 \in 1 .. 1 + Len(vs) /\ ~(i + 1 <= 1) /\ i + 1 - 1 = i
          BY <3>3
        <5> QED BY <3>5, <5>1
      <4> QED BY <4>1, <4>2
    <3>7. ws[Len(ws)] = w
      <4>1. Len(vs) \in 1 .. Len(vs) /\ Len(ws) = Len(vs) + 1
        BY <3>3, <3>5
      <4> QED BY <3>2, <3>6, <4>1
    <3>8. ASSUME NEW i \in 1 .. Len(ws) - 1
          PROVE ws[i + 1] \in {t[ws[i]].left, t[ws[i]].right}
      <4>0. i \in 1 .. Len(vs)
        BY <3>3, <3>5
      <4>1. CASE i = 1
        <5>1. ws[i + 1] = vs[1] /\ ws[i] = z
          BY <3>6, <4>0, <4>1
        <5> QED BY <3>1, <3>2, <5>1
      <4>2. CASE i # 1
        <5>1. i - 1 \in 1 .. Len(vs) - 1 /\ i - 1 + 1 = i /\ i - 1 \in 1 .. Len(vs)
          BY <3>3, <4>0, <4>2
        <5>2. ws[i + 1] = vs[i] /\ ws[i] = vs[i - 1]
          <6>1. ws[i - 1 + 1] = vs[i - 1]
            BY <3>6, <5>1
          <6> QED BY <3>6, <4>0, <5>1, <6>1
        <5>3. vs[i - 1 + 1] \in {t[vs[i - 1]].left, t[vs[i - 1]].right}
          BY <3>3, <5>1
        <5> QED BY <5>1, <5>2, <5>3
      <4> QED BY <4>1, <4>2
    <3>9. Chain(t, ws)
      BY <3>3, <3>5, <3>8 DEF Chain
    <3> QED BY <3>6, <3>7, <3>9
  <2> QED BY <2>1, <2>2
<1>3. \A z \in Ref : z \in S
  <2> HIDE DEF S
  <2> QED BY <1>1, <1>2, TreeInduction
<1> QED BY <1>3

\* The nodes of a tree stand between those of its subtrees.
LEMMA InOrderJoin ==
  ASSUME NEW t \in Forest, NEW x \in Node
  PROVE  /\ InOrder(t, t[x].left) \in Seq(Node) /\ InOrder(t, t[x].right) \in Seq(Node)
         /\ InOrder(t, x) = Join(InOrder(t, t[x].left), x, InOrder(t, t[x].right))
<1>1. t[x].left \in Ref /\ t[x].right \in Ref
  BY LinksType DEF Forest
<1> QED BY <1>1, InOrderEq DEF Join

\* A sequence between two empty ones is itself.
LEMMA WrapEmpty ==
  ASSUME NEW V, NEW s \in Seq(V)
  PROVE  Wrap(<<>>, s, <<>>) = s /\ <<>> \in Seq(V) /\ Len(<<>>) = 0
<1>1. <<>> \o s = s /\ s \o <<>> = s
  BY ConcatEmptySeq
<1> QED BY <1>1 DEF Wrap

\* c where x was.
Put(y, x, c) == IF y = x THEN c ELSE y

\* The links u are those of the tree of n in t, with c in the place of the subtree x.
Replaced(t, u, n, x, c) ==
  \A w \in Within(t, n) \ Within(t, x) :
    u[w].left = Put(t[w].left, x, c) /\ u[w].right = Put(t[w].right, x, c)

\* The chain goes on to the right at i.
Right(t, ws, i) == ws[i + 1] = t[ws[i]].right

\* The nodes next to what the chain from i on leads to: the one before is the last
\* at which it went right, the one after the last at which it went left.
NextTo(t, ws, i, pre, post) ==
  LET on == i .. Len(ws) - 1 IN
  /\ (\A j \in on : ~Right(t, ws, j)) => pre = <<>>
  /\ (\A j \in on : Right(t, ws, j)) => post = <<>>
  /\ \A j \in on : Right(t, ws, j) /\ (\A k \in on : k > j => ~Right(t, ws, k)) =>
       0 < Len(pre) /\ pre[Len(pre)] = ws[j]
  /\ \A j \in on : ~Right(t, ws, j) /\ (\A k \in on : k > j => Right(t, ws, k)) =>
       0 < Len(post) /\ post[1] = ws[j]

\* One step up the chain, for NextTo.
LEMMA NextToStep ==
  ASSUME NEW t \in Forest, NEW ws, Chain(t, ws), NEW i \in 1 .. Len(ws) - 1,
         NEW pre \in Seq(Node), NEW post \in Seq(Node), NextTo(t, ws, i + 1, pre, post),
         NEW a \in Seq(Node)
  PROVE  /\ Right(t, ws, i) => NextTo(t, ws, i, Join(a, ws[i], pre), post)
         /\ ~Right(t, ws, i) => NextTo(t, ws, i, pre, Join(post, ws[i], a))
<1>0. Len(ws) \in Nat /\ i \in Nat /\ ws[i] \in Node
  BY ChainType
<1> DEFINE w == ws[i]
           on == i .. Len(ws) - 1
           up == i + 1 .. Len(ws) - 1
           p == Join(a, w, pre)
           q == Join(post, w, a)
<1>1. /\ 0 < Len(p) /\ 0 < Len(q)
      /\ pre = <<>> => p[Len(p)] = w
      /\ post = <<>> => q[1] = w
      /\ Len(pre) > 0 => p[Len(p)] = pre[Len(pre)]
      /\ Len(post) > 0 => q[1] = post[1]
  <2> w \in Node
    BY <1>0
  <2> HIDE DEF w
  <2>1. /\ 0 < Len(p)
        /\ pre = <<>> => p[Len(p)] = w
        /\ Len(pre) > 0 => p[Len(p)] = pre[Len(pre)]
    BY EndsOf
  <2>2. /\ 0 < Len(q)
        /\ post = <<>> => q[1] = w
        /\ Len(post) > 0 => q[1] = post[1]
    BY EndsOf
  <2> HIDE DEF p, q
  <2> QED BY <2>1, <2>2
<1>2. /\ i \in on /\ up \subseteq on /\ \A j \in on : j = i \/ j \in up
      /\ \A j \in up : j > i /\ ~(i > j)
  BY <1>0
<1>3. /\ (\A j \in up : ~Right(t, ws, j)) => pre = <<>>
      /\ (\A j \in up : Right(t, ws, j)) => post = <<>>
      /\ \A j \in up : Right(t, ws, j) /\ (\A k \in up : k > j => ~Right(t, ws, k)) =>
           0 < Len(pre) /\ pre[Len(pre)] = ws[j]
      /\ \A j \in up : ~Right(t, ws, j) /\ (\A k \in up : k > j => Right(t, ws, k)) =>
           0 < Len(post) /\ post[1] = ws[j]
  BY DEF NextTo
<1> HIDE DEF on, up, p, q
<1>4. ASSUME Right(t, ws, i) PROVE NextTo(t, ws, i, p, post)
  <2>1. (\A j \in on : ~Right(t, ws, j)) => p = <<>>
    BY <1>2, <1>4
  <2>2. (\A j \in on : Right(t, ws, j)) => post = <<>>
    BY <1>2, <1>3
  <2>3. ASSUME NEW j \in on, Right(t, ws, j), \A k \in on : k > j => ~Right(t, ws, k)
        PROVE  p[Len(p)] = ws[j]
    <3>1. CASE j = i
      <4>1. pre = <<>>
        BY <1>2, <1>3, <2>3, <3>1
      <4> QED BY <1>1, <3>1, <4>1 DEF w
    <3>2. CASE j \in up
      BY <1>1, <1>2, <1>3, <2>3, <3>2
    <3> QED BY <1>2, <3>1, <3>2
  <2>4. \A j \in on : ~Right(t, ws, j) /\ (\A k \in on : k > j => Right(t, ws, k)) =>
          0 < Len(post) /\ post[1] = ws[j]
    BY <1>2, <1>3, <1>4
  <2> QED BY <1>1, <2>1, <2>2, <2>3, <2>4 DEF NextTo, on
<1>5. ASSUME ~Right(t, ws, i) PROVE NextTo(t, ws, i, pre, q)
  <2>1. (\A j \in on : Right(t, ws, j)) => q = <<>>
    BY <1>2, <1>5
  <2>2. (\A j \in on : ~Right(t, ws, j)) => pre = <<>>
    BY <1>2, <1>3
  <2>3. ASSUME NEW j \in on, ~Right(t, ws, j), \A k \in on : k > j => Right(t, ws, k)
        PROVE  q[1] = ws[j]
    <3>1. CASE j = i
      <4>1. post = <<>>
        BY <1>2, <1>3, <2>3, <3>1
      <4> QED BY <1>1, <3>1, <4>1 DEF w
    <3>2. CASE j \in up
      BY <1>1, <1>2, <1>3, <2>3, <3>2
    <3> QED BY <1>2, <3>1, <3>2
  <2>4. \A j \in on : Right(t, ws, j) /\ (\A k \in on : k > j => ~Right(t, ws, k)) =>
          0 < Len(pre) /\ pre[Len(pre)] = ws[j]
    BY <1>2, <1>3, <1>5
  <2> QED BY <1>1, <2>1, <2>2, <2>3, <2>4 DEF NextTo, on
<1> QED BY <1>4, <1>5 DEF p, q, w

\* A subtree is a part of the tree's sequence, and what replaces it takes its place
\* there; the tree grows no higher than what replaces it makes it.
LEMMA Around ==
  ASSUME NEW t \in Forest, NEW u \in Forest, NEW ws, Chain(t, ws),
         Distinct(InOrder(t, ws[1])), NEW c \in Ref,
         Replaced(t, u, ws[1], ws[Len(ws)], c)
  PROVE  \E pre, post \in Seq(Node) :
           LET x == ws[Len(ws)]
               top == IF Len(ws) = 1 THEN c ELSE ws[1]
           IN  /\ InOrder(t, ws[1]) = Wrap(pre, InOrder(t, x), post)
               /\ InOrder(u, top) = Wrap(pre, InOrder(u, c), post)
               /\ NextTo(t, ws, 1, pre, post)
               /\ \A M \in Nat : /\ Height(t, ws[1]) <= M
                                 /\ Len(ws) - 1 + Height(u, c) <= M
                                 => Height(u, top) <= M
<1>0. /\ \A k \in 1 .. Len(ws) : ws[k] \in Node /\ k \in Nat
      /\ \A k \in 1 .. Len(ws) - 1 : k \in 1 .. Len(ws) /\ k + 1 \in 1 .. Len(ws) /\ k \in Nat
      /\ Len(ws) \in Nat /\ 1 \in 1 .. Len(ws) /\ Len(ws) \in 1 .. Len(ws)
  BY ChainType
<1> DEFINE d == Len(ws)
           x == ws[d]
           top(i) == IF i = d THEN c ELSE ws[i]
           Claim(i, pre, post) ==
             /\ InOrder(t, ws[i]) = Wrap(pre, InOrder(t, x), post)
             /\ InOrder(u, top(i)) = Wrap(pre, InOrder(u, c), post)
             /\ NextTo(t, ws, i, pre, post)
             /\ \A M \in Nat : Height(t, ws[i]) <= M /\ d - i + Height(u, c) <= M
                               => Height(u, top(i)) <= M
           S == {i \in 1 .. d : \E pre, post \in Seq(Node) : Claim(i, pre, post)}
<1>1. x \in Node /\ x \in Ref /\ x # Nil /\ x \in Within(t, x)
  BY <1>0, NilAssumption, WithinEq DEF Ref
<1>2. d \in S
  <2>1. InOrder(t, x) \in Seq(Node) /\ InOrder(u, c) \in Seq(Node) /\ Height(u, c) \in Nat
    BY <1>1, InOrderEq, HeightEq
  <2>2. NextTo(t, ws, d, <<>>, <<>>)
    <3>1. d .. d - 1 = {}
      BY <1>0
    <3> QED BY <3>1 DEF NextTo
  <2>3. top(d) = c
    OBVIOUS
  <2>4. \A M \in Nat : Height(t, ws[d]) <= M /\ d - d + Height(u, c) <= M => Height(u, c) <= M
    BY <1>0, <2>1
  <2>5. Claim(d, <<>>, <<>>)
    <3> HIDE DEF top
    <3> QED BY <2>1, <2>2, <2>3, <2>4, WrapEmpty
  <2> HIDE DEF Claim
  <2> QED BY <1>0, <2>1, <2>5, WrapEmpty
<1>3. ASSUME NEW i \in 1 .. d - 1, i + 1 \in S PROVE i \in S
  <2>1. PICK pre \in Seq(Node), post \in Seq(Node) : Claim(i + 1, pre, post)
    <3> HIDE DEF Claim
    <3> QED BY <1>3
  <2> DEFINE w == ws[i]
             v == ws[i + 1]
  <2>2. w \in Node /\ v \in Node /\ i \in 1 .. d /\ i + 1 \in 1 .. d /\ i \in Nat /\ i # d
    BY <1>0
  <2>3. v \in {t[w].left, t[w].right}
    BY DEF Chain
  <2>4. x \in Within(t, v) /\ Within(t, x) \subseteq Within(t, v)
    <3>1. i + 1 \in 1 .. d /\ d \in 1 .. Len(ws)
      BY <1>0, <2>2
    <3> QED BY <3>1, ChainWithin
  <2>5. w \in Within(t, ws[1]) /\ Within(t, w) \subseteq Within(t, ws[1])
    <3>1. 1 \in 1 .. i
      BY <2>2
    <3> QED BY <2>2, <3>1, ChainWithin
  <2>6. w \notin Within(t, v) /\ w \notin Within(t, x)
    BY <2>2, <2>3, <2>4, NotBelow
  <2>7. Distinct(InOrder(t, w))
    <3> DEFINE R == {k \in 1 .. d : Distinct(InOrder(t, ws[k]))}
    <3>1. 1 \in R
      BY <1>0
    <3>2. ASSUME NEW k \in 1 .. d - 1, k \in R PROVE k + 1 \in R
      <4>1. ws[k + 1] \in {t[ws[k]].left, t[ws[k]].right}
        BY DEF Chain
      <4> QED BY <1>0, <3>2, <4>1, SidesApart
    <3>3. \A k \in 1 .. d : k \in R
      <4> HIDE DEF R
      <4> QED BY <1>0, <3>1, <3>2, UpTo
    <3> QED BY <2>2, <3>3
  <2>8. Put(v, x, c) = top(i + 1)
    <3>1. CASE i + 1 = d
      BY <3>1 DEF Put
    <3>2. CASE i + 1 # d
      <4>1. i + 1 \in 1 .. d - 1 /\ i + 1 + 1 \in 1 .. d
        BY <1>0, <2>2, <3>2
      <4>2. x \in Within(t, ws[i + 1 + 1])
        <5>1. d \in 1 .. Len(ws)
          BY <1>0
        <5> QED BY <4>1, <5>1, ChainWithin
      <4>3. ws[i + 1 + 1] \in {t[v].left, t[v].right}
        BY <4>1 DEF Chain
      <4>4. v # x
        BY <2>2, <4>2, <4>3, NotBelow
      <4> QED BY <3>2, <4>4 DEF Put
    <3> QED BY <3>1, <3>2
  <2>9. ASSUME NEW o \in {t[w].left, t[w].right}, Within(t, o) \cap Within(t, v) = {}
        PROVE  /\ Put(o, x, c) = o /\ InOrder(u, o) = InOrder(t, o)
               /\ Height(u, o) = Height(t, o)
    <3>1. o \in Ref
      BY <2>2, LinksType DEF Forest
    <3>2. o # x
      BY <1>1, <2>4, <2>9
    <3>3. \A y \in Within(t, o) : u[y].left = t[y].left /\ u[y].right = t[y].right
      <4> TAKE y \in Within(t, o)
      <4>1. y \in Within(t, w) /\ y \in Node
        BY <2>2, <2>9, <3>1, WithinEq
      <4>2. y \in Within(t, ws[1]) \ Within(t, x)
        BY <2>4, <2>5, <2>9, <4>1
      <4>3. \A z \in {t[y].left, t[y].right} : z # x
        <5> SUFFICES x \notin {t[y].left, t[y].right}
          OBVIOUS
        <5>1. x \in {t[y].left, t[y].right} => x \in Within(t, y)
          BY <1>1, <4>1, WithinEq
        <5>2. Within(t, y) \subseteq Within(t, o)
          BY <3>1, WithinTrans
        <5> QED BY <2>4, <2>9, <5>1, <5>2
      <4> QED BY <4>2, <4>3 DEF Replaced, Put
    <3> QED BY <3>1, <3>2, <3>3, Agreement DEF Put
  <2>10. u[w].left = Put(t[w].left, x, c) /\ u[w].right = Put(t[w].right, x, c)
    BY <2>5, <2>6 DEF Replaced
  <2>11. /\ InOrder(t, w) = Join(InOrder(t, t[w].left), w, InOrder(t, t[w].right))
         /\ InOrder(u, w) = Join(InOrder(u, u[w].left), w, InOrder(u, u[w].right))
    BY <2>2, InOrderJoin
  <2>12. Within(t, t[w].left) \cap Within(t, t[w].right) = {}
    BY <2>2, <2>7, SidesApart
  <2>13. /\ Height(t, w) \in Nat /\ Height(t, t[w].left) \in Nat /\ Height(t, t[w].right) \in Nat
         /\ Height(t, t[w].left) < Height(t, w) /\ Height(t, t[w].right) < Height(t, w)
         /\ Height(u, w) \in Nat /\ Height(u, u[w].left) \in Nat /\ Height(u, u[w].right) \in Nat
         /\ \/ Height(u, w) = 1 + Height(u, u[w].left)
            \/ Height(u, w) = 1 + Height(u, u[w].right)
    BY <2>2, HeightNode
  <2>14. Height(u, c) \in Nat
    BY HeightEq
  <2>15. \A M \in Nat : Height(t, v) <= M /\ d - (i + 1) + Height(u, c) <= M
                        => Height(u, top(i + 1)) <= M
    BY <2>1
  <2>16. /\ InOrder(t, v) = Wrap(pre, InOrder(t, x), post)
         /\ InOrder(u, top(i + 1)) = Wrap(pre, InOrder(u, c), post)
         /\ NextTo(t, ws, i + 1, pre, post)
    BY <2>1
  <2>17. InOrder(t, x) \in Seq(Node) /\ InOrder(u, c) \in Seq(Node)
    BY <1>1, InOrderEq
  <2>18. top(i) = w
    BY <2>2
  <2>19. top(i + 1) \in Ref
    BY <2>2 DEF Ref
  <2>20. ASSUME NEW o \in {t[w].left, t[w].right}, Height(u, o) = Height(t, o),
               {u[w].left, u[w].right} \subseteq {o, top(i + 1)},
               NEW M \in Nat, Height(t, w) <= M, d - i + Height(u, c) <= M
         PROVE Height(u, top(i)) <= M
    <3>1. M - 1 \in Nat /\ Height(t, v) <= M - 1 /\ Height(t, o) <= M - 1
      <4> DEFINE g == Height(t, w)
                 gv == Height(t, v)
                 go == Height(t, o)
      <4>1. g \in Nat /\ gv \in Nat /\ go \in Nat /\ gv < g /\ go < g
        BY <2>3, <2>13, <2>20
      <4>2. g <= M
        BY <2>20
      <4> HIDE DEF g, gv, go
      <4>3. M - 1 \in Nat /\ gv <= M - 1 /\ go <= M - 1
        BY <4>1, <4>2
      <4> QED BY <4>3 DEF gv, go
    <3>2. d - (i + 1) + Height(u, c) <= M - 1
      BY <1>0, <2>2, <2>14, <2>20
    <3>3. Height(u, top(i + 1)) <= M - 1
      <4> HIDE DEF top
      <4> QED BY <2>15, <3>1, <3>2
    <3>4. Height(u, u[w].left) <= M - 1 /\ Height(u, u[w].right) <= M - 1
      <4> HIDE DEF top
      <4> QED BY <2>20, <3>1, <3>3
    <3> HIDE DEF top
    <3> QED BY <2>13, <2>18, <3>1, <3>4
  <2>21. CASE v = t[w].right
    <3> DEFINE o == t[w].left
               a == InOrder(t, o)
    <3>1. Put(o, x, c) = o /\ InOrder(u, o) = InOrder(t, o) /\ Height(u, o) = Height(t, o)
      BY <2>9, <2>12, <2>21
    <3>2. u[w].left = o /\ u[w].right = top(i + 1)
      BY <2>8, <2>10, <2>21, <3>1
    <3>3. a \in Seq(Node)
      BY <2>2, InOrderJoin
    <3> HIDE DEF a, top
    <3>4. InOrder(t, w) = Join(a, w, Wrap(pre, InOrder(t, x), post))
      BY <2>11, <2>16, <2>21 DEF a
    <3>5. InOrder(u, w) = Join(a, w, Wrap(pre, InOrder(u, c), post))
      BY <2>11, <2>16, <3>1, <3>2 DEF a
    <3>6. Join(a, w, pre) \in Seq(Node)
      BY <2>2, <3>3, EndsOf
    <3>7. InOrder(t, w) = Wrap(Join(a, w, pre), InOrder(t, x), post)
      BY <2>2, <2>17, <3>3, <3>4, Regroup
    <3>8. InOrder(u, w) = Wrap(Join(a, w, pre), InOrder(u, c), post)
      BY <2>2, <2>17, <3>3, <3>5, Regroup
    <3>9. NextTo(t, ws, i, Join(a, w, pre), post)
      BY <2>16, <2>21, <3>3, NextToStep DEF Right
    <3>10. \A M \in Nat : Height(t, w) <= M /\ d - i + Height(u, c) <= M
                          => Height(u, top(i)) <= M
      BY <2>20, <3>1, <3>2
    <3>11. Claim(i, Join(a, w, pre), post)
      BY <2>18, <3>7, <3>8, <3>9, <3>10
    <3> HIDE DEF Claim
    <3> QED BY <2>2, <3>6, <3>11
  <2>22. CASE v # t[w].right
    <3> DEFINE o == t[w].right
               a == InOrder(t, o)
    <3>0. v = t[w].left
      BY <2>3, <2>22
    <3>1. Put(o, x, c) = o /\ InOrder(u, o) = InOrder(t, o) /\ Height(u, o) = Height(t, o)
      BY <2>9, <2>12, <3>0
    <3>2. u[w].right = o /\ u[w].left = top(i + 1)
      BY <2>8, <2>10, <3>0, <3>1
    <3>3. a \in Seq(Node)
      BY <2>2, InOrderJoin
    <3> HIDE DEF a, top
    <3>4. InOrder(t, w) = Join(Wrap(pre, InOrder(t, x), post), w, a)
      BY <2>11, <2>16, <3>0 DEF a
    <3>5. InOrder(u, w) = Join(Wrap(pre, InOrder(u, c), post), w, a)
      BY <2>11, <2>16, <3>1, <3>2 DEF a
    <3>6. Join(post, w, a) \in Seq(Node)
      BY <2>2, <3>3, EndsOf
    <3>7. InOrder(t, w) = Wrap(pre, InOrder(t, x), Join(post, w, a))
      BY <2>2, <2>17, <3>3, <3>4, Regroup
    <3>8. InOrder(u, w) = Wrap(pre, InOrder(u, c), Join(post, w, a))
      BY <2>2, <2>17, <3>3, <3>5, Regroup
    <3>9. NextTo(t, ws, i, pre, Join(post, w, a))
      BY <2>16, <2>22, <3>3, NextToStep DEF Right
    <3>10. \A M \in Nat : Height(t, w) <= M /\ d - i + Height(u, c) <= M
                          => Height(u, top(i)) <= M
      BY <2>20, <3>1, <3>2
    <3>11. Claim(i, pre, Join(post, w, a))
      BY <2>18, <3>7, <3>8, <3>9, <3>10
    <3> HIDE DEF Claim
    <3> QED BY <2>2, <3>6, <3>11
  <2> QED BY <2>21, <2>22
<1>4. \A i \in 1 .. d : i \in S
  <2> HIDE DEF S
  <2> QED BY <1>0, <1>2, <1>3, DownFrom
<1>5. PICK pre \in Seq(Node), post \in Seq(Node) : Claim(1, pre, post)
  <2> HIDE DEF Claim
  <2> QED BY <1>0, <1>4
<1> QED BY <1>5

-----------------------------------------------------------------------------
(* Relinking.                                                              *)

\* The nodes C of u have the ranks rc, and lead to C only; the others are those
\* of t, but for children in C.
Graft(t, u, C, B, rc) ==
  /\ C \in SUBSET Node /\ B \in Nat /\ rc \in [C -> 0 .. B]
  /\ \A x \in C : \A y \in {u[x].left, u[x].right} : y = Nil \/ (y \in C /\ rc[y] < rc[x])
  /\ \A x \in Node \ C : \A y \in {u[x].left, u[x].right} :
       y = Nil \/ y \in C \/ y \in {t[x].left, t[x].right}

\* Links are without a cycle when those within C are, and every other node keeps its
\* children or has some of C.
LEMMA Grafted ==
  ASSUME NEW t \in Forest, NEW u \in Links, NEW C, NEW B, NEW rc, Graft(t, u, C, B, rc)
  PROVE  u \in Forest
<1> SUFFICES ASSUME C \in SUBSET Node, B \in Nat, rc \in [C -> 0 .. B],
                    \A x \in C : \A y \in {u[x].left, u[x].right} :
                      y = Nil \/ (y \in C /\ rc[y] < rc[x]),
                    \A x \in Node \ C : \A y \in {u[x].left, u[x].right} :
                      y = Nil \/ y \in C \/ y \in {t[x].left, t[x].right}
             PROVE  u \in Forest
  BY DEF Graft
<1>1. PICK r \in [Node -> Nat] : Descends(t, r)
  BY DEF Forest
<1> DEFINE q == [x \in Node |-> IF x \in C THEN rc[x] ELSE r[x] + B + 1]
<1>2. /\ q \in [Node -> Nat]
      /\ \A x \in C : q[x] = rc[x] /\ rc[x] <= B /\ rc[x] \in Nat
      /\ \A x \in Node \ C : q[x] = r[x] + B + 1 /\ r[x] \in Nat
  <2>1. \A x \in C : rc[x] \in Nat /\ rc[x] <= B
    OBVIOUS
  <2> QED BY <2>1
<1> HIDE DEF q
<1>3. ASSUME NEW x \in Node, NEW y \in {u[x].left, u[x].right}, y # Nil PROVE q[y] < q[x]
  <2>1. y \in Node
    BY <1>3, LinksType DEF Ref
  <2>2. CASE x \in C
    BY <1>2, <1>3, <2>2
  <2>3. CASE x \notin C /\ y \in C
    BY <1>2, <2>3
  <2>4. CASE x \notin C /\ y \notin C
    <3>1. y \in {t[x].left, t[x].right}
      BY <1>3, <2>4
    <3>2. r[y] < r[x]
      BY <1>1, <1>3, <3>1 DEF Descends
    <3>3. q[y] = r[y] + B + 1 /\ q[x] = r[x] + B + 1 /\ r[x] \in Nat /\ r[y] \in Nat
      BY <1>2, <2>1, <2>4
    <3> QED BY <3>2, <3>3
  <2> QED BY <2>2, <2>3, <2>4
<1>4. Descends(u, q)
  BY <1>3 DEF Descends
<1> QED BY <1>2, <1>4 DEF Forest

\* A node has one parent in a tree that has no node twice, and the root has none.
LEMMA OneParent ==
  ASSUME NEW t \in Forest, NEW x \in Ref, Distinct(InOrder(t, x)), NEW n \in Node,
         NEW p \in Within(t, x), n \in {t[p].left, t[p].right},
         NEW q \in Within(t, x), n \in {t[q].left, t[q].right}
  PROVE  p = q
<1> DEFINE Kid(y) == y \in Node /\ n \in {t[y].left, t[y].right}
           S == {z \in Ref : Distinct(InOrder(t, z)) =>
                   \A v, w \in Within(t, z) : Kid(v) /\ Kid(w) => v = w}
<1>1. Nil \in S
  BY WithinEq DEF Ref
<1>2. ASSUME NEW y \in Ref, NEW v \in Within(t, y), Kid(v) PROVE n \in Within(t, y)
  <2>1. n \in Within(t, v)
    BY <1>2, WithinEq
  <2> QED BY <2>1, WithinTrans
<1>3. ASSUME NEW z \in Node, t[z].left \in S, t[z].right \in S PROVE z \in S
  <2>1. SUFFICES ASSUME Distinct(InOrder(t, z)), NEW v \in Within(t, z), NEW w \in Within(t, z),
                        Kid(v), Kid(w)
                 PROVE v = w
    BY DEF Ref
  <2>2. /\ Within(t, z) = Within(t, t[z].left) \cup {z} \cup Within(t, t[z].right)
        /\ Within(t, t[z].left) \cap Within(t, t[z].right) = {}
        /\ Distinct(InOrder(t, t[z].left)) /\ Distinct(InOrder(t, t[z].right))
    BY <2>1, WithinEq, SidesApart
  <2>3. ASSUME NEW y \in {t[z].left, t[z].right}, NEW a \in Within(t, y), Kid(a), Kid(z)
        PROVE FALSE
    <3>1. y \in Ref /\ n \in Within(t, y) /\ a \in Node
      BY <1>2, <1>3, <2>3, WithinEq
    <3>2. CASE n = y
      <4>1. a \in Within(t, n) /\ n \in Node
        BY <2>3, <3>2
      <4>2. PICK r \in [Node -> Nat] : Descends(t, r)
        BY DEF Forest
      <4>3. r[a] <= r[n]
        BY <4>1, <4>2, RankWithin
      <4>4. r[n] < r[a]
        BY <2>3, <3>1, <4>2, NilAssumption DEF Descends
      <4> QED BY <3>1, <4>1, <4>3, <4>4
    <3>3. CASE n # y
      <4>1. n \in {t[z].left, t[z].right}
        BY <2>3
      <4>2. n \in Within(t, n)
        BY WithinEq
      <4> QED BY <2>2, <2>3, <3>1, <3>3, <4>1, <4>2
    <3> QED BY <3>2, <3>3
  <2>4. CASE v = z \/ w = z
    <3> SUFFICES ASSUME v # w PROVE FALSE
      OBVIOUS
    <3>1. \A a \in Within(t, z) : a # z => a \in Within(t, t[z].left) \/ a \in Within(t, t[z].right)
      BY <2>2
    <3> HIDE DEF Kid
    <3> QED BY <2>1, <2>3, <2>4, <3>1
  <2>5. CASE v \in Within(t, t[z].left) /\ w \in Within(t, t[z].left)
    BY <1>3, <2>1, <2>2, <2>5
  <2>6. CASE v \in Within(t, t[z].right) /\ w \in Within(t, t[z].right)
    BY <1>3, <2>1, <2>2, <2>6
  <2>7. ASSUME NEW a \in Within(t, t[z].left), NEW b \in Within(t, t[z].right), Kid(a), Kid(b)
        PROVE FALSE
    <3>1. n \in Within(t, t[z].left) /\ n \in Within(t, t[z].right)
      <4>1. t[z].left \in Ref /\ t[z].right \in Ref
        BY <1>3
      <4> HIDE DEF Kid
      <4> QED BY <1>2, <2>7, <4>1
    <3> QED BY <2>2, <3>1
  <2> HIDE DEF Kid
  <2> QED BY <2>1, <2>2, <2>4, <2>5, <2>6, <2>7
<1>4. \A z \in Ref : z \in S
  <2> HIDE DEF S
  <2> QED BY <1>1, <1>3, TreeInduction
<1>5. p \in Node /\ q \in Node
  BY WithinEq
<1> QED BY <1>4, <1>5

\* No node of a tree refers to its root.
LEMMA NoParent ==
  ASSUME NEW t \in Forest, NEW x \in Node, NEW p \in Within(t, x)
  PROVE  x \notin {t[p].left, t[p].right}
<1>1. PICK r \in [Node -> Nat] : Descends(t, r)
  BY DEF Forest
<1>2. p \in Node /\ r[p] <= r[x]
  BY <1>1, RankWithin
<1>3. x \in {t[p].left, t[p].right} => r[x] < r[p]
  BY <1>1, <1>2, NilAssumption DEF Descends
<1>4. r[x] \in Nat /\ r[p] \in Nat
  BY <1>2
<1> QED BY <1>2, <1>3, <1>4

\* The node before the last of a chain.
Above(ws) == IF Len(ws) = 1 THEN Nil ELSE ws[Len(ws) - 1]

\* The node above the end of a way.
LEMMA AboveType ==
  ASSUME NEW t \in Forest, NEW ws, Chain(t, ws)
  PROVE  \/ Len(ws) = 1 /\ Above(ws) = Nil
         \/ /\ Len(ws) - 1 \in 1 .. Len(ws) - 1 /\ Len(ws) # 1
            /\ Above(ws) = ws[Len(ws) - 1] /\ Above(ws) \in Node /\ Above(ws) # Nil
            /\ ws[Len(ws)] \in {t[Above(ws)].left, t[Above(ws)].right}
            /\ Above(ws) \in Within(t, ws[1])
            /\ Above(ws) \notin Within(t, ws[Len(ws)])
<1>1. /\ \A k \in 1 .. Len(ws) : ws[k] \in Node /\ k \in Nat
      /\ \A k \in 1 .. Len(ws) - 1 : k \in 1 .. Len(ws) /\ k + 1 \in 1 .. Len(ws) /\ k \in Nat
      /\ Len(ws) \in Nat /\ 1 \in 1 .. Len(ws) /\ Len(ws) \in 1 .. Len(ws)
  BY ChainType
<1>2. CASE Len(ws) # 1
  <2>1. Len(ws) - 1 \in 1 .. Len(ws) - 1 /\ Len(ws) - 1 + 1 = Len(ws)
        /\ Len(ws) - 1 \in 1 .. Len(ws) /\ 1 \in 1 .. Len(ws) - 1
    <3>1. ws \in Seq(Node) /\ 0 < Len(ws)
      BY DEF Chain
    <3>2. Len(ws) \in Nat
      BY <3>1
    <3> DEFINE d == Len(ws)
    <3>3. d \in Nat /\ 0 < d /\ d # 1
      BY <3>1, <3>2, <1>2
    <3> HIDE DEF d
    <3>4. d - 1 \in 1 .. d - 1 /\ d - 1 + 1 = d /\ d - 1 \in 1 .. d /\ 1 \in 1 .. d - 1
      BY <3>3
    <3> QED BY <3>4 DEF d
  <2>2. ws[Len(ws) - 1 + 1] \in {t[ws[Len(ws) - 1]].left, t[ws[Len(ws) - 1]].right}
    BY <2>1 DEF Chain
  <2>3. ws[Len(ws) - 1] \in Within(t, ws[1])
    BY <2>1, ChainWithin
  <2>4. ws[Len(ws) - 1] \in Node
    BY <1>1, <2>1
  <2>5. ws[Len(ws) - 1] \notin Within(t, ws[Len(ws)])
    BY <2>1, <2>2, <2>4, NotBelow
  <2> QED BY <1>2, <2>1, <2>2, <2>3, <2>4, <2>5, NilAssumption DEF Above
<1> QED BY <1>2 DEF Above

\* ParentOf finds the node above the end of a way.
LEMMA ParentIs ==
  ASSUME NEW t \in Forest, NEW ws, Chain(t, ws), ws[1] = root, Distinct(InOrder(t, root))
  PROVE  ParentOf(t, ws[Len(ws)]) = Above(ws)
<1>1. Len(ws) \in 1 .. Len(ws) /\ ws[Len(ws)] \in Node /\ root \in Node /\ root \in Ref
  BY ChainType DEF Ref
<1> DEFINE n == ws[Len(ws)]
           P == {p \in Within(t, root) : n \in {t[p].left, t[p].right}}
<1>2. ParentOf(t, n) = IF \E p \in Within(t, root) : n \in {t[p].left, t[p].right}
                       THEN CHOOSE p \in Within(t, root) : n \in {t[p].left, t[p].right}
                       ELSE Nil
  BY DEF ParentOf
<1>3. CASE Len(ws) = 1
  <2>1. n = root /\ Above(ws) = Nil
    BY <1>3 DEF Above
  <2>2. ~\E p \in Within(t, root) : n \in {t[p].left, t[p].right}
    BY <1>1, <2>1, NoParent
  <2> QED BY <1>2, <2>1, <2>2
<1>4. CASE Len(ws) # 1
  <2>1. Above(ws) \in Within(t, root) /\ n \in {t[Above(ws)].left, t[Above(ws)].right}
    BY <1>4, AboveType
  <2>2. \A p \in Within(t, root) : n \in {t[p].left, t[p].right} => p = Above(ws)
    BY <1>1, <2>1, OneParent
  <2> HIDE DEF n
  <2>3. (CHOOSE p \in Within(t, root) : n \in {t[p].left, t[p].right}) = Above(ws)
    BY <2>1, <2>2
  <2> QED BY <1>2, <2>1, <2>3 DEF n
<1> QED BY <1>3, <1>4

\* Relinking puts c in the place of the last node of the chain.
LEMMA RelinkedReplaces ==
  ASSUME NEW t \in Forest, NEW x \in Ref, NEW ws, Chain(t, ws), ws[1] = x, Distinct(InOrder(t, x)),
         NEW v \in Links, NEW c \in Ref,
         \A w \in Within(t, x) \ Within(t, ws[Len(ws)]) :
           v[w].left = t[w].left /\ v[w].right = t[w].right
  PROVE  LET new == Relinked(v, x, Above(ws), ws[Len(ws)], c)
         IN  /\ new.tn \in Links
             /\ Replaced(t, new.tn, x, ws[Len(ws)], c)
             /\ new.root = IF Len(ws) = 1 THEN c ELSE x
             /\ \A w \in Node : /\ new.tn[w].key = v[w].key
                                /\ w # Above(ws) => new.tn[w] = v[w]
                                /\ {new.tn[w].left, new.tn[w].right}
                                     \subseteq {v[w].left, v[w].right, c}
<1> DEFINE n == ws[Len(ws)]
           p == Above(ws)
           u == IF p = Nil THEN v
                ELSE IF v[p].left = n THEN [v EXCEPT ![p].left = c]
                ELSE [v EXCEPT ![p].right = c]
<1>1. n \in Node /\ x \in Node /\ n \in Ref /\ n # Nil
  BY ChainType, NilAssumption DEF Ref
<1>2. Relinked(v, x, p, n, c).tn = u
      /\ Relinked(v, x, p, n, c).root = IF p = Nil THEN c ELSE x
  BY DEF Relinked
<1>3. (p = Nil <=> Len(ws) = 1)
      /\ (p # Nil => /\ p \in Node /\ n \in {t[p].left, t[p].right}
                     /\ p \in Within(t, x) /\ p \notin Within(t, n))
  <2> HIDE DEF p
  <2> QED BY AboveType DEF p
<1> HIDE DEF n, p
<1>4. u \in Links
  <2>1. CASE p = Nil
    BY <2>1
  <2>2. CASE p # Nil /\ v[p].left = n
    <3>1. u = [v EXCEPT ![p].left = c] /\ p \in Node
      BY <1>3, <2>2
    <3> HIDE DEF u
    <3> QED BY <3>1 DEF Links
  <2>3. CASE p # Nil /\ v[p].left # n
    <3>1. u = [v EXCEPT ![p].right = c] /\ p \in Node
      BY <1>3, <2>3
    <3> HIDE DEF u
    <3> QED BY <3>1 DEF Links
  <2> QED BY <2>1, <2>2, <2>3
<1>5. ASSUME NEW w \in Node
      PROVE  /\ u[w].key = v[w].key /\ (w # p => u[w] = v[w])
             /\ w = p /\ p # Nil => IF v[p].left = n THEN u[w].left = c /\ u[w].right = v[w].right
                         ELSE u[w].left = v[w].left /\ u[w].right = c
  BY <1>3 DEF Links
<1> HIDE DEF u
<1>6. Replaced(t, u, x, n, c)
  <2> SUFFICES ASSUME NEW w \in Within(t, x) \ Within(t, n)
               PROVE u[w].left = Put(t[w].left, n, c) /\ u[w].right = Put(t[w].right, n, c)
    BY DEF Replaced
  <2>1. w \in Node /\ v[w].left = t[w].left /\ v[w].right = t[w].right
    BY WithinEq DEF n
  <2>2. CASE n \notin {t[w].left, t[w].right}
    <3>1. w # p
      BY <1>3, <2>2, <2>1, NilAssumption
    <3> QED BY <1>5, <2>1, <2>2, <3>1 DEF Put
  <2>3. CASE n \in {t[w].left, t[w].right}
    <3>1. p # Nil
      <4>1. w \in Within(t, x)
        OBVIOUS
      <4>2. CASE p = Nil
        <5>1. n = x
          BY <1>3, <4>2 DEF n
        <5> QED BY <1>1, <2>3, <4>1, <5>1, NoParent
      <4> QED BY <4>2
    <3>2. w = p
      BY <1>1, <1>3, <2>3, <3>1, OneParent
    <3>3. ~(t[w].left = n /\ t[w].right = n)
      <4>1. Distinct(InOrder(t, w))
        <5>1. Len(ws) - 1 \in 1 .. Len(ws) /\ w = ws[Len(ws) - 1]
          <6>1. Len(ws) - 1 \in 1 .. Len(ws) - 1 /\ p = ws[Len(ws) - 1]
            BY <3>1, AboveType DEF p
          <6>2. Len(ws) \in Nat
            BY DEF Chain
          <6> QED BY <3>2, <6>1, <6>2
        <5> DEFINE R == {k \in 1 .. Len(ws) : Distinct(InOrder(t, ws[k]))}
        <5>0. /\ \A k \in 1 .. Len(ws) : ws[k] \in Node /\ k \in Nat
              /\ \A k \in 1 .. Len(ws) - 1 : k + 1 \in 1 .. Len(ws) /\ k \in 1 .. Len(ws)
              /\ Len(ws) \in Nat /\ 1 \in 1 .. Len(ws)
          BY ChainType
        <5>2. 1 \in R
          BY <5>0
        <5>3. ASSUME NEW k \in 1 .. Len(ws) - 1, k \in R PROVE k + 1 \in R
          <6>1. ws[k + 1] \in {t[ws[k]].left, t[ws[k]].right}
            BY DEF Chain
          <6> QED BY <5>0, <5>3, <6>1, SidesApart
        <5>4. \A k \in 1 .. Len(ws) : k \in R
          <6> HIDE DEF R
          <6> QED BY <5>0, <5>2, <5>3, UpTo
        <5> QED BY <5>1, <5>4
      <4>2. Within(t, t[w].left) \cap Within(t, t[w].right) = {}
        BY <2>1, <4>1, SidesApart
      <4>3. n \in Within(t, n)
        BY <1>1, WithinEq
      <4> QED BY <4>2, <4>3
    <3> QED BY <1>5, <2>1, <2>3, <3>1, <3>2, <3>3 DEF Put
  <2> QED BY <2>2, <2>3
<1>7. \A w \in Node : {u[w].left, u[w].right} \subseteq {v[w].left, v[w].right, c}
  <2> TAKE w \in Node
  <2>1. CASE w = p
    BY <1>5, <2>1, NilAssumption
  <2>2. CASE w # p
    BY <1>5, <2>2
  <2> QED BY <2>1, <2>2
<1> QED BY <1>2, <1>3, <1>4, <1>5, <1>6, <1>7 DEF n, p

-----------------------------------------------------------------------------
(* More on sequences.                                                      *)

\* s is a, then w, then b.
Divided(s, a, w, b) ==
  /\ Len(s) = Len(a) + 1 + Len(b)
  /\ Len(a) \in Nat /\ Len(b) \in Nat
  /\ \A i \in 1 .. Len(a) : s[i] = a[i]
  /\ s[Len(a) + 1] = w
  /\ \A i \in 1 .. Len(b) : s[Len(a) + 1 + i] = b[i]

\* Join places its parts in order.
LEMMA JoinDivided ==
  ASSUME NEW V, NEW a \in Seq(V), NEW w \in V, NEW b \in Seq(V)
  PROVE  /\ Divided(Join(a, w, b), a, w, b) /\ Join(a, w, b) \in Seq(V)
         /\ Range(Join(a, w, b)) = Range(a) \cup {w} \cup Range(b)
<1> DEFINE u == <<w>>
           au == a \o u
<1>0. u \in Seq(V) /\ Len(u) = 1 /\ u[1] = w
  BY RangeSingle
<1> HIDE DEF u
<1>1. Len(a) \in Nat /\ Len(b) \in Nat
  OBVIOUS
<1>2. /\ au \in Seq(V) /\ Len(au) = Len(a) + 1
      /\ \A i \in 1 .. Len(a) + 1 : au[i] = IF i <= Len(a) THEN a[i] ELSE u[i - Len(a)]
  <2>1. au \in Seq(V) /\ Len(au) = Len(a) + Len(u)
        /\ \A i \in 1 .. Len(a) + Len(u) : au[i] = IF i <= Len(a) THEN a[i] ELSE u[i - Len(a)]
    BY <1>0, ConcatProperties
  <2> HIDE DEF au
  <2> QED BY <2>1, <1>0
<1>3. \A i \in 1 .. Len(a) : au[i] = a[i]
  <2> HIDE DEF au
  <2> QED BY <1>1, <1>2
<1>4. au[Len(a) + 1] = w
  <2>1. Len(a) + 1 \in 1 .. Len(a) + 1 /\ ~(Len(a) + 1 <= Len(a)) /\ Len(a) + 1 - Len(a) = 1
    BY <1>1
  <2> HIDE DEF au
  <2> QED BY <1>0, <1>2, <2>1
<1> HIDE DEF au
<1> DEFINE s == au \o b
<1>5. /\ s \in Seq(V) /\ Len(s) = Len(a) + 1 + Len(b)
      /\ \A i \in 1 .. Len(au) + Len(b) : s[i] = IF i <= Len(au) THEN au[i] ELSE b[i - Len(au)]
  <2>0. au \in Seq(V)
    BY <1>2
  <2>1. s \in Seq(V) /\ Len(s) = Len(au) + Len(b)
        /\ \A i \in 1 .. Len(au) + Len(b) : s[i] = IF i <= Len(au) THEN au[i] ELSE b[i - Len(au)]
    BY <2>0, ConcatProperties, SMTT(20)
  <2> HIDE DEF s
  <2> QED BY <2>1, <1>1, <1>2
<1> HIDE DEF s
<1>6. \A i \in 1 .. Len(a) + 1 : s[i] = au[i]
  <2> TAKE i \in 1 .. Len(a) + 1
  <2>1. i \in 1 .. Len(au) + Len(b) /\ i <= Len(au)
    BY <1>1, <1>2
  <2> QED BY <1>5, <2>1
<1>7. \A i \in 1 .. Len(b) : s[Len(a) + 1 + i] = b[i]
  <2> TAKE i \in 1 .. Len(b)
  <2>1. /\ Len(a) + 1 + i \in 1 .. Len(au) + Len(b) /\ ~(Len(a) + 1 + i <= Len(au))
        /\ (Len(a) + 1 + i) - Len(au) = i
    BY <1>1, <1>2
  <2> QED BY <1>5, <2>1
<1>8. \A i \in 1 .. Len(a) : s[i] = a[i]
  BY <1>1, <1>3, <1>6
<1>9. s[Len(a) + 1] = w
  BY <1>1, <1>4, <1>6
<1>10. Range(s) = Range(a) \cup {w} \cup Range(b)
  BY RangeMiddle DEF s, au, u
<1>11. Divided(s, a, w, b)
  BY <1>1, <1>5, <1>7, <1>8, <1>9 DEF Divided
<1>12. s = Join(a, w, b)
  BY DEF Join, s, au, u
<1> QED BY <1>5, <1>10, <1>11, <1>12

\* A divided sequence between two others is divided at the same node.
LEMMA WrapJoin ==
  ASSUME NEW V, NEW p \in Seq(V), NEW a \in Seq(V), NEW w \in V, NEW b \in Seq(V), NEW q \in Seq(V)
  PROVE  /\ p \o a \in Seq(V) /\ b \o q \in Seq(V)
         /\ Wrap(p, Join(a, w, b), q) = Join(p \o a, w, b \o q)
<1> DEFINE u == <<w>>
           pa == p \o a
           bq == b \o q
           au == a \o u
           aub == au \o b
           pau == p \o au
<1>0. u \in Seq(V)
  BY RangeSingle
<1> HIDE DEF u
<1>1. pa \in Seq(V) /\ bq \in Seq(V) /\ au \in Seq(V)
  BY <1>0, ConcatProperties
<1>2. pau \in Seq(V)
  <2> HIDE DEF au
  <2> QED BY <1>1, ConcatProperties
<1> HIDE DEF pa, bq, au, aub, pau
<1>3. Assoc(p, au, b) /\ Assoc(p, a, u) /\ Assoc(pau, b, q)
  BY <1>0, <1>1, <1>2, ConcatAssoc
<1>4. /\ (p \o au) \o b = p \o (au \o b) /\ (p \o a) \o u = p \o (a \o u)
      /\ (pau \o b) \o q = pau \o (b \o q)
  BY <1>3 DEF Assoc
<1>5. pa = p \o a /\ bq = b \o q /\ au = a \o u /\ aub = au \o b /\ pau = p \o au /\ u = <<w>>
  BY DEF pa, bq, au, aub, pau, u
<1>6. (p \o ((a \o <<w>>) \o b)) \o q = ((p \o a) \o <<w>>) \o (b \o q)
  BY <1>4, <1>5, Zenon
<1> QED BY <1>1, <1>5, <1>6 DEF Join, Wrap

\* WrapJoin as a predicate of its variables.
Wraps(V, p, a, w, b, q) ==
  /\ p \o a \in Seq(V) /\ b \o q \in Seq(V)
  /\ Wrap(p, Join(a, w, b), q) = Join(p \o a, w, b \o q)

\* The same, as a predicate.
LEMMA WrapsJoin ==
  ASSUME NEW V, NEW p \in Seq(V), NEW a \in Seq(V), NEW w \in V, NEW b \in Seq(V), NEW q \in Seq(V)
  PROVE  Wraps(V, p, a, w, b, q)
BY WrapJoin DEF Wraps

\* Distinct in terms of places.
LEMMA DistinctIs ==
  ASSUME NEW V, NEW s \in Seq(V)
  PROVE  Distinct(s) <=> \A i, j \in 1 .. Len(s) : s[i] = s[j] => i = j
BY DEF Distinct

\* Sequences with the same elements are equal.
LEMMA SameSeq ==
  ASSUME NEW V, NEW s \in Seq(V), NEW z \in Seq(V), Len(s) = Len(z),
         \A i \in 1 .. Len(s) : s[i] = z[i]
  PROVE  s = z
BY SeqEqual

\* A sequence without repetition is divided in one way at a node.
LEMMA SplitUnique ==
  ASSUME NEW V, NEW a \in Seq(V), NEW w \in V, NEW b \in Seq(V), NEW c \in Seq(V), NEW d \in Seq(V),
         Distinct(Join(a, w, b)), Join(a, w, b) = Join(c, w, d)
  PROVE  a = c /\ b = d
<1> DEFINE s == Join(a, w, b)
<1>0. Divided(s, a, w, b) /\ s \in Seq(V)
  BY JoinDivided
<1>00. Divided(Join(c, w, d), c, w, d)
  BY JoinDivided
<1>01. Divided(s, c, w, d)
  BY <1>00
<1>02. Distinct(s)
  OBVIOUS
<1> HIDE DEF s
<1>1. /\ Len(s) = Len(a) + 1 + Len(b)
      /\ Len(a) \in Nat /\ Len(b) \in Nat
      /\ \A i \in 1 .. Len(a) : s[i] = a[i]
      /\ s[Len(a) + 1] = w
      /\ \A i \in 1 .. Len(b) : s[Len(a) + 1 + i] = b[i]
  BY <1>0 DEF Divided
<1>2. /\ Len(s) = Len(c) + 1 + Len(d)
      /\ Len(c) \in Nat /\ Len(d) \in Nat
      /\ \A i \in 1 .. Len(c) : s[i] = c[i]
      /\ s[Len(c) + 1] = w
      /\ \A i \in 1 .. Len(d) : s[Len(c) + 1 + i] = d[i]
  BY <1>01 DEF Divided
<1>3. \A i, j \in 1 .. Len(s) : s[i] = s[j] => i = j
  BY <1>0, <1>02, DistinctIs
<1>4. Len(a) + 1 \in 1 .. Len(s) /\ Len(c) + 1 \in 1 .. Len(s)
  BY <1>1, <1>2
<1>5. Len(a) = Len(c)
  <2>1. Len(a) + 1 = Len(c) + 1
    BY <1>1, <1>2, <1>3, <1>4
  <2> QED BY <2>1, <1>1, <1>2
<1>6. Len(b) = Len(d)
  BY <1>1, <1>2, <1>5
<1>7. \A i \in 1 .. Len(a) : a[i] = c[i]
  BY <1>1, <1>2, <1>5
<1>8. \A i \in 1 .. Len(b) : b[i] = d[i]
  <2> TAKE i \in 1 .. Len(b)
  <2>1. s[Len(a) + 1 + i] = b[i]
    BY <1>1
  <2>2. s[Len(c) + 1 + i] = d[i]
    BY <1>2, <1>6
  <2> QED BY <1>5, <2>1, <2>2
<1>9. a = c
  BY <1>5, <1>7, SameSeq
<1>10. b = d
  BY <1>6, <1>8, SameSeq
<1> QED BY <1>9, <1>10

-----------------------------------------------------------------------------
(* The left spine.                                                         *)

\* The left spine leads to the first node.
LEMMA Spine ==
  ASSUME NEW t \in Forest, NEW x \in Node
  PROVE  LET sp == LeftSpine(t, x)
             y  == sp[Len(sp)]
         IN  /\ Chain(t, sp) /\ sp[1] = x
             /\ \A i \in 1 .. Len(sp) - 1 : sp[i + 1] = t[sp[i]].left
             /\ y \in Node /\ t[y].left = Nil /\ y \in Within(t, x)
             /\ \E rest \in Seq(Node) : InOrder(t, x) = Join(<<>>, y, rest)
<1> DEFINE Good(z) ==
      LET sp == LeftSpine(t, z)
          y  == sp[Len(sp)]
      IN  /\ Chain(t, sp) /\ sp[1] = z
          /\ \A i \in 1 .. Len(sp) - 1 : sp[i + 1] = t[sp[i]].left
          /\ y \in Node /\ t[y].left = Nil
          /\ \E rest \in Seq(Node) : InOrder(t, z) = Join(<<>>, y, rest)
           S == {z \in Ref : z = Nil \/ Good(z)}
<1>1. Nil \in S
  BY DEF Ref
<1>2. ASSUME NEW z \in Node, t[z].left \in S, t[z].right \in S PROVE z \in S
  <2> DEFINE u == <<z>>
             l == t[z].left
             vs == LeftSpine(t, l)
             sp == u \o vs
  <2>1. LeftSpine(t, z) = sp
    BY SpineEq
  <2>2. u \in Seq(Node) /\ Len(u) = 1 /\ u[1] = z
    BY RangeSingle
  <2>3. l \in Ref /\ z \in Ref /\ vs \in Seq(Node)
    BY <1>2, SpineEq DEF Ref
  <2>4. /\ InOrder(t, l) \in Seq(Node) /\ InOrder(t, t[z].right) \in Seq(Node)
        /\ InOrder(t, z) = Join(InOrder(t, l), z, InOrder(t, t[z].right))
    BY InOrderJoin
  <2>5. CASE l = Nil
    <3>1. vs = <<>>
      BY <2>5, SpineEq
    <3>2. sp = u
      <4> HIDE DEF u, vs
      <4> QED BY <2>2, <3>1, ConcatEmptySeq
    <3>3. Chain(t, u)
      <4> HIDE DEF u
      <4> QED BY <2>2 DEF Chain
    <3>4. InOrder(t, l) = <<>>
      BY <2>5, InOrderEq
    <3>5. \A i \in 1 .. Len(u) - 1 : u[i + 1] = t[u[i]].left
      <4> HIDE DEF u
      <4> QED BY <2>2
    <3> HIDE DEF u, sp
    <3>6. Good(z)
      BY <2>1, <2>2, <2>4, <2>5, <3>2, <3>3, <3>4, <3>5
    <3> QED BY <2>3, <3>6
  <2>6. CASE l # Nil
    <3>1. l \in Node /\ Good(l)
      <4> HIDE DEF Good
      <4> QED BY <1>2, <2>3, <2>6 DEF Ref
    <3>2. /\ Chain(t, vs) /\ vs[1] = l
          /\ \A i \in 1 .. Len(vs) - 1 : vs[i + 1] = t[vs[i]].left
          /\ vs[Len(vs)] \in Node /\ t[vs[Len(vs)]].left = Nil
          /\ \E rest \in Seq(Node) : InOrder(t, l) = Join(<<>>, vs[Len(vs)], rest)
      BY <3>1
    <3> HIDE DEF Good, u, vs, l
    <3>3. vs \in Seq(Node) /\ Len(vs) \in Nat /\ 0 < Len(vs) /\ Len(vs) \in 1 .. Len(vs)
          /\ 1 \in 1 .. Len(vs)
      BY <3>2 DEF Chain
    <3>4. sp \in Seq(Node) /\ Len(sp) = 1 + Len(vs)
          /\ \A i \in 1 .. 1 + Len(vs) : sp[i] = IF i <= 1 THEN u[i] ELSE vs[i - 1]
      <4>1. sp \in Seq(Node) /\ Len(sp) = Len(u) + Len(vs)
            /\ \A i \in 1 .. Len(u) + Len(vs) : sp[i] = IF i <= Len(u) THEN u[i] ELSE vs[i - Len(u)]
        BY <2>2, <3>3, ConcatProperties
      <4> HIDE DEF sp
      <4> QED BY <2>2, <4>1
    <3>5. sp[1] = z
      <4> HIDE DEF sp
      <4> QED BY <2>2, <3>3, <3>4
    <3>6. \A i \in 1 .. Len(vs) : sp[i + 1] = vs[i]
      <4> TAKE i \in 1 .. Len(vs)
      <4>1. i + 1 \in 1 .. 1 + Len(vs) /\ ~(i + 1 <= 1) /\ i + 1 - 1 = i
        BY <3>3
      <4> HIDE DEF sp
      <4> QED BY <3>4, <4>1
    <3> HIDE DEF sp
    <3>7. sp[Len(sp)] = vs[Len(vs)]
      <4>1. Len(sp) = Len(vs) + 1
        BY <3>3, <3>4
      <4> QED BY <3>3, <3>6, <4>1
    <3>8. ASSUME NEW i \in 1 .. Len(sp) - 1 PROVE sp[i + 1] = t[sp[i]].left
      <4>0. i \in 1 .. Len(vs)
        BY <3>3, <3>4
      <4>1. CASE i = 1
        <5>1. sp[i + 1] = vs[1] /\ sp[i] = z
          BY <3>5, <3>6, <4>0, <4>1
        <5> QED BY <3>2, <5>1 DEF l
      <4>2. CASE i # 1
        <5>1. i - 1 \in 1 .. Len(vs) - 1 /\ i - 1 + 1 = i /\ i - 1 \in 1 .. Len(vs)
          BY <3>3, <4>0, <4>2
        <5>2. sp[i + 1] = vs[i] /\ sp[i] = vs[i - 1]
          <6>1. sp[i - 1 + 1] = vs[i - 1]
            BY <3>6, <5>1
          <6> QED BY <3>6, <4>0, <5>1, <6>1
        <5>3. vs[i - 1 + 1] = t[vs[i - 1]].left
          BY <3>2, <5>1
        <5> QED BY <5>1, <5>2, <5>3
      <4> QED BY <4>1, <4>2
    <3>9. Chain(t, sp)
      BY <3>3, <3>4, <3>8 DEF Chain
    <3>10. PICK rest \in Seq(Node) : InOrder(t, l) = Join(<<>>, vs[Len(vs)], rest)
      BY <3>2
    <3> DEFINE y == vs[Len(vs)]
               b == InOrder(t, t[z].right)
    <3>11. Join(rest, z, b) \in Seq(Node)
      BY <2>4, EndsOf
    <3>12. InOrder(t, z) = Join(<<>>, y, Join(rest, z, b))
      <4> DEFINE e == <<>>
      <4>1. e \in Seq(Node)
        OBVIOUS
      <4>2. InOrder(t, z) = Join(Join(e, y, rest), z, b)
        BY <2>4, <3>10 DEF l
      <4> DEFINE g == <<y>>
                 k == Join(rest, z, b)
      <4>3. Wrap(e, g, rest) = Join(e, y, rest) /\ g \in Seq(Node)
        BY <3>2, RangeSingle DEF Wrap, Join
      <4>4. Wrap(e, g, k) = Join(e, y, k)
        BY DEF Wrap, Join
      <4>40. b \in Seq(Node)
        BY <2>4
      <4> HIDE DEF e, y, b, g
      <4>5. Join(Wrap(e, g, rest), z, b) = Wrap(e, g, k)
        BY <4>1, <4>3, <4>40, Regroup
      <4> HIDE DEF k
      <4>6. InOrder(t, z) = Join(e, y, k)
        BY <4>2, <4>3, <4>4, <4>5
      <4> QED BY <4>6 DEF e, k
    <3>13. Good(z)
      BY <2>1, <3>2, <3>5, <3>7, <3>8, <3>9, <3>11, <3>12 DEF Good
    <3> QED BY <2>3, <3>13
  <2> QED BY <2>5, <2>6
<1>3. \A z \in Ref : z \in S
  <2> HIDE DEF S
  <2> QED BY <1>1, <1>2, TreeInduction
<1>4. Good(x)
  <2>1. x \in Ref /\ x # Nil
    BY NilAssumption DEF Ref
  <2> HIDE DEF Good
  <2> QED BY <1>3, <2>1
<1>5. LET sp == LeftSpine(t, x) IN sp[Len(sp)] \in Within(t, x)
  <2> DEFINE sp == LeftSpine(t, x)
  <2>1. Chain(t, sp) /\ sp[1] = x
    BY <1>4
  <2> HIDE DEF sp, Good
  <2>2. Len(sp) \in 1 .. Len(sp) /\ 1 \in 1 .. Len(sp)
    BY <2>1, ChainType
  <2>3. sp[Len(sp)] \in Within(t, sp[1])
    BY <2>1, <2>2, ChainWithin
  <2> QED BY <2>1, <2>3 DEF sp
<1> QED BY <1>4, <1>5

-----------------------------------------------------------------------------
(* A subtree replaced by another.                                          *)

-----------------------------------------------------------------------------
(* Taking a node out of a tree, and putting another in its place.          *)

\* A subtree replaced by another, away from which the links are as before: the nodes
\* around it stay, and the height grows only as far as the new subtree reaches.
LEMMA Surgery ==
  ASSUME NEW t \in Forest, NEW x \in Ref, NEW ws, Chain(t, ws), ws[1] = x,
         Distinct(InOrder(t, x)), NEW v \in Links, NEW c \in Ref,
         \A w \in Within(t, x) \ Within(t, ws[Len(ws)]) :
           v[w].left = t[w].left /\ v[w].right = t[w].right,
         NEW new, new = Relinked(v, x, Above(ws), ws[Len(ws)], c), new.tn \in Forest
  PROVE  /\ new.root \in Ref
         /\ \E pre, post \in Seq(Node) :
              /\ InOrder(t, x) = Wrap(pre, InOrder(t, ws[Len(ws)]), post)
              /\ InOrder(new.tn, new.root) = Wrap(pre, InOrder(new.tn, c), post)
              /\ NextTo(t, ws, 1, pre, post)
              /\ \A M \in Nat : /\ Height(t, x) <= M
                                /\ Len(ws) - 1 + Height(new.tn, c) <= M
                                => Height(new.tn, new.root) <= M
<1>1. /\ Replaced(t, new.tn, x, ws[Len(ws)], c)
      /\ new.root = IF Len(ws) = 1 THEN c ELSE x
  BY RelinkedReplaces
<1>2. new.root = IF Len(ws) = 1 THEN c ELSE ws[1]
  BY <1>1
<1> DEFINE u == new.tn
           top == IF Len(ws) = 1 THEN c ELSE ws[1]
<1>3. u \in Forest /\ Replaced(t, u, ws[1], ws[Len(ws)], c) /\ Distinct(InOrder(t, ws[1]))
  BY <1>1
<1> HIDE DEF u
<1>4. \E pre, post \in Seq(Node) :
            /\ InOrder(t, ws[1]) = Wrap(pre, InOrder(t, ws[Len(ws)]), post)
            /\ InOrder(u, top) = Wrap(pre, InOrder(u, c), post)
            /\ NextTo(t, ws, 1, pre, post)
            /\ \A M \in Nat : /\ Height(t, ws[1]) <= M
                              /\ Len(ws) - 1 + Height(u, c) <= M
                              => Height(u, top) <= M
  BY <1>3, Around
<1>5. new.root = top
  BY <1>2
<1> HIDE DEF top
<1> QED BY <1>1, <1>4, <1>5 DEF u

\* The nodes above a node are those that are not below it.
LEMMA AboveOutside ==
  ASSUME NEW t \in Forest, NEW x \in Ref, NEW ws, Chain(t, ws), ws[1] = x
  PROVE  /\ x \in Node /\ ws[Len(ws)] \in Node /\ ws[Len(ws)] \in Within(t, x)
         /\ Within(t, ws[Len(ws)]) \subseteq Within(t, x)
         /\ Above(ws) # Nil => Above(ws) \in Within(t, x) \ Within(t, ws[Len(ws)])
<1>1. /\ Len(ws) \in Nat /\ Len(ws) \in 1 .. Len(ws) /\ 1 \in 1 .. Len(ws)
      /\ \A i \in 1 .. Len(ws) : ws[i] \in Node
  BY ChainType
<1>2. ws[Len(ws)] \in Within(t, ws[1]) /\ Within(t, ws[Len(ws)]) \subseteq Within(t, ws[1])
  BY <1>1, ChainWithin
<1> QED BY <1>1, <1>2, AboveType

\* ws is the way from the root x to the node n of a tree that has no node twice.
Leads(t, x, ws, n) ==
  /\ Chain(t, ws) /\ ws[1] = x /\ ws[Len(ws)] = n
  /\ Distinct(InOrder(t, x))

\* c is the only child of n, or Nil.
Only(t, n, c) ==
  /\ c \in Ref
  /\ \/ t[n].left = Nil /\ t[n].right = c
     \/ t[n].left = c /\ t[n].right = Nil

\* new is the tree with root x in t, less the node n.
Lacks(t, x, new, n) ==
  /\ new.tn \in Forest /\ new.root \in Ref
  /\ \A w \in Node : new.tn[w].key = t[w].key
  /\ Height(new.tn, new.root) <= Height(t, x)
  /\ \E a, b \in Seq(Node) :
       InOrder(t, x) = Join(a, n, b) /\ InOrder(new.tn, new.root) = a \o b

\* A node with at most one child gives way to it.
LEMMA Drop ==
  ASSUME NEW t \in Forest, NEW x \in Ref, NEW ws, NEW n, Leads(t, x, ws, n),
         NEW c, Only(t, n, c), NEW new, new = Relinked(t, x, Above(ws), n, c)
  PROVE  Lacks(t, x, new, n) /\ \A w \in Node : w # Above(ws) => new.tn[w] = t[w]
<1> SUFFICES ASSUME Chain(t, ws), ws[1] = x, n = ws[Len(ws)], Distinct(InOrder(t, x)),
                    c \in Ref,
                    \/ t[n].left = Nil /\ t[n].right = c
                    \/ t[n].left = c /\ t[n].right = Nil
             PROVE  Lacks(t, x, new, n) /\ \A w \in Node : w # Above(ws) => new.tn[w] = t[w]
  BY DEF Leads, Only
<1>0. t \in Links /\ x \in Node /\ n \in Node /\ n \in Within(t, x)
      /\ (Above(ws) # Nil => Above(ws) \in Within(t, x) \ Within(t, n))
  BY AboveOutside DEF Forest
<1>1. /\ new.tn \in Links
      /\ \A w \in Node : /\ new.tn[w].key = t[w].key
                         /\ w # Above(ws) => new.tn[w] = t[w]
                         /\ {new.tn[w].left, new.tn[w].right} \subseteq {t[w].left, t[w].right, c}
  BY <1>0, RelinkedReplaces
<1>2. new.tn \in Forest
  <2>1. PICK r \in [Node -> Nat] : Descends(t, r)
    BY DEF Forest
  <2>2. ASSUME NEW w \in Node PROVE /\ new.tn[w].left # Nil => r[new.tn[w].left] < r[w]
                                    /\ new.tn[w].right # Nil => r[new.tn[w].right] < r[w]
    <3>1. CASE w # Above(ws)
      BY <1>1, <2>1, <3>1 DEF Descends
    <3>2. CASE w = Above(ws)
      <4>1. n \in {t[w].left, t[w].right}
        <5>1. w # Nil
          BY NilAssumption
        <5> QED BY <3>2, <5>1, AboveType
      <4>2. n # Nil
        BY <1>0, NilAssumption
      <4>3. r[n] < r[w]
        BY <2>1, <4>1, <4>2 DEF Descends
      <4>4. c # Nil => r[c] < r[n]
        BY <1>0, <2>1 DEF Descends
      <4>5. c # Nil => c \in Node
        BY DEF Ref
      <4>6. \A y \in {t[w].left, t[w].right, c} : y # Nil => r[y] < r[w]
        <5>1. c # Nil => r[c] \in Nat /\ r[n] \in Nat /\ r[w] \in Nat
          BY <1>0, <4>5
        <5>2. c # Nil => r[c] < r[w]
          BY <4>3, <4>4, <5>1
        <5> QED BY <2>1, <5>2 DEF Descends
      <4> QED BY <1>1, <4>6
    <3> QED BY <3>1, <3>2
  <2>3. Descends(new.tn, r)
    BY <2>2 DEF Descends
  <2> QED BY <1>1, <2>3 DEF Forest
<1>3. /\ new.root \in Ref
      /\ \E pre, post \in Seq(Node) :
              /\ InOrder(t, x) = Wrap(pre, InOrder(t, n), post)
              /\ InOrder(new.tn, new.root) = Wrap(pre, InOrder(new.tn, c), post)
              /\ \A M \in Nat : /\ Height(t, x) <= M
                                /\ Len(ws) - 1 + Height(new.tn, c) <= M
                                => Height(new.tn, new.root) <= M
  BY <1>0, <1>2, Surgery
<1>4. PICK pre, post \in Seq(Node) :
              /\ InOrder(t, x) = Wrap(pre, InOrder(t, n), post)
              /\ InOrder(new.tn, new.root) = Wrap(pre, InOrder(new.tn, c), post)
              /\ \A M \in Nat : /\ Height(t, x) <= M
                                /\ Len(ws) - 1 + Height(new.tn, c) <= M
                                => Height(new.tn, new.root) <= M
  BY <1>3
<1>5. /\ InOrder(new.tn, c) = InOrder(t, c) /\ Height(new.tn, c) = Height(t, c)
  <2>1. Within(t, c) \subseteq Within(t, n)
    <3>1. /\ Within(t, n) = Within(t, t[n].left) \cup {n} \cup Within(t, t[n].right)
          /\ Within(t, Nil) = {}
      BY <1>0, WithinEq
    <3> QED BY <3>1
  <2>2. Within(t, c) \subseteq Node
    BY WithinEq
  <2>3. \A w \in Within(t, c) : new.tn[w] = t[w]
    BY <1>0, <1>1, <2>1, <2>2, NilAssumption
  <2> QED BY <1>2, <2>3, Agreement
<1>6. Height(new.tn, new.root) <= Height(t, x)
  <2>1. Height(t, n) + (Len(ws) - 1) <= Height(t, x)
    <3>1. Len(ws) \in 1 .. Len(ws)
      BY ChainType
    <3> QED BY <3>1, ChainHeight
  <2>2. Height(t, c) <= Height(t, n) /\ Height(t, c) \in Nat /\ Height(t, n) \in Nat
    <3>1. /\ Height(t, n) \in Nat /\ Height(t, t[n].left) \in Nat
          /\ Height(t, t[n].right) \in Nat
          /\ Height(t, t[n].left) < Height(t, n) /\ Height(t, t[n].right) < Height(t, n)
      BY <1>0, HeightNode
    <3> QED BY <3>1
  <2>3. Height(t, x) \in Nat /\ Len(ws) \in Nat
    BY HeightEq, ChainType
  <2>4. Len(ws) - 1 + Height(new.tn, c) <= Height(t, x)
    BY <1>5, <2>1, <2>2, <2>3
  <2> QED BY <1>4, <2>3, <2>4
<1>7. \E a, b \in Seq(Node) :
              InOrder(t, x) = Join(a, n, b) /\ InOrder(new.tn, new.root) = a \o b
  <2> DEFINE z == InOrder(t, c)
             e == <<>>
             l == InOrder(t, t[n].left)
             r == InOrder(t, t[n].right)
             P == pre \o l
             Q == r \o post
  <2>1. z \in Seq(Node) /\ l \in Seq(Node) /\ r \in Seq(Node) /\ InOrder(t, n) = Join(l, n, r)
    BY <1>0, InOrderEq, InOrderJoin
  <2>2. \/ l = e /\ r = z
        \/ l = z /\ r = e
    BY InOrderEq
  <2>3. InOrder(t, x) = Wrap(pre, Join(l, n, r), post)
    BY <1>4, <2>1
  <2>4. InOrder(new.tn, new.root) = Wrap(pre, z, post)
    BY <1>4, <1>5
  <2>5. e \in Seq(Node)
    OBVIOUS
  <2> HIDE DEF e, l, r, z
  <2>6. P \in Seq(Node) /\ Q \in Seq(Node) /\ Wrap(pre, Join(l, n, r), post) = Join(P, n, Q)
    BY <1>0, <2>1, WrapJoin
  <2>7. P \o Q = Wrap(pre, z, post)
    <3>1. Assoc(pre, l, Q) /\ Assoc(l, r, post) /\ Assoc(pre, z, post)
      BY <2>1, <2>6, ConcatAssoc
    <3>2. l \o r = z
      <4>1. z \o e = z /\ e \o z = z
        BY <2>1, ConcatEmptySeq DEF e
      <4> QED BY <2>2, <4>1
    <3>3. P \o Q = pre \o (l \o Q) /\ (l \o r) \o post = l \o Q /\ (pre \o z) \o post = pre \o (z \o post)
      BY <3>1 DEF Assoc
    <3>4. P \o Q = pre \o (z \o post)
      BY <3>2, <3>3, Zenon
    <3>5. Wrap(pre, z, post) = (pre \o z) \o post
      BY DEF Wrap
    <3> QED BY <3>3, <3>4, <3>5, Zenon
  <2> HIDE DEF P, Q
  <2> QED BY <2>3, <2>4, <2>6, <2>7
<1> QED BY <1>1, <1>2, <1>3, <1>6, <1>7 DEF Lacks

\* In v, m has the links of n; it is not in the tree with root x of t.
Double(t, x, v, n, m) ==
  /\ m \in Node /\ m \notin Within(t, x)
  /\ v \in Links /\ \A w \in Node : w # m => v[w] = t[w]
  /\ v[m].left = t[n].left /\ v[m].right = t[n].right

\* new is the tree with root x in t, with the node m in the place of n, and the keys
\* of v.
Swapped(t, x, v, new, n, m) ==
  /\ new.tn \in Forest /\ new.root \in Ref
  /\ \A w \in Node : new.tn[w].key = v[w].key
  /\ Height(new.tn, new.root) <= Height(t, x)
  /\ \E a, b \in Seq(Node) :
       InOrder(t, x) = Join(a, n, b) /\ InOrder(new.tn, new.root) = Join(a, m, b)

\* m, which is not in the tree, takes the links and the place of n.
LEMMA Swap ==
  ASSUME NEW t \in Forest, NEW x \in Ref, NEW ws, NEW n, Leads(t, x, ws, n),
         NEW m, NEW v, Double(t, x, v, n, m), NEW new, new = Relinked(v, x, Above(ws), n, m)
  PROVE  Swapped(t, x, v, new, n, m)
<1> SUFFICES ASSUME Chain(t, ws), ws[1] = x, n = ws[Len(ws)], Distinct(InOrder(t, x)),
                    m \in Node, m \notin Within(t, x),
                    v \in Links, \A w \in Node : w # m => v[w] = t[w],
                    v[m].left = t[n].left, v[m].right = t[n].right
             PROVE  Swapped(t, x, v, new, n, m)
  BY DEF Leads, Double
<1> DEFINE W == Within(t, x)
           C == (W \ {n}) \cup {m}
<1>0. /\ t \in Links /\ x \in Node /\ n \in Node /\ n \in W /\ W \subseteq Node
      /\ (Above(ws) # Nil => Above(ws) \in W \ Within(t, n))
      /\ Within(t, n) \subseteq W /\ n # m /\ n # Nil /\ m # Nil /\ m \in Ref
      /\ \A y \in Node : y # Nil
  BY AboveOutside, WithinEq, NilAssumption DEF Forest, Ref
<1>01. Len(ws) = 1 => Above(ws) = Nil
  BY AboveType
<1>1. /\ new.tn \in Links
      /\ Replaced(t, new.tn, x, n, m)
      /\ \A w \in Node : /\ new.tn[w].key = v[w].key
                         /\ w # Above(ws) => new.tn[w] = v[w]
                         /\ {new.tn[w].left, new.tn[w].right} \subseteq {v[w].left, v[w].right, m}
  <2>1. \A w \in W \ Within(t, n) : v[w].left = t[w].left /\ v[w].right = t[w].right
    BY <1>0
  <2> HIDE DEF W
  <2> QED BY <1>0, <2>1, RelinkedReplaces DEF W
<1>2. new.tn \in Forest
  <2>1. PICK r \in [Node -> Nat] : Descends(t, r)
    BY DEF Forest
  <2> DEFINE rc == [y \in C |-> IF y = m THEN r[n] ELSE r[y]]
             B == r[x]
  <2>2. \A y \in W : r[y] \in 0 .. B /\ r[y] \in Nat
    <3>1. \A y \in W : y \in Node /\ r[y] <= r[x]
      BY <1>0, <2>1, RankWithin
    <3> QED BY <1>0, <3>1
  <2>3. C \in SUBSET Node /\ B \in Nat /\ rc \in [C -> 0 .. B]
    BY <1>0, <2>2
  <2>4. \A w \in W : \A y \in {t[w].left, t[w].right} : y = Nil \/ (y \in W /\ r[y] < r[w])
    <3> TAKE w \in W
    <3>1. w \in Node /\ Within(t, w) \subseteq W
      BY <1>0, WithinTrans
    <3>2. Within(t, w) = Within(t, t[w].left) \cup {w} \cup Within(t, t[w].right)
      BY <3>1, WithinEq
    <3>3. \A y \in {t[w].left, t[w].right} : y \in Ref
      BY <3>1, LinksType, <1>0
    <3>4. \A y \in {t[w].left, t[w].right} : y # Nil => y \in Within(t, w)
      <4>1. \A y \in Node : y \in Within(t, y)
        BY WithinEq
      <4>2. \A y \in {t[w].left, t[w].right} : y # Nil => y \in Node
        BY <3>3 DEF Ref
      <4> QED BY <3>2, <4>1, <4>2
    <3>5. \A y \in {t[w].left, t[w].right} : y # Nil => r[y] < r[w]
      BY <2>1, <3>1 DEF Descends
    <3> QED BY <3>1, <3>4, <3>5
  <2>5. ASSUME NEW w \in C, NEW y \in {new.tn[w].left, new.tn[w].right}
        PROVE  y = Nil \/ (y \in C /\ rc[y] < rc[w])
    <3>1. CASE w = m
      <4>1. m # Above(ws)
        BY <1>0
      <4>2. y \in {t[n].left, t[n].right}
        BY <1>0, <1>1, <3>1, <4>1
      <4>3. y = Nil \/ (y \in W /\ r[y] < r[n])
        BY <1>0, <2>4, <4>2
      <4>4. r[n] \in Nat
        BY <1>0
      <4>5. y # Nil => y # n /\ y # m
        BY <4>3, <4>4
      <4> QED BY <3>1, <4>3, <4>5
    <3>2. CASE w # m
      <4>1. w \in W /\ w # n /\ w \in Node
        BY <1>0, <3>2
      <4>2. \A z \in {t[w].left, t[w].right} :
               Put(z, n, m) = Nil \/ (Put(z, n, m) \in C /\ rc[Put(z, n, m)] < rc[w])
        <5> TAKE z \in {t[w].left, t[w].right}
        <5>1. z = Nil \/ (z \in W /\ r[z] < r[w])
          BY <2>4, <4>1
        <5>2. CASE z = n
          BY <5>1, <5>2, <1>0, <3>2, <4>1 DEF Put
        <5>3. CASE z # n
          <6>1. z = Nil \/ (z \in C /\ z # m)
            BY <5>1, <5>3
          <6> QED BY <5>1, <5>3, <6>1, <3>2, <4>1 DEF Put
        <5> QED BY <5>2, <5>3
      <4>3. CASE w \in Within(t, n)
        <5>1. w # Above(ws)
          BY <1>0, <4>1, <4>3
        <5>2. y \in {t[w].left, t[w].right}
          BY <1>1, <3>2, <4>1, <5>1
        <5>3. y # n
          <6>1. w \in Within(t, t[n].left) \/ w \in Within(t, t[n].right)
            BY <1>0, <4>1, <4>3, WithinEq
          <6>2. r[w] < r[n]
            BY <1>0, <2>1, <4>3, <6>1, RankWithin
          <6>3. y # Nil => r[y] < r[w]
            BY <2>4, <4>1, <5>2
          <6>4. r[w] \in Nat /\ r[n] \in Nat
            BY <1>0, <4>1
          <6> QED BY <1>0, <6>2, <6>3, <6>4
        <5> QED BY <4>2, <5>2, <5>3 DEF Put
      <4>4. CASE w \notin Within(t, n)
        <5>1. new.tn[w].left = Put(t[w].left, n, m) /\ new.tn[w].right = Put(t[w].right, n, m)
          BY <1>1, <4>1, <4>4 DEF Replaced
        <5> HIDE DEF C, rc
        <5> QED BY <4>2, <5>1
      <4> QED BY <4>3, <4>4
    <3> QED BY <3>1, <3>2
  <2>6. ASSUME NEW w \in Node \ C, NEW y \in {new.tn[w].left, new.tn[w].right}
        PROVE  y = Nil \/ y \in C \/ y \in {t[w].left, t[w].right}
    <3>1. w # m /\ w # Above(ws)
      <4>1. n \in Within(t, n)
        BY <1>0, WithinEq
      <4> QED BY <1>0, <4>1
    <3> QED BY <1>1, <3>1
  <2> DEFINE u == new.tn
  <2>7. u \in Links
    BY <1>1
  <2>8. \A w \in C : \A y \in {u[w].left, u[w].right} : y = Nil \/ (y \in C /\ rc[y] < rc[w])
    BY <2>5
  <2>9. \A w \in Node \ C : \A y \in {u[w].left, u[w].right} :
          y = Nil \/ y \in C \/ y \in {t[w].left, t[w].right}
    BY <2>6
  <2> HIDE DEF C, rc, B, u
  <2>10. u \in Forest
    <3>1. Graft(t, u, C, B, rc)
      BY <2>3, <2>8, <2>9 DEF Graft
    <3> QED BY <2>7, <3>1, Grafted
  <2> QED BY <2>10 DEF u
<1>3. /\ new.root \in Ref
      /\ \E pre, post \in Seq(Node) :
              /\ InOrder(t, x) = Wrap(pre, InOrder(t, n), post)
              /\ InOrder(new.tn, new.root) = Wrap(pre, InOrder(new.tn, m), post)
              /\ \A M \in Nat : /\ Height(t, x) <= M
                                /\ Len(ws) - 1 + Height(new.tn, m) <= M
                                => Height(new.tn, new.root) <= M
  <2>1. \A w \in W \ Within(t, n) : v[w].left = t[w].left /\ v[w].right = t[w].right
    BY <1>0
  <2> HIDE DEF W
  <2> QED BY <1>0, <1>2, <2>1, Surgery, SMTT(30) DEF W
<1>4. PICK pre, post \in Seq(Node) :
              /\ InOrder(t, x) = Wrap(pre, InOrder(t, n), post)
              /\ InOrder(new.tn, new.root) = Wrap(pre, InOrder(new.tn, m), post)
              /\ \A M \in Nat : /\ Height(t, x) <= M
                                /\ Len(ws) - 1 + Height(new.tn, m) <= M
                                => Height(new.tn, new.root) <= M
  BY <1>3
<1> DEFINE l == t[n].left
           r == t[n].right
<1>5. /\ new.tn[m].left = l /\ new.tn[m].right = r
      /\ InOrder(new.tn, l) = InOrder(t, l) /\ Height(new.tn, l) = Height(t, l)
      /\ InOrder(new.tn, r) = InOrder(t, r) /\ Height(new.tn, r) = Height(t, r)
  <2>1. Within(t, n) = Within(t, l) \cup {n} \cup Within(t, r) /\ l \in Ref /\ r \in Ref
    BY <1>0, WithinEq, LinksType
  <2>2. \A w \in Within(t, n) : new.tn[w] = t[w]
    BY <1>0, <1>1
  <2>3. \A w \in Within(t, l) : new.tn[w].left = t[w].left /\ new.tn[w].right = t[w].right
    BY <2>1, <2>2
  <2>4. \A w \in Within(t, r) : new.tn[w].left = t[w].left /\ new.tn[w].right = t[w].right
    BY <2>1, <2>2
  <2>5. new.tn[m] = v[m]
    BY <1>0, <1>1
  <2> HIDE DEF l, r
  <2>6. InOrder(new.tn, l) = InOrder(t, l) /\ Height(new.tn, l) = Height(t, l)
    BY <1>2, <2>1, <2>3, Agreement
  <2>7. InOrder(new.tn, r) = InOrder(t, r) /\ Height(new.tn, r) = Height(t, r)
    BY <1>2, <2>1, <2>4, Agreement
  <2> QED BY <2>5, <2>6, <2>7 DEF l, r
<1>6. Height(new.tn, m) = Height(t, n)
  <2>1. Height(new.tn, m) = 1 + Max({Height(new.tn, new.tn[m].left), Height(new.tn, new.tn[m].right)})
    BY <1>2, HeightEq
  <2>2. Height(t, n) = 1 + Max({Height(t, l), Height(t, r)})
    BY <1>0, HeightEq
  <2> HIDE DEF l, r
  <2> QED BY <1>5, <2>1, <2>2
<1>7. Height(new.tn, new.root) <= Height(t, x)
  <2>1. Height(t, n) + (Len(ws) - 1) <= Height(t, x)
    <3>1. Len(ws) \in 1 .. Len(ws)
      BY ChainType
    <3> QED BY <3>1, ChainHeight
  <2>2. Height(t, n) \in Nat
    BY <1>0, HeightNode
  <2>3. Height(t, x) \in Nat /\ Len(ws) \in Nat
    BY HeightEq, ChainType
  <2>4. Len(ws) - 1 + Height(new.tn, m) <= Height(t, x)
    BY <1>6, <2>1, <2>2, <2>3
  <2> QED BY <1>4, <2>3, <2>4
<1>8. \E a, b \in Seq(Node) :
              InOrder(t, x) = Join(a, n, b) /\ InOrder(new.tn, new.root) = Join(a, m, b)
  <2> DEFINE A == InOrder(t, l)
             D == InOrder(t, r)
             P == pre \o A
             Q == D \o post
  <2>1. A \in Seq(Node) /\ D \in Seq(Node) /\ InOrder(t, n) = Join(A, n, D)
    BY <1>0, InOrderJoin
  <2>2. InOrder(new.tn, m) = Join(A, m, D)
    <3>1. InOrder(new.tn, m) = Join(InOrder(new.tn, new.tn[m].left), m, InOrder(new.tn, new.tn[m].right))
      BY <1>2, InOrderJoin
    <3> QED BY <1>5, <3>1
  <2>3. InOrder(t, x) = Wrap(pre, Join(A, n, D), post)
        /\ InOrder(new.tn, new.root) = Wrap(pre, Join(A, m, D), post)
    BY <1>4, <2>1, <2>2
  <2> HIDE DEF A, D
  <2>4. P \in Seq(Node) /\ Q \in Seq(Node) /\ Wrap(pre, Join(A, n, D), post) = Join(P, n, Q)
    BY <1>0, <2>1, WrapJoin
  <2>5. Wrap(pre, Join(A, m, D), post) = Join(P, m, Q)
    BY <2>1, WrapJoin
  <2> HIDE DEF P, Q
  <2> QED BY <2>3, <2>4, <2>5
<1> QED BY <1>1, <1>2, <1>3, <1>7, <1>8 DEF Swapped

-----------------------------------------------------------------------------
(* A node and its successor.                                               *)

\* A node, its successor and what follows, put together in different ways.
Neighbours(V, X, n, y, R, Q) ==
  /\ Join(X, n, <<>>) \in Seq(V) /\ Join(<<>>, y, R) \in Seq(V)
  /\ Join(X, n, Join(<<>>, y, R)) = Join(Join(X, n, <<>>), y, R)
  /\ Join(X, n, <<>>) \o R = Join(X, n, R)
  /\ X \o Join(<<>>, y, R) = Join(X, y, R)
  /\ Join(<<>>, y, R) \o Q = Join(<<>>, y, R \o Q)

\* All the ways of putting a node and its successor together give the same sequence.
LEMMA TwoNodes ==
  ASSUME NEW V, NEW X \in Seq(V), NEW n \in V, NEW y \in V, NEW R \in Seq(V), NEW Q \in Seq(V)
  PROVE  Neighbours(V, X, n, y, R, Q)
<1> DEFINE e == <<>>
           u == <<n>>
           w == <<y>>
           Xu == X \o u
           wR == w \o R
<1>0. u \in Seq(V) /\ w \in Seq(V) /\ e \in Seq(V)
  BY RangeSingle
<1>1. Xu \in Seq(V) /\ wR \in Seq(V)
  <2> HIDE DEF u, w
  <2> QED BY <1>0, ConcatProperties
<1>2. Join(e, y, R) = wR
  <2>1. Join(e, y, R) = (e \o w) \o R
    BY DEF Join
  <2> HIDE DEF e, w
  <2>2. e \o w = w
    BY <1>0, ConcatEmptySeq DEF e
  <2> QED BY <2>1, <2>2
<1>3. Join(X, n, e) = Xu
  <2>1. Join(X, n, e) = (X \o u) \o e
    BY DEF Join
  <2>2. Xu = X \o u
    OBVIOUS
  <2> HIDE DEF e, u, Xu
  <2>3. Xu \o e = Xu
    BY <1>1, ConcatEmptySeq DEF e
  <2> QED BY <2>1, <2>2, <2>3
<1>4. /\ Join(X, n, wR) = Xu \o wR /\ Join(Xu, y, R) = (Xu \o w) \o R
      /\ Join(X, n, R) = Xu \o R /\ Join(X, y, R) = (X \o w) \o R
      /\ wR = w \o R
  BY DEF Join
<1>5. Join(e, y, R \o Q) = w \o (R \o Q)
  <2> DEFINE RQ == R \o Q
  <2>1. RQ \in Seq(V)
    BY ConcatProperties
  <2>2. Join(e, y, RQ) = (e \o w) \o RQ
    BY DEF Join
  <2> HIDE DEF e, w, RQ
  <2>3. e \o w = w
    BY <1>0, ConcatEmptySeq DEF e
  <2>4. Join(e, y, RQ) = w \o RQ
    BY <2>2, <2>3
  <2> QED BY <2>4 DEF RQ
<1> HIDE DEF e, u, w, Xu, wR
<1>6. Assoc(Xu, w, R) /\ Assoc(X, w, R) /\ Assoc(w, R, Q)
  BY <1>0, <1>1, ConcatAssoc
<1>7. (Xu \o w) \o R = Xu \o (w \o R) /\ (X \o w) \o R = X \o (w \o R) /\ (w \o R) \o Q = w \o (R \o Q)
  BY <1>6 DEF Assoc
<1>8. /\ Join(X, n, e) \in Seq(V) /\ Join(e, y, R) \in Seq(V)
      /\ Join(X, n, Join(e, y, R)) = Join(Join(X, n, e), y, R)
      /\ Join(X, n, e) \o R = Join(X, n, R)
      /\ X \o Join(e, y, R) = Join(X, y, R)
      /\ Join(e, y, R) \o Q = Join(e, y, R \o Q)
  <2>1. Join(X, n, e) \in Seq(V) /\ Join(e, y, R) \in Seq(V)
    BY <1>1, <1>2, <1>3
  <2>2. Join(X, n, Join(e, y, R)) = Join(Join(X, n, e), y, R)
    BY <1>2, <1>3, <1>4, <1>7, Zenon
  <2>3. Join(X, n, e) \o R = Join(X, n, R) /\ X \o Join(e, y, R) = Join(X, y, R)
    BY <1>2, <1>3, <1>4, <1>7, Zenon
  <2>4. Join(e, y, R) \o Q = Join(e, y, R \o Q)
    BY <1>2, <1>4, <1>5, <1>7, Zenon
  <2> QED BY <2>1, <2>2, <2>3, <2>4
<1> QED BY <1>8 DEF e, Neighbours

\* The chain a, continued by the chain b.
Continued(t, a, b) ==
  /\ Chain(t, a \o b) /\ Len(a \o b) = Len(a) + Len(b)
  /\ (a \o b)[1] = a[1] /\ (a \o b)[Len(a \o b)] = b[Len(b)]
  /\ \A i \in 1 .. Len(a) : (a \o b)[i] = a[i]
  /\ \A i \in 1 .. Len(b) : (a \o b)[Len(a) + i] = b[i]
  /\ Above(a \o b) = IF Len(b) = 1 THEN a[Len(a)] ELSE b[Len(b) - 1]

\* A way that goes on with another is a way.
LEMMA ChainConcat ==
  ASSUME NEW t, NEW a, NEW b, Chain(t, a), Chain(t, b),
         b[1] \in {t[a[Len(a)]].left, t[a[Len(a)]].right}
  PROVE  Continued(t, a, b)
<1> DEFINE s == a \o b
<1>0. /\ a \in Seq(Node) /\ b \in Seq(Node) /\ Len(a) \in Nat /\ Len(b) \in Nat
      /\ 0 < Len(a) /\ 0 < Len(b)
      /\ \A i \in 1 .. Len(a) - 1 : a[i + 1] \in {t[a[i]].left, t[a[i]].right}
      /\ \A i \in 1 .. Len(b) - 1 : b[i + 1] \in {t[b[i]].left, t[b[i]].right}
  BY DEF Chain
<1>1. /\ s \in Seq(Node) /\ Len(s) = Len(a) + Len(b)
      /\ \A i \in 1 .. Len(a) + Len(b) : s[i] = IF i <= Len(a) THEN a[i] ELSE b[i - Len(a)]
  BY <1>0, ConcatProperties
<1> HIDE DEF s
<1>2. \A i \in 1 .. Len(a) : s[i] = a[i]
  BY <1>0, <1>1
<1>3. \A i \in 1 .. Len(b) : s[Len(a) + i] = b[i]
  <2> TAKE i \in 1 .. Len(b)
  <2>1. Len(a) + i \in 1 .. Len(a) + Len(b) /\ ~(Len(a) + i <= Len(a)) /\ Len(a) + i - Len(a) = i
    BY <1>0
  <2> QED BY <1>1, <2>1
<1>4. s[1] = a[1] /\ s[Len(s)] = b[Len(b)]
  <2>1. 1 \in 1 .. Len(a) /\ Len(b) \in 1 .. Len(b)
    BY <1>0
  <2> QED BY <1>1, <1>2, <1>3, <2>1
<1>5. ASSUME NEW i \in 1 .. Len(s) - 1 PROVE s[i + 1] \in {t[s[i]].left, t[s[i]].right}
  <2>1. CASE i < Len(a)
    <3>1. i \in 1 .. Len(a) - 1 /\ i \in 1 .. Len(a) /\ i + 1 \in 1 .. Len(a)
      BY <1>0, <1>1, <2>1
    <3>2. s[i] = a[i] /\ s[i + 1] = a[i + 1]
      BY <1>2, <3>1
    <3>3. a[i + 1] \in {t[a[i]].left, t[a[i]].right}
      BY <1>0, <3>1
    <3> QED BY <3>2, <3>3
  <2>2. CASE i = Len(a)
    <3>1. i \in 1 .. Len(a) /\ 1 \in 1 .. Len(b)
      BY <1>0, <1>1, <2>2
    <3>2. s[Len(a) + 1] = b[1] /\ s[Len(a)] = a[Len(a)]
      BY <1>2, <1>3, <2>2, <3>1
    <3> QED BY <2>2, <3>2
  <2>3. CASE i > Len(a)
    <3> DEFINE k == i - Len(a)
    <3>1. k \in 1 .. Len(b) - 1 /\ k \in 1 .. Len(b) /\ k + 1 \in 1 .. Len(b)
          /\ i = Len(a) + k /\ i + 1 = Len(a) + (k + 1)
      BY <1>0, <1>1, <2>3
    <3> HIDE DEF k
    <3>2. s[i] = b[k] /\ s[i + 1] = b[k + 1]
      BY <1>3, <3>1
    <3>3. b[k + 1] \in {t[b[k]].left, t[b[k]].right}
      BY <1>0, <3>1
    <3> QED BY <3>2, <3>3
  <2> QED BY <1>0, <1>1, <2>1, <2>2, <2>3
<1>6. Chain(t, s)
  BY <1>0, <1>1, <1>5 DEF Chain
<1>7. Above(s) = IF Len(b) = 1 THEN a[Len(a)] ELSE b[Len(b) - 1]
  <2>1. Len(s) # 1
    BY <1>0, <1>1
  <2>2. Above(s) = s[Len(s) - 1]
    BY <2>1 DEF Above
  <2>3. CASE Len(b) = 1
    <3>1. Len(s) - 1 = Len(a) /\ Len(a) \in 1 .. Len(a)
      BY <1>0, <1>1, <2>3
    <3> QED BY <1>2, <2>2, <2>3, <3>1
  <2>4. CASE Len(b) # 1
    <3>1. Len(s) - 1 = Len(a) + (Len(b) - 1) /\ Len(b) - 1 \in 1 .. Len(b)
      <4> DEFINE la == Len(a)
                 lb == Len(b)
                 ls == Len(s)
      <4>1. la \in Nat /\ lb \in Nat /\ 0 < lb /\ ls = la + lb /\ lb # 1
        BY <1>0, <1>1, <2>4
      <4> HIDE DEF la, lb, ls
      <4>2. ls - 1 = la + (lb - 1) /\ lb - 1 \in 1 .. lb
        BY <4>1
      <4> QED BY <4>2 DEF la, lb, ls
    <3> QED BY <1>3, <2>2, <2>4, <3>1
  <2> QED BY <2>3, <2>4
<1> QED BY <1>1, <1>2, <1>3, <1>4, <1>6, <1>7 DEF s, Continued

\* A subtree stands in the tree between two sequences of nodes.
LEMMA ChainSplit ==
  ASSUME NEW t \in Forest, NEW ws, Chain(t, ws), Distinct(InOrder(t, ws[1]))
  PROVE  \E pre, post \in Seq(Node) :
           /\ InOrder(t, ws[1]) = Wrap(pre, InOrder(t, ws[Len(ws)]), post)
           /\ NextTo(t, ws, 1, pre, post)
<1> DEFINE x == ws[Len(ws)]
<1>1. Replaced(t, t, ws[1], x, x)
  BY DEF Replaced, Put
<1>2. x \in Ref
  BY ChainType DEF Ref
<1>3. \E pre, post \in Seq(Node) :
            LET top == IF Len(ws) = 1 THEN x ELSE ws[1]
            IN  /\ InOrder(t, ws[1]) = Wrap(pre, InOrder(t, x), post)
                /\ InOrder(t, top) = Wrap(pre, InOrder(t, x), post)
                /\ NextTo(t, ws, 1, pre, post)
                /\ \A M \in Nat : /\ Height(t, ws[1]) <= M
                                  /\ Len(ws) - 1 + Height(t, x) <= M
                                  => Height(t, top) <= M
  BY <1>1, <1>2, Around
<1> QED BY <1>3

\* No node of a chain is below its end.
LEMMA ChainOutside ==
  ASSUME NEW t \in Forest, NEW ws, Chain(t, ws), NEW i \in 1 .. Len(ws) - 1
  PROVE  ws[i] \in Node /\ ws[i] \notin Within(t, ws[Len(ws)])
<1>1. /\ i + 1 \in 1 .. Len(ws) /\ i \in 1 .. Len(ws) /\ Len(ws) \in 1 .. Len(ws)
      /\ i + 1 \in 1 .. Len(ws) /\ Len(ws) \in Nat
      /\ ws[i] \in Node
  BY ChainType
<1>2. Within(t, ws[Len(ws)]) \subseteq Within(t, ws[i + 1])
  <2>1. i + 1 \in 1 .. Len(ws)
    BY <1>1
  <2> QED BY <1>1, <2>1, ChainWithin
<1>3. ws[i + 1] \in {t[ws[i]].left, t[ws[i]].right}
  BY DEF Chain
<1>4. ws[i] \notin Within(t, ws[i + 1])
  BY <1>1, <1>3, NotBelow
<1> QED BY <1>1, <1>2, <1>4

\* Without repetition, a part of a divided sequence has none, and not the node either.
LEMMA LessOne ==
  ASSUME NEW V, NEW a \in Seq(V), NEW n \in V, NEW b \in Seq(V), Distinct(Join(a, n, b))
  PROVE  /\ Distinct(a \o b) /\ n \notin Range(a \o b) /\ a \o b \in Seq(V)
         /\ Range(a \o b) = Range(Join(a, n, b)) \ {n}
         /\ Len(Join(a, n, b)) = 1 + Len(a \o b)
<1>1. /\ Distinct(a) /\ Distinct(b)
      /\ n \notin Range(a) /\ n \notin Range(b) /\ Range(a) \cap Range(b) = {}
  BY DistinctMiddle DEF Join
<1>2. Distinct(a \o b)
  BY <1>1, DistinctConcat
<1>3. a \o b \in Seq(V) /\ Range(a \o b) = Range(a) \cup Range(b) /\ Len(a \o b) = Len(a) + Len(b)
  <2>1. a \o b \in Seq(V) /\ Len(a \o b) = Len(a) + Len(b)
    BY ConcatProperties
  <2>2. Range(a \o b) = Range(a) \cup Range(b)
    BY RangeConcatenation
  <2> QED BY <2>1, <2>2
<1>4. Range(Join(a, n, b)) = Range(a) \cup {n} \cup Range(b) /\ Len(Join(a, n, b)) = Len(a) + 1 + Len(b)
  BY RangeMiddle DEF Join
<1>5. Len(Join(a, n, b)) = 1 + Len(a \o b)
  <2>1. Len(a) \in Nat /\ Len(b) \in Nat
    OBVIOUS
  <2> QED BY <1>3, <1>4, <2>1
<1> QED BY <1>1, <1>2, <1>3, <1>4, <1>5

\* The part of a sequence between two others has no repetition if the whole has none.
LEMMA DistinctPart ==
  ASSUME NEW V, NEW p \in Seq(V), NEW s \in Seq(V), NEW q \in Seq(V), Distinct(Wrap(p, s, q))
  PROVE  Distinct(s)
<1> DEFINE ps == p \o s
<1>1. ps \in Seq(V) /\ Distinct(ps \o q)
  BY ConcatProperties DEF Wrap
<1> HIDE DEF ps
<1>2. Distinct(ps)
  BY <1>1, DistinctConcat
<1> QED BY <1>2, DistinctConcat DEF ps

\* A subtree of a tree without repetition has none.
LEMMA DistinctSub ==
  ASSUME NEW t \in Forest, NEW ws, Chain(t, ws), Distinct(InOrder(t, ws[1]))
  PROVE  Distinct(InOrder(t, ws[Len(ws)]))
<1>1. PICK pre, post \in Seq(Node) : InOrder(t, ws[1]) = Wrap(pre, InOrder(t, ws[Len(ws)]), post)
  BY ChainSplit
<1>2. InOrder(t, ws[Len(ws)]) \in Seq(Node)
  BY InOrderEq, ChainType DEF Ref
<1> QED BY <1>1, <1>2, DistinctPart

\* In s, y follows n, and without y it is g, n and h.
Follows(V, s, n, y, p, L, rest, q, a, b, g, h) ==
  /\ s \in Seq(V) /\ Distinct(s) /\ n \in V /\ y \in V
  /\ p \in Seq(V) /\ L \in Seq(V) /\ rest \in Seq(V) /\ q \in Seq(V)
  /\ s = Wrap(p, Join(L, n, Join(<<>>, y, rest)), q)
  /\ a \in Seq(V) /\ b \in Seq(V) /\ s = Join(a, y, b)
  /\ g \in Seq(V) /\ h \in Seq(V) /\ a \o b = Join(g, n, h)

\* s with n taken out is g, y and h.
Without(V, s, n, y, g, h) ==
  \E X, Z \in Seq(V) : s = Join(X, n, Z) /\ Join(g, y, h) = X \o Z

\* The node y that follows n is taken out, and then put where n is: n is out.
LEMMA Rearranged ==
  ASSUME NEW V, NEW s, NEW n, NEW y, NEW p, NEW L, NEW rest, NEW q, NEW a, NEW b, NEW g, NEW h,
         Follows(V, s, n, y, p, L, rest, q, a, b, g, h)
  PROVE  Without(V, s, n, y, g, h)
<1> SUFFICES ASSUME s \in Seq(V), Distinct(s), n \in V, y \in V,
                    p \in Seq(V), L \in Seq(V), rest \in Seq(V), q \in Seq(V),
                    s = Wrap(p, Join(L, n, Join(<<>>, y, rest)), q),
                    a \in Seq(V), b \in Seq(V), s = Join(a, y, b),
                    g \in Seq(V), h \in Seq(V), a \o b = Join(g, n, h)
             PROVE  \E X, Z \in Seq(V) : s = Join(X, n, Z) /\ Join(g, y, h) = X \o Z
  BY DEF Follows, Without
<1> DEFINE X == p \o L
           R == rest \o q
           Y == Join(<<>>, y, rest)
           Z == Join(<<>>, y, R)
           K == Join(X, n, <<>>)
<1>1. Y \in Seq(V) /\ Y \o q = Z
  <2>1. Neighbours(V, p, n, y, rest, q)
    BY TwoNodes
  <2> QED BY <2>1 DEF Neighbours
<1>2. X \in Seq(V) /\ R \in Seq(V)
  BY ConcatProperties
<1>3. s = Join(X, n, Y \o q)
  <2>0. s = Wrap(p, Join(L, n, Y), q)
    OBVIOUS
  <2> HIDE DEF Y
  <2>1. Wraps(V, p, L, n, Y, q)
    BY <1>1, WrapsJoin
  <2> QED BY <2>0, <2>1 DEF Wraps
<1>4. /\ Join(X, n, Z) = Join(K, y, R) /\ K \o R = Join(X, n, R)
      /\ X \o Z = Join(X, y, R) /\ K \in Seq(V) /\ Z \in Seq(V)
  <2> HIDE DEF X, R
  <2>1. Neighbours(V, X, n, y, R, R)
    BY <1>2, TwoNodes
  <2> QED BY <2>1 DEF Neighbours
<1> HIDE DEF X, R, Y, Z, K
<1>5. s = Join(X, n, Z)
  BY <1>1, <1>3
<1>6. K = a /\ R = b
  <2>1. Distinct(Join(a, y, b)) /\ Join(a, y, b) = Join(K, y, R)
    BY <1>4, <1>5
  <2> QED BY <1>2, <1>4, <2>1, SplitUnique
<1>7. a \o b = Join(X, n, R)
  BY <1>4, <1>6
<1>8. g = X /\ h = R
  <2>1. Distinct(Join(g, n, h))
    <3>1. Distinct(Join(a, y, b))
      OBVIOUS
    <3>2. Distinct(a \o b)
      BY <3>1, LessOne
    <3> QED BY <3>2
  <2>2. Join(g, n, h) = Join(X, n, R)
    BY <1>7
  <2> QED BY <1>2, <2>1, <2>2, SplitUnique
<1> QED BY <1>2, <1>4, <1>5, <1>8

\* The nodes on and below a way.
LEMMA LeadsType ==
  ASSUME NEW t \in Forest, NEW x \in Ref, NEW ws, NEW n, Leads(t, x, ws, n)
  PROVE  /\ x \in Node /\ n \in Node /\ n \in Within(t, x) /\ t \in Links
         /\ Within(t, n) \subseteq Within(t, x) /\ Within(t, x) \subseteq Node
         /\ Within(t, n) = Within(t, t[n].left) \cup {n} \cup Within(t, t[n].right)
         /\ t[n].left \in Ref /\ t[n].right \in Ref
         /\ \A w \in Node : w # Nil /\ w \in Ref
         /\ \A w \in Ref : w # Nil => w \in Node
         /\ Distinct(InOrder(t, n))
<1>1. Chain(t, ws) /\ ws[1] = x /\ ws[Len(ws)] = n /\ Distinct(InOrder(t, ws[1]))
  BY DEF Leads
<1>2. x \in Node /\ n \in Node /\ n \in Within(t, x) /\ Within(t, n) \subseteq Within(t, x)
  BY <1>1, AboveOutside
<1>3. Distinct(InOrder(t, n))
  BY <1>1, DistinctSub
<1> QED BY <1>2, <1>3, WithinEq, LinksType, NilAssumption DEF Forest, Ref

\* The way to the node y that follows n, at the end of the left spine sp of its right
\* subtree, and the link to it.
LEMMA ToSuccessor ==
  ASSUME NEW t \in Forest, NEW x \in Ref, NEW ws, NEW n, Leads(t, x, ws, n),
         t[n].right # Nil, NEW sp, sp = LeftSpine(t, t[n].right)
  PROVE  LET y  == sp[Len(sp)]
             zs == ws \o sp
         IN  /\ Leads(t, x, zs, y) /\ y \in Node /\ t[y].left = Nil
             /\ y \in Within(t, t[n].right)
             /\ Above(zs) = IF Len(sp) = 1 THEN n ELSE sp[Len(sp) - 1]
             /\ Above(zs) \in Within(t, n)
             /\ Len(sp) # 1 => Above(zs) # n /\ t[Above(zs)].left = y
             /\ \E rest \in Seq(Node) : InOrder(t, t[n].right) = Join(<<>>, y, rest)
<1> DEFINE r == t[n].right
           y == sp[Len(sp)]
           zs == ws \o sp
<1>0. /\ n \in Node /\ n \in Within(t, n) /\ r \in Node
      /\ Within(t, r) \subseteq Within(t, n) /\ Within(t, n) \subseteq Node
      /\ n \notin Within(t, r)
  <2>1. /\ x \in Node /\ n \in Node /\ n \in Within(t, x) /\ t \in Links
         /\ Within(t, n) \subseteq Within(t, x) /\ Within(t, x) \subseteq Node
         /\ Within(t, n) = Within(t, t[n].left) \cup {n} \cup Within(t, t[n].right)
         /\ t[n].right \in Ref
         /\ \A w \in Ref : w # Nil => w \in Node
    BY LeadsType
  <2> QED BY <2>1, NotBelow
<1> HIDE DEF r
<1>1. /\ Chain(t, sp) /\ sp[1] = r
      /\ \A i \in 1 .. Len(sp) - 1 : sp[i + 1] = t[sp[i]].left
      /\ y \in Node /\ t[y].left = Nil /\ y \in Within(t, r)
      /\ \E rest \in Seq(Node) : InOrder(t, r) = Join(<<>>, y, rest)
  <2>1. sp = LeftSpine(t, r)
    BY DEF r
  <2> QED BY <1>0, <2>1, Spine
<1>2. Chain(t, ws) /\ ws[1] = x /\ ws[Len(ws)] = n /\ Distinct(InOrder(t, x))
  BY DEF Leads
<1>3. /\ Chain(t, zs) /\ zs[1] = x /\ zs[Len(zs)] = y
      /\ Above(zs) = IF Len(sp) = 1 THEN n ELSE sp[Len(sp) - 1]
  <2>1. sp[1] \in {t[ws[Len(ws)]].left, t[ws[Len(ws)]].right}
    BY <1>1, <1>2 DEF r
  <2>2. Continued(t, ws, sp)
    BY <1>1, <1>2, <2>1, ChainConcat
  <2> QED BY <1>2, <2>2 DEF Continued
<1> HIDE DEF zs, y
<1>4. Len(sp) \in Nat /\ 0 < Len(sp)
  BY <1>1 DEF Chain
<1>5. Above(zs) \in Within(t, n) /\ (Len(sp) # 1 => Above(zs) # n /\ t[Above(zs)].left = y)
  <2>1. CASE Len(sp) = 1
    BY <1>0, <1>3, <2>1
  <2>2. CASE Len(sp) # 1
    <3> DEFINE k == Len(sp) - 1
    <3>1. k \in 1 .. Len(sp) /\ 1 \in 1 .. k /\ k \in 1 .. Len(sp) - 1 /\ k + 1 = Len(sp)
      <4> DEFINE l == Len(sp)
      <4>1. l \in Nat /\ 0 < l /\ l # 1
        BY <1>4, <2>2
      <4> HIDE DEF l
      <4>2. l - 1 \in 1 .. l /\ 1 \in 1 .. l - 1 /\ l - 1 \in 1 .. l - 1 /\ (l - 1) + 1 = l
        BY <4>1
      <4> QED BY <4>2 DEF l
    <3> HIDE DEF k
    <3>2. sp[k] \in Within(t, sp[1])
      BY <1>1, <3>1, ChainWithin
    <3>3. sp[k + 1] = t[sp[k]].left
      BY <1>1, <3>1
    <3>4. Above(zs) = sp[k]
      BY <1>3, <2>2 DEF k
    <3>5. t[sp[k]].left = y
      BY <3>1, <3>3 DEF y
    <3> QED BY <1>0, <1>1, <3>2, <3>4, <3>5
  <2> QED BY <2>1, <2>2
<1>6. Leads(t, x, zs, y)
  BY <1>2, <1>3 DEF Leads
<1>7. /\ Leads(t, x, zs, y) /\ y \in Node /\ t[y].left = Nil
      /\ y \in Within(t, r)
      /\ Above(zs) = IF Len(sp) = 1 THEN n ELSE sp[Len(sp) - 1]
      /\ Above(zs) \in Within(t, n)
      /\ Len(sp) # 1 => Above(zs) # n /\ t[Above(zs)].left = y
      /\ \E rest \in Seq(Node) : InOrder(t, r) = Join(<<>>, y, rest)
  BY <1>1, <1>3, <1>5, <1>6
<1> QED BY <1>7 DEF y, zs, r

\* A tree without one node still repeats nothing.
LEMMA LeadsDistinct ==
  ASSUME NEW t \in Forest, NEW x \in Ref, NEW u \in Forest, NEW n \in Node,
         Distinct(InOrder(t, x)), Lacks(t, x, [tn |-> u, root |-> x], n)
  PROVE  /\ Distinct(InOrder(u, x)) /\ n \notin Within(u, x)
<1>1. PICK a, b \in Seq(Node) : InOrder(t, x) = Join(a, n, b) /\ InOrder(u, x) = a \o b
  BY DEF Lacks
<1> QED BY <1>1, LessOne DEF Within

\* What tr_do_delete does to the links before the node y that follows n takes n's place.
Cut(t, n, sp) ==
  IF Len(sp) = 1 THEN [t EXCEPT ![n].right = t[sp[Len(sp)]].right]
  ELSE [t EXCEPT ![sp[Len(sp) - 1]].left = t[sp[Len(sp)]].right]

\* Taking the successor out from below a node leaves the node where it was.
LEMMA CutLacks ==
  ASSUME NEW t \in Forest, NEW x \in Ref, NEW ws, NEW n, Leads(t, x, ws, n),
         t[n].left # Nil, t[n].right # Nil, NEW sp, sp = LeftSpine(t, t[n].right)
  PROVE  LET u == Cut(t, n, sp)
         IN  /\ u \in Forest /\ Lacks(t, x, [tn |-> u, root |-> x], sp[Len(sp)])
             /\ Leads(u, x, ws, n) /\ sp[Len(sp)] \notin Within(u, x)
             /\ u[n].left = t[n].left
<1> DEFINE y == sp[Len(sp)]
           zs == ws \o sp
           u == Cut(t, n, sp)
           p == Above(zs)
           c == t[y].right
           rel == Relinked(t, x, p, y, c)
<1>0. /\ x \in Node /\ n \in Node /\ t \in Links /\ Within(t, n) \subseteq Node
      /\ \A w \in Node : w # Nil
      /\ \A w \in Ref : w # Nil => w \in Node
      /\ t[n].left \in Ref /\ Distinct(InOrder(t, n))
  BY LeadsType
<1>1. /\ Leads(t, x, zs, y) /\ y \in Node /\ t[y].left = Nil
      /\ y \in Within(t, t[n].right)
      /\ p = IF Len(sp) = 1 THEN n ELSE sp[Len(sp) - 1]
      /\ p \in Within(t, n)
      /\ Len(sp) # 1 => p # n /\ t[p].left = y
  BY ToSuccessor
<1> HIDE DEF zs, p
<1>2. rel = [tn |-> u, root |-> x]
  <2>1. p \in Node /\ p # Nil
    BY <1>0, <1>1
  <2>2. CASE Len(sp) = 1
    <3>1. t[n].left # y
      <4>1. Within(t, t[n].left) \cap Within(t, t[n].right) = {}
        BY <1>0, SidesApart
      <4>2. t[n].left \in Within(t, t[n].left)
        <5>1. t[n].left \in Node
          BY <1>0
        <5> QED BY <5>1, WithinEq
      <4> QED BY <1>1, <4>1, <4>2
    <3>2. p = n
      BY <1>1, <2>2
    <3> HIDE DEF y
    <3>3. rel = [tn |-> [t EXCEPT ![n].right = c], root |-> x]
      BY <2>1, <3>1, <3>2 DEF Relinked
    <3> QED BY <2>2, <3>3 DEF Cut, y
  <2>3. CASE Len(sp) # 1
    <3>1. p = sp[Len(sp) - 1] /\ t[p].left = y
      BY <1>1, <2>3
    <3>2. rel = [tn |-> [t EXCEPT ![p].left = c], root |-> x]
      BY <2>1, <3>1 DEF Relinked
    <3> QED BY <2>3, <3>1, <3>2 DEF Cut
  <2> QED BY <2>2, <2>3
<1>3. Lacks(t, x, rel, y) /\ \A w \in Node : w # p => rel.tn[w] = t[w]
  <2>1. Only(t, y, c)
    BY <1>0, <1>1, LinksType DEF Only
  <2> HIDE DEF rel, c, y
  <2>2. rel = Relinked(t, x, Above(zs), y, c)
    BY DEF rel, p
  <2> QED BY <1>1, <2>1, <2>2, Drop DEF p
<1> HIDE DEF y, c, u, rel
<1>4. /\ Lacks(t, x, [tn |-> u, root |-> x], y)
      /\ \A w \in Node : w # p => u[w] = t[w]
  BY <1>2, <1>3
<1>5. u \in Forest
  BY <1>4 DEF Lacks
<1>6. Chain(t, ws) /\ ws[1] = x /\ ws[Len(ws)] = n /\ Distinct(InOrder(t, x))
  BY DEF Leads
<1>7. Distinct(InOrder(u, x)) /\ y \notin Within(u, x)
  BY <1>1, <1>4, <1>5, <1>6, LeadsDistinct
<1>8. Chain(u, ws)
  <2>1. ASSUME NEW i \in 1 .. Len(ws) - 1 PROVE u[ws[i]] = t[ws[i]]
    <3>1. ws[i] \in Node /\ ws[i] \notin Within(t, n)
      BY <1>6, ChainOutside
    <3> QED BY <1>1, <1>4, <3>1
  <2> QED BY <1>6, <2>1 DEF Chain
<1>9. Leads(u, x, ws, n)
  BY <1>6, <1>7, <1>8 DEF Leads
<1>10. u[n].left = t[n].left
  <2>1. CASE Len(sp) # 1
    BY <1>0, <1>1, <1>4, <2>1
  <2>2. CASE Len(sp) = 1
    BY <1>0, <2>2 DEF Cut, u, Links
  <2> QED BY <2>1, <2>2
<1> QED BY <1>4, <1>5, <1>7, <1>9, <1>10 DEF y, u

\* The node that follows n takes its place: the last part of tr_do_delete.
Moved(t, x, ws, n, y, u) ==
  Relinked([u EXCEPT ![y].left = t[n].left, ![y].right = u[n].right], x, Above(ws), n, y)

\* A node with two children, replaced by its successor, is gone from the tree.
LEMMA Succeeds ==
  ASSUME NEW t \in Forest, NEW x \in Ref, NEW ws, NEW n, Leads(t, x, ws, n),
         t[n].left # Nil, t[n].right # Nil
  PROVE  LET sp == LeftSpine(t, t[n].right)
         IN  Lacks(t, x, Moved(t, x, ws, n, sp[Len(sp)], Cut(t, n, sp)), n)
<1> DEFINE sp == LeftSpine(t, t[n].right)
           y == sp[Len(sp)]
           cut == Cut(t, n, sp)
           moved == [cut EXCEPT ![y].left = t[n].left, ![y].right = cut[n].right]
           new == Relinked(moved, x, Above(ws), n, y)
<1>1. /\ cut \in Forest /\ Lacks(t, x, [tn |-> cut, root |-> x], y)
      /\ Leads(cut, x, ws, n) /\ y \notin Within(cut, x)
      /\ cut[n].left = t[n].left
  BY CutLacks
<1> HIDE DEF cut
<1>2. /\ y \in Node /\ y \in Within(t, t[n].right)
      /\ \E rest \in Seq(Node) : InOrder(t, t[n].right) = Join(<<>>, y, rest)
  BY ToSuccessor
<1> HIDE DEF y
<1>3. /\ x \in Node /\ n \in Node /\ t[n].left \in Ref /\ t[n].right \in Ref
  BY LeadsType
<1>4. Double(cut, x, moved, n, y) /\ \A w \in Node : moved[w].key = cut[w].key
  <2>1. cut \in Links
    BY <1>1 DEF Forest
  <2>2. cut[n].left \in Ref /\ cut[n].right \in Ref
    BY <1>3, <2>1 DEF Links
  <2>3. moved \in Links
    BY <1>2, <1>3, <2>1, <2>2 DEF Links
  <2>4. moved[y].left = cut[n].left /\ moved[y].right = cut[n].right /\ moved[y].key = cut[y].key
    BY <1>1, <1>2, <2>1 DEF Links
  <2>5. \A w \in Node : w # y => moved[w] = cut[w]
    BY <1>2, <2>1 DEF Links
  <2> QED BY <1>1, <1>2, <2>3, <2>4, <2>5 DEF Double
<1> HIDE DEF moved, new
<1>5. Swapped(cut, x, moved, new, n, y)
  <2>1. new = Relinked(moved, x, Above(ws), n, y)
    BY DEF new
  <2> QED BY <1>1, <1>4, <2>1, Swap
<1>6. PICK rest \in Seq(Node) : InOrder(t, t[n].right) = Join(<<>>, y, rest)
  BY <1>2
<1>7. PICK a, b \in Seq(Node) : InOrder(t, x) = Join(a, y, b) /\ InOrder(cut, x) = a \o b
  BY <1>1 DEF Lacks
<1>8. PICK g, h \in Seq(Node) :
        InOrder(cut, x) = Join(g, n, h) /\ InOrder(new.tn, new.root) = Join(g, y, h)
  BY <1>5 DEF Swapped
<1>9. PICK pre, post \in Seq(Node) : InOrder(t, x) = Wrap(pre, InOrder(t, n), post)
  BY ChainSplit DEF Leads
<1> DEFINE L == InOrder(t, t[n].left)
           s == InOrder(t, x)
<1>10. /\ InOrder(t, n) = Join(L, n, Join(<<>>, y, rest)) /\ L \in Seq(Node)
       /\ s \in Seq(Node) /\ Distinct(s)
  BY <1>3, <1>6, InOrderJoin, InOrderEq DEF Leads
<1>11. \E X, Z \in Seq(Node) : s = Join(X, n, Z) /\ Join(g, y, h) = X \o Z
  <2>1. s = Wrap(pre, Join(L, n, Join(<<>>, y, rest)), post) /\ s = Join(a, y, b) /\ a \o b = Join(g, n, h)
    BY <1>7, <1>8, <1>9, <1>10
  <2> HIDE DEF s, L
  <2>2. Follows(Node, s, n, y, pre, L, rest, post, a, b, g, h)
    BY <1>2, <1>3, <1>10, <2>1 DEF Follows
  <2> HIDE DEF s, L
  <2>3. Without(Node, s, n, y, g, h)
    BY <2>2, Rearranged
  <2> QED BY <2>3 DEF Without
<1>12. Height(new.tn, new.root) <= Height(t, x)
  <2>1. Height(new.tn, new.root) \in Nat /\ Height(cut, x) \in Nat /\ Height(t, x) \in Nat
    BY <1>1, <1>5, HeightEq DEF Swapped
  <2>2. Height(new.tn, new.root) <= Height(cut, x) /\ Height(cut, x) <= Height(t, x)
    BY <1>1, <1>5 DEF Swapped, Lacks
  <2> QED BY <2>1, <2>2
<1>13. \A w \in Node : new.tn[w].key = t[w].key
  BY <1>1, <1>4, <1>5 DEF Swapped, Lacks
<1>14. new.tn \in Forest /\ new.root \in Ref
  BY <1>5 DEF Swapped
<1>15. Lacks(t, x, new, n)
  BY <1>8, <1>11, <1>12, <1>13, <1>14 DEF Lacks
<1> QED BY <1>15 DEF new, moved, cut, y, Moved

\* t with the node n cut off from its children.
Unlinked(t, n) == [t EXCEPT ![n].left = Nil, ![n].right = Nil]

\* Links of a node that is not in a tree do not matter to it.
LEMMA Cleared ==
  ASSUME NEW t \in Forest, NEW x \in Ref, NEW n \in Node, n \notin Within(t, x)
  PROVE  LET u == Unlinked(t, n)
         IN  /\ u \in Forest /\ InOrder(u, x) = InOrder(t, x) /\ Height(u, x) = Height(t, x)
             /\ \A w \in Node : u[w].key = t[w].key
<1> DEFINE u == Unlinked(t, n)
<1>1. /\ u \in Links
      /\ \A w \in Node : w # n => u[w] = t[w]
      /\ u[n].left = Nil /\ u[n].right = Nil /\ u[n].key = t[n].key
  BY DEF Forest, Links, Ref, Unlinked
<1> HIDE DEF u
<1>2. PICK r \in [Node -> Nat] : Descends(t, r)
  BY DEF Forest
<1>3. ASSUME NEW w \in Node PROVE /\ u[w].left # Nil => r[u[w].left] < r[w]
                                  /\ u[w].right # Nil => r[u[w].right] < r[w]
  BY <1>1, <1>2 DEF Descends
<1>4. u \in Forest
  BY <1>1, <1>2, <1>3 DEF Descends, Forest
<1>5. \A w \in Within(t, x) : u[w].left = t[w].left /\ u[w].right = t[w].right
  <2>1. Within(t, x) \subseteq Node
    BY WithinEq
  <2> QED BY <1>1, <2>1
<1>6. InOrder(u, x) = InOrder(t, x) /\ Height(u, x) = Height(t, x)
  BY <1>4, <1>5, Agreement
<1> QED BY <1>1, <1>4, <1>6 DEF u

\* A record of links and a root.
IsTree(out) == out = [tn |-> out.tn, root |-> out.root]

\* Relinked gives a record of links and a root.
LEMMA RelinkedRecord ==
  ASSUME NEW v, NEW x, NEW p, NEW n, NEW c
  PROVE  IsTree(Relinked(v, x, p, n, c))
<1>1. CASE p = Nil
  BY <1>1 DEF Relinked, IsTree
<1>2. CASE p # Nil
  BY <1>2 DEF Relinked, IsTree
<1> QED BY <1>1, <1>2

\* Blanking the links of a node, as the end of tr_delete does.
LEMMA ClearedRecord ==
  ASSUME NEW v \in Links, NEW z, NEW n \in Node
  PROVE  LET new == [[tn |-> v, root |-> z] EXCEPT !.tn[n].left = Nil, !.tn[n].right = Nil]
         IN  new.tn = Unlinked(v, n) /\ new.root = z
BY DEF Links, Unlinked

\* A tree that lacks a node still does when its links are blanked.
LEMMA ClearedLacks ==
  ASSUME NEW t \in Forest, NEW x \in Ref, NEW n \in Node, Distinct(InOrder(t, x)),
         NEW out, Lacks(t, x, out, n), IsTree(out)
  PROVE  Lacks(t, x, [out EXCEPT !.tn[n].left = Nil, !.tn[n].right = Nil], n)
<1> DEFINE v == out.tn
           z == out.root
           new == [out EXCEPT !.tn[n].left = Nil, !.tn[n].right = Nil]
           u == Unlinked(v, n)
<1>1. /\ v \in Forest /\ z \in Ref
      /\ \A w \in Node : v[w].key = t[w].key
      /\ Height(v, z) <= Height(t, x)
      /\ \E a, b \in Seq(Node) : InOrder(t, x) = Join(a, n, b) /\ InOrder(v, z) = a \o b
  BY DEF Lacks
<1>2. PICK a, b \in Seq(Node) : InOrder(t, x) = Join(a, n, b) /\ InOrder(v, z) = a \o b
  BY <1>1
<1>3. n \notin Within(v, z)
  <2>1. n \notin Range(a \o b)
    BY <1>2, LessOne
  <2> QED BY <1>2, <2>1 DEF Within
<1>4. new.tn = u /\ new.root = z
  <2> DEFINE o == [tn |-> v, root |-> z]
             no == [o EXCEPT !.tn[n].left = Nil, !.tn[n].right = Nil]
  <2>1. no.tn = u /\ no.root = z
    <3>1. v \in Links
      BY <1>1 DEF Forest
    <3> HIDE DEF v, z
    <3> QED BY <3>1, ClearedRecord
  <2>2. out = o
    BY DEF IsTree
  <2> HIDE DEF v, z, u
  <2> QED BY <2>1, <2>2
<1> HIDE DEF v, z, new
<1>5. /\ u \in Forest /\ InOrder(u, z) = InOrder(v, z) /\ Height(u, z) = Height(v, z)
      /\ \A w \in Node : u[w].key = v[w].key
  <2>1. v \in Forest /\ z \in Ref
    BY <1>1
  <2> QED BY <2>1, <1>3, Cleared
<1> HIDE DEF u
<1> QED BY <1>1, <1>2, <1>4, <1>5 DEF Lacks, new

\* There is a way to every node, and ParentOf gives the node above it.
LEMMA LeadsTo ==
  ASSUME tn \in Forest, root \in Ref, Distinct(InOrder(tn, root)), NEW n \in Within(tn, root)
  PROVE  \E ws : Leads(tn, root, ws, n) /\ ParentOf(tn, n) = Above(ws)
<1>1. PICK ws : Chain(tn, ws) /\ ws[1] = root /\ ws[Len(ws)] = n
  BY ChainTo
<1>2. ParentOf(tn, ws[Len(ws)]) = Above(ws)
  BY <1>1, ParentIs
<1> QED BY <1>1, <1>2 DEF Leads

\* Deletion takes its node out of the tree, and no other.
LEMMA SplicedLacks ==
  ASSUME tn \in Forest, root \in Ref, Distinct(InOrder(tn, root)), NEW n \in Within(tn, root)
  PROVE  Lacks(tn, root, Spliced(n), n)
<1>1. PICK ws : Leads(tn, root, ws, n) /\ ParentOf(tn, n) = Above(ws)
  BY LeadsTo
<1>2. n \in Node /\ tn[n].left \in Ref /\ tn[n].right \in Ref
  BY <1>1, LeadsType
<1> DEFINE p     == ParentOf(tn, n)
           l     == tn[n].left
           r     == tn[n].right
           spine == LeftSpine(tn, r)
           succ  == Last(spine)
           cut   == IF Len(spine) = 1 THEN [tn EXCEPT ![n].right = tn[succ].right]
                    ELSE [tn EXCEPT ![spine[Len(spine) - 1]].left = tn[succ].right]
           moved == [cut EXCEPT ![succ].left = l, ![succ].right = cut[n].right]
           two   == Relinked(moved, root, p, n, succ)
           one   == Relinked(tn, root, p, n, IF l # Nil THEN l ELSE r)
           out   == IF l # Nil /\ r # Nil THEN two ELSE one
<1>3. Spliced(n) = [out EXCEPT !.tn[n].left = Nil, !.tn[n].right = Nil]
  BY DEF Spliced
<1>4. ASSUME l # Nil, r # Nil PROVE Lacks(tn, root, two, n)
  <2>1. Lacks(tn, root, Moved(tn, root, ws, n, spine[Len(spine)], Cut(tn, n, spine)), n)
    BY <1>1, <1>4, Succeeds
  <2>2. succ = spine[Len(spine)]
    BY DEF Last
  <2>3. cut = Cut(tn, n, spine)
    BY <2>2 DEF Cut
  <2> HIDE DEF succ, cut, spine
  <2>4. two = Moved(tn, root, ws, n, succ, cut)
    BY <1>1 DEF Moved
  <2> QED BY <2>1, <2>2, <2>3, <2>4
<1>5. ASSUME ~(l # Nil /\ r # Nil) PROVE Lacks(tn, root, one, n)
  <2> DEFINE c == IF l # Nil THEN l ELSE r
  <2>1. Only(tn, n, c)
    BY <1>2, <1>5 DEF Only
  <2>2. one = Relinked(tn, root, Above(ws), n, c)
    BY <1>1
  <2> HIDE DEF one, c
  <2> QED BY <1>1, <2>1, <2>2, Drop
<1>6. IsTree(two) /\ IsTree(one)
  <2> HIDE DEF moved, succ
  <2> QED BY RelinkedRecord
<1> HIDE DEF two, one
<1>7. Lacks(tn, root, out, n) /\ IsTree(out)
  <2>1. CASE l # Nil /\ r # Nil
    BY <1>4, <1>6, <2>1
  <2>2. CASE ~(l # Nil /\ r # Nil)
    BY <1>5, <1>6, <2>2
  <2> QED BY <2>1, <2>2
<1> HIDE DEF out
<1>8. Lacks(tn, root, [out EXCEPT !.tn[n].left = Nil, !.tn[n].right = Nil], n)
  BY <1>2, <1>7, ClearedLacks
<1> QED BY <1>3, <1>8

\* tree_del_min_node takes out the first node.
LEMMA MinLacks ==
  ASSUME tn \in Forest, root \in Ref, Distinct(InOrder(tn, root)), root # Nil
  PROVE  LET n == Last(LeftSpine(tn, root))
         IN  /\ n \in Within(tn, root)
             /\ Lacks(tn, root, Relinked(tn, root, ParentOf(tn, n), n, tn[n].right), n)
<1> DEFINE n == Last(LeftSpine(tn, root))
<1>1. n \in Within(tn, root) /\ n \in Node /\ tn[n].left = Nil
  <2>1. root \in Node
    BY DEF Ref
  <2> QED BY <2>1, Spine DEF Last
<1> HIDE DEF n
<1>2. PICK ws : Leads(tn, root, ws, n) /\ ParentOf(tn, n) = Above(ws)
  BY <1>1, LeadsTo
<1> DEFINE c == tn[n].right
           new == Relinked(tn, root, ParentOf(tn, n), n, c)
<1>3. Only(tn, n, c)
  BY <1>1, <1>2, LeadsType DEF Only
<1>4. new = Relinked(tn, root, Above(ws), n, c)
  BY <1>2
<1> HIDE DEF new, c
<1>5. Lacks(tn, root, new, n)
  BY <1>2, <1>3, <1>4, Drop
<1> QED BY <1>1, <1>5 DEF n, c, new

-----------------------------------------------------------------------------
(* Rebuilding: the nodes of a sequence linked into a balanced tree.        *)

-----------------------------------------------------------------------------
(* Recursion along a rank.                                                 *)

\* Induction over a rank.
LEMMA RankInduction ==
  ASSUME NEW D, NEW r \in [D -> Nat], NEW S,
         \A x \in D : (\A y \in D : r[y] < r[x] => y \in S) => x \in S
  PROVE  \A x \in D : x \in S
<1> DEFINE T == {r[x] : x \in D \ S}
<1> SUFFICES ASSUME T # {} PROVE FALSE
  OBVIOUS
<1>1. T \subseteq Nat
  OBVIOUS
<1>2. PICK n \in T : \A m \in T : n <= m
  <2> HIDE DEF T
  <2> QED BY <1>1, LeastNat
<1>3. PICK x \in D \ S : n = r[x]
  BY <1>2
<1>4. \A y \in D : r[y] < r[x] => y \in S
  <2> SUFFICES ASSUME NEW y \in D, r[y] < r[x], y \notin S PROVE FALSE
    OBVIOUS
  <2>1. r[y] \in T /\ r[y] \in Nat /\ r[x] \in Nat
    OBVIOUS
  <2> HIDE DEF T
  <2> QED BY <1>2, <1>3, <2>1
<1> QED BY <1>3, <1>4

\* H takes from a function only its values at elements of lower rank.
Guarded(D, V, r, H) ==
  /\ r \in [D -> Nat] /\ H \in [D -> [[D -> V] -> V]]
  /\ \A x \in D : \A f, g \in [D -> V] :
       (\A y \in D : r[y] < r[x] => f[y] = g[y]) => H[x][f] = H[x][g]

\* The recursion H over D has a solution with values in V.
Solved(D, V, H) == \E f \in [D -> V] : \A x \in D : f[x] = H[x][f]

\* A function is defined by its value at an element from those at elements of lower
\* rank.
LEMMA RankRecursion ==
  ASSUME NEW D, NEW V, NEW b \in V, NEW r, NEW H, Guarded(D, V, r, H)
  PROVE  Solved(D, V, H)
<1> SUFFICES ASSUME r \in [D -> Nat], H \in [D -> [[D -> V] -> V]],
                    \A x \in D : \A f, g \in [D -> V] :
                      (\A y \in D : r[y] < r[x] => f[y] = g[y]) => H[x][f] = H[x][g]
             PROVE  \E f \in [D -> V] : \A x \in D : f[x] = H[x][f]
  BY DEF Guarded, Solved
<1> DEFINE Part(f, n) == f \in [D -> V] /\ \A x \in D : r[x] < n => f[x] = H[x][f]
           T == {n \in Nat : ~\E f : Part(f, n)}
<1>1. \A n \in Nat : \E f : Part(f, n)
  <2> SUFFICES ASSUME T # {} PROVE FALSE
    OBVIOUS
  <2>1. PICK n \in T : \A m \in T : n <= m
    <3>1. T \subseteq Nat
      OBVIOUS
    <3> HIDE DEF T
    <3> QED BY <3>1, LeastNat
  <2>2. n # 0
    <3> DEFINE g == [x \in D |-> b]
    <3>1. g \in [D -> V]
      OBVIOUS
    <3>2. \A x \in D : ~(r[x] < 0)
      OBVIOUS
    <3>3. Part(g, 0)
      <4> HIDE DEF g
      <4> QED BY <3>1, <3>2
    <3> QED BY <3>3
  <2>3. PICK f : Part(f, n - 1)
    <3>1. n - 1 \in Nat /\ ~(n <= n - 1)
      BY <2>2
    <3> QED BY <2>1, <3>1
  <2> DEFINE g == [x \in D |-> H[x][f]]
  <2>4. g \in [D -> V]
    BY <2>3
  <2>5. \A y \in D : r[y] < n - 1 => g[y] = f[y]
    BY <2>3
  <2>6. ASSUME NEW x \in D, r[x] < n PROVE g[x] = H[x][g]
    <3>1. \A y \in D : r[y] < r[x] => g[y] = f[y]
      <4> SUFFICES ASSUME NEW y \in D, r[y] < r[x] PROVE g[y] = f[y]
        OBVIOUS
      <4>1. r[y] \in Nat /\ r[x] \in Nat /\ n \in Nat
        BY <2>1
      <4>2. r[y] < n - 1
        BY <4>1, <2>6
      <4> HIDE DEF g
      <4> QED BY <4>2, <2>5
    <3>2. g[x] = H[x][f]
      OBVIOUS
    <3> HIDE DEF g
    <3>3. H[x][g] = H[x][f]
      BY <2>3, <2>4, <3>1
    <3> QED BY <3>2, <3>3
  <2>7. Part(g, n)
    <3> HIDE DEF g
    <3> QED BY <2>4, <2>6
  <2> HIDE DEF Part, g
  <2> QED BY <2>7, <2>1
<1>2. \A f, g : \A n, m \in Nat : Part(f, n) /\ Part(g, m) =>
        \A x \in D : r[x] < n /\ r[x] < m => f[x] = g[x]
  <2> SUFFICES ASSUME NEW f, NEW g, NEW n \in Nat, NEW m \in Nat, Part(f, n), Part(g, m)
               PROVE \A x \in D : r[x] < n /\ r[x] < m => f[x] = g[x]
    <3> HIDE DEF Part
    <3> QED OBVIOUS
  <2> DEFINE S == {x \in D : r[x] < n /\ r[x] < m => f[x] = g[x]}
  <2>1. ASSUME NEW x \in D, \A y \in D : r[y] < r[x] => y \in S PROVE x \in S
    <3> SUFFICES ASSUME r[x] < n, r[x] < m PROVE f[x] = g[x]
      OBVIOUS
    <3>1. \A y \in D : r[y] < r[x] => f[y] = g[y]
      <4> SUFFICES ASSUME NEW y \in D, r[y] < r[x] PROVE f[y] = g[y]
        OBVIOUS
      <4>1. r[y] \in Nat /\ r[x] \in Nat
        OBVIOUS
      <4>2. r[y] < n /\ r[y] < m
        BY <4>1
      <4> QED BY <2>1, <4>2
    <3>2. H[x][f] = H[x][g]
      BY <3>1
    <3> QED BY <3>2
  <2>2. \A x \in D : x \in S
    <3> HIDE DEF S
    <3> QED BY <2>1, RankInduction
  <2> QED BY <2>2
<1> DEFINE F(x) == CHOOSE f : Part(f, r[x] + 1)
           h == [x \in D |-> F(x)[x]]
<1>3. \A x \in D : Part(F(x), r[x] + 1)
  <2> TAKE x \in D
  <2>1. r[x] + 1 \in Nat
    OBVIOUS
  <2> HIDE DEF Part
  <2> QED BY <1>1, <2>1
<1>4. \A x \in D : \A n \in Nat : \A f : Part(f, n) /\ r[x] < n => h[x] = f[x]
  <2> TAKE x \in D
  <2>1. h[x] = F(x)[x] /\ r[x] + 1 \in Nat /\ r[x] < r[x] + 1
    <3>1. h[x] = F(x)[x]
      <4> HIDE DEF F
      <4> QED OBVIOUS
    <3> HIDE DEF F, h
    <3> QED BY <3>1
  <2> HIDE DEF Part, F, h
  <2> QED BY <1>2, <1>3, <2>1
<1>5. h \in [D -> V]
  <2>1. \A x \in D : F(x)[x] \in V
    <3> TAKE x \in D
    <3>1. F(x) \in [D -> V]
      BY <1>3
    <3> HIDE DEF F
    <3> QED BY <3>1
  <2> HIDE DEF F, Part
  <2> QED BY <2>1
<1>6. ASSUME NEW x \in D PROVE h[x] = H[x][h]
  <2>1. PICK f : Part(f, r[x] + 1)
    <3> HIDE DEF Part, F
    <3> QED BY <1>3
  <2>2. r[x] \in Nat /\ r[x] + 1 \in Nat /\ r[x] < r[x] + 1
    OBVIOUS
  <2>3. \A y \in D : r[y] < r[x] => h[y] = f[y]
    <3> SUFFICES ASSUME NEW y \in D, r[y] < r[x] PROVE h[y] = f[y]
      OBVIOUS
    <3>1. r[y] \in Nat /\ r[y] < r[x] + 1
      BY <2>2
    <3> HIDE DEF h, Part
    <3> QED BY <3>1, <2>1, <2>2, <1>4
  <2>4. f[x] = H[x][f] /\ f \in [D -> V]
    BY <2>1, <2>2
  <2>5. h[x] = f[x]
    <3> HIDE DEF h, Part
    <3> QED BY <2>1, <2>2, <1>4
  <2> HIDE DEF h
  <2>6. H[x][h] = H[x][f]
    BY <1>5, <2>3, <2>4
  <2> QED BY <2>4, <2>5, <2>6
<1> HIDE DEF h
<1> QED BY <1>5, <1>6

-----------------------------------------------------------------------------
(* Balanced trees.                                                         *)

\* The middle of an interval halves it, the left half being the smaller.
LEMMA MidIs ==
  ASSUME NEW i \in Nat, NEW j \in Nat, i <= j, 1 <= i
  PROVE  /\ Mid(i, j) \in i .. j /\ Mid(i, j) - 1 \in Nat /\ Mid(i, j) \in Nat
         /\ 2 * (Mid(i, j) - i) <= j - i + 1
         /\ j - Mid(i, j) <= Mid(i, j) - i
BY DEF Mid

\* The intervals of the places of s.
Square(s) == (1 .. Len(s) + 1) \X (0 .. Len(s))
Top(s, i, j) == IF i > j THEN Nil ELSE s[Mid(i, j)]
Built(t, s, f, a) ==
  LET i  == a[1]
      j  == a[2]
      m  == Mid(i, j)
      lo == f[<<i, m - 1>>]
      hi == f[<<m + 1, j>>]
  IN  IF i > j THEN t
      ELSE [x \in Node |->
              IF x = s[m] THEN [t[x] EXCEPT !.left = Top(s, i, m - 1),
                                            !.right = Top(s, m + 1, j)]
              ELSE IF \E k \in i..m - 1 : x = s[k] THEN lo[x]
              ELSE hi[x]]

\* The intervals of a sequence, and their halves.
LEMMA SquareType ==
  ASSUME NEW s \in Seq(Node), NEW a \in Square(s)
  PROVE  /\ a[1] \in 1 .. Len(s) + 1 /\ a[2] \in 0 .. Len(s) /\ a = <<a[1], a[2]>>
         /\ a[1] \in Nat /\ a[2] \in Nat /\ Len(s) \in Nat
         /\ Top(s, a[1], a[2]) \in Ref
         /\ a[1] <= a[2] =>
              LET m == Mid(a[1], a[2]) IN
              /\ m \in 1 .. Len(s) /\ m \in a[1] .. a[2] /\ s[m] \in Node
              /\ <<a[1], m - 1>> \in Square(s) /\ <<m + 1, a[2]>> \in Square(s)
              /\ Top(s, a[1], m - 1) \in Ref /\ Top(s, m + 1, a[2]) \in Ref
              /\ 2 * (m - a[1]) <= a[2] - a[1] + 1
              /\ a[2] - m <= m - a[1]
<1> DEFINE i == a[1]
           j == a[2]
           n == Len(s)
           m == Mid(i, j)
<1>1. /\ i \in 1 .. n + 1 /\ j \in 0 .. n /\ a = <<i, j>> /\ n \in Nat
  BY DEF Square
<1>2. \A k, l \in Nat : 1 <= k /\ l <= n => Top(s, k, l) \in Ref
  <2> TAKE k, l \in Nat
  <2> HAVE 1 <= k /\ l <= n
  <2>1. CASE k > l
    BY <2>1 DEF Top, Ref
  <2>2. CASE ~(k > l)
    <3>1. Mid(k, l) \in k .. l
      <4>1. k <= l /\ 1 <= k
        BY <2>2
      <4> QED BY <4>1, MidIs
    <3>2. Mid(k, l) \in 1 .. Len(s)
      BY <3>1, <1>1
    <3>3. s[Mid(k, l)] \in Node
      BY <3>2
    <3> QED BY <2>2, <3>3 DEF Top, Ref
  <2> QED BY <2>1, <2>2
<1>3. ASSUME i <= j
      PROVE  /\ m \in 1 .. n /\ m \in i .. j /\ s[m] \in Node
             /\ <<i, m - 1>> \in Square(s) /\ <<m + 1, j>> \in Square(s)
             /\ Top(s, i, m - 1) \in Ref /\ Top(s, m + 1, j) \in Ref
             /\ 2 * (m - i) <= j - i + 1
             /\ j - m <= m - i
  <2> HIDE DEF i, j
  <2>1. /\ m \in i .. j /\ m - 1 \in Nat /\ m \in Nat
        /\ 2 * (m - i) <= j - i + 1
        /\ j - m <= m - i
    BY <1>1, <1>3, MidIs
  <2> HIDE DEF m
  <2>2. m \in 1 .. n /\ m + 1 \in 1 .. n + 1 /\ m - 1 \in 0 .. n /\ m + 1 \in Nat
    BY <1>1, <2>1
  <2>3. s[m] \in Node
    BY <2>2
  <2>4. <<i, m - 1>> \in Square(s) /\ <<m + 1, j>> \in Square(s)
    BY <1>1, <2>2 DEF Square
  <2>5. Top(s, i, m - 1) \in Ref /\ Top(s, m + 1, j) \in Ref
    BY <1>1, <1>2, <2>1, <2>2
  <2> QED BY <2>1, <2>2, <2>3, <2>4, <2>5
<1>4. Top(s, i, j) \in Ref
  BY <1>1, <1>2
<1> QED BY <1>1, <1>3, <1>4

\* How many places an interval has.
Size(a) == IF a[1] > a[2] THEN 0 ELSE a[2] - a[1] + 1

\* The halves of an interval are at most half as long.
LEMMA SizeIs ==
  ASSUME NEW s \in Seq(Node), NEW a \in Square(s)
  PROVE  /\ Size(a) \in Nat /\ Size(a) <= Len(s)
         /\ a[1] <= a[2] =>
              LET m == Mid(a[1], a[2]) IN
              /\ Size(<<a[1], m - 1>>) < Size(a) /\ Size(<<m + 1, a[2]>>) < Size(a)
              /\ 2 * Size(<<a[1], m - 1>>) <= Size(a) /\ 2 * Size(<<m + 1, a[2]>>) <= Size(a)
              /\ 0 < Size(a)
<1> DEFINE i == a[1]
           j == a[2]
           m == Mid(i, j)
<1>1. /\ i \in 1 .. Len(s) + 1 /\ j \in 0 .. Len(s) /\ Len(s) \in Nat
      /\ i <= j => m \in i .. j /\ 2 * (m - i) <= j - i + 1 /\ j - m <= m - i
  BY SquareType
<1>2. Size(a) = IF i > j THEN 0 ELSE j - i + 1
  BY DEF Size
<1>3. Size(<<i, m - 1>>) = IF i > m - 1 THEN 0 ELSE m - 1 - i + 1
  BY DEF Size
<1>4. Size(<<m + 1, j>>) = IF m + 1 > j THEN 0 ELSE j - (m + 1) + 1
  BY DEF Size
<1> HIDE DEF i, j, m
<1>5. /\ Size(a) \in Nat /\ Size(a) <= Len(s)
      /\ i <= j =>
         /\ Size(<<i, m - 1>>) < Size(a) /\ Size(<<m + 1, j>>) < Size(a)
         /\ 2 * Size(<<i, m - 1>>) <= Size(a) /\ 2 * Size(<<m + 1, j>>) <= Size(a)
         /\ 0 < Size(a)
  BY <1>1, <1>2, <1>3, <1>4, SMTT(30)
<1> QED BY <1>5 DEF i, j, m

\* What Balanced computes, interval by interval.
LEMMA BalancedEq ==
  ASSUME NEW t \in Links, NEW s \in Seq(Node)
  PROVE  \E F \in [Square(s) -> Links] :
           /\ Balanced(t, s) = [tn |-> F[<<1, Len(s)>>], root |-> Top(s, 1, Len(s))]
           /\ \A a \in Square(s) : F[a] = Built(t, s, F, a)
<1> DEFINE D == Square(s)
           r == [a \in D |-> Size(a)]
           H == [a \in D |-> [f \in [D -> Links] |-> Built(t, s, f, a)]]
           Fix(f) == f = [a \in D |-> Built(t, s, f, a)]
           F == CHOOSE f : Fix(f)
<1>1. r \in [D -> Nat]
  <2>1. \A a \in D : Size(a) \in Nat
    BY SizeIs
  <2> HIDE DEF D
  <2> QED BY <2>1
<1>2. \A a \in D : \A f \in [D -> Links] : Built(t, s, f, a) \in Links
  <2> TAKE a \in D
  <2> TAKE f \in [D -> Links]
  <2>1. CASE a[1] > a[2]
    BY <2>1 DEF Built
  <2>2. CASE ~(a[1] > a[2])
    <3> DEFINE m == Mid(a[1], a[2])
    <3>1. /\ a[1] \in Nat /\ a[2] \in Nat /\ s[m] \in Node
          /\ <<a[1], m - 1>> \in D /\ <<m + 1, a[2]>> \in D
          /\ Top(s, a[1], m - 1) \in Ref /\ Top(s, m + 1, a[2]) \in Ref
      BY <2>2, SquareType
    <3> DEFINE lo == f[<<a[1], m - 1>>]
               hi == f[<<m + 1, a[2]>>]
               l == Top(s, a[1], m - 1)
               g == Top(s, m + 1, a[2])
               e(x) == IF x = s[m] THEN [t[x] EXCEPT !.left = l, !.right = g]
                       ELSE IF \E k \in a[1]..m - 1 : x = s[k] THEN lo[x] ELSE hi[x]
    <3>2. lo \in Links /\ hi \in Links
      BY <3>1
    <3>3. Built(t, s, f, a) = [x \in Node |-> e(x)]
      BY <2>2 DEF Built
    <3> HIDE DEF lo, hi, l, g, m
    <3>4. l \in Ref /\ g \in Ref
      BY <3>1 DEF l, g
    <3>5. \A x \in Node : e(x) \in [key : Key \cup {Nil}, left : Ref, right : Ref]
      BY <3>2, <3>4 DEF Links
    <3> HIDE DEF e
    <3> QED BY <3>3, <3>5 DEF Links
  <2> QED BY <2>1, <2>2
<1>3. H \in [D -> [[D -> Links] -> Links]]
  <2> HIDE DEF D
  <2> QED BY <1>2
<1>4. \A a \in D : \A f, g \in [D -> Links] :
        (\A b \in D : r[b] < r[a] => f[b] = g[b]) => H[a][f] = H[a][g]
  <2> TAKE a \in D
  <2> TAKE f, g \in [D -> Links]
  <2> HAVE \A b \in D : r[b] < r[a] => f[b] = g[b]
  <2>1. H[a][f] = Built(t, s, f, a) /\ H[a][g] = Built(t, s, g, a)
    <3> HIDE DEF D
    <3> QED OBVIOUS
  <2>2. CASE a[1] > a[2]
    <3> HIDE DEF H, D
    <3> QED BY <2>1, <2>2 DEF Built
  <2>3. CASE ~(a[1] > a[2])
    <3> DEFINE m == Mid(a[1], a[2])
               p == <<a[1], m - 1>>
               q == <<m + 1, a[2]>>
    <3>1. p \in D /\ q \in D /\ a[1] <= a[2]
      BY <2>3, SquareType
    <3>2. Size(p) < Size(a) /\ Size(q) < Size(a)
      BY <3>1, SizeIs
    <3>3. r[p] < r[a] /\ r[q] < r[a]
      <4> HIDE DEF D, p, q
      <4> QED BY <3>1, <3>2
    <3>4. f[p] = g[p] /\ f[q] = g[q]
      <4> HIDE DEF r, D, p, q
      <4> QED BY <3>1, <3>3
    <3>5. Built(t, s, f, a) = Built(t, s, g, a)
      BY <2>3, <3>4 DEF Built
    <3> QED BY <2>1, <3>5
  <2> QED BY <2>2, <2>3
<1>5. PICK f \in [D -> Links] : \A a \in D : f[a] = H[a][f]
  <2> HIDE DEF D, r, H
  <2>1. Guarded(D, Links, r, H)
    BY <1>1, <1>3, <1>4 DEF Guarded
  <2>2. Solved(D, Links, H)
    BY <2>1, RankRecursion
  <2> QED BY <2>2 DEF Solved
<1>6. Fix(f)
  <2>1. \A a \in D : f[a] = Built(t, s, f, a)
    <3> HIDE DEF D
    <3> QED BY <1>5
  <2> HIDE DEF D, H
  <2> QED BY <1>5, <2>1
<1>7. Fix(F)
  BY <1>6
<1>8. Balanced(t, s) = [tn |-> F[<<1, Len(s)>>], root |-> Top(s, 1, Len(s))]
  BY DEF Balanced, Built, Square, Top
<1>9. \A a \in D : F[a] = Built(t, s, F, a)
  <2> HIDE DEF F, D
  <2> QED BY <1>7
<1>10. F \in [D -> Links]
  <2> DEFINE S == {a \in D : F[a] \in Links}
  <2>1. ASSUME NEW a \in D, \A b \in D : r[b] < r[a] => b \in S PROVE a \in S
    <3>1. CASE a[1] > a[2]
      <4>1. Built(t, s, F, a) = t
        BY <3>1 DEF Built
      <4> HIDE DEF F, D
      <4> QED BY <1>9, <4>1
    <3>2. CASE ~(a[1] > a[2])
      <4> DEFINE m == Mid(a[1], a[2])
                 p == <<a[1], m - 1>>
                 q == <<m + 1, a[2]>>
                 h == [b \in D |-> IF b \in S THEN F[b] ELSE t]
      <4>1. p \in D /\ q \in D /\ a[1] <= a[2]
        BY <3>2, SquareType
      <4>2. Size(p) < Size(a) /\ Size(q) < Size(a)
        BY <4>1, SizeIs
      <4>3. r[p] < r[a] /\ r[q] < r[a]
        <5> HIDE DEF D, p, q, F
        <5> QED BY <4>1, <4>2
      <4>4. p \in S /\ q \in S
        <5> HIDE DEF r, D, p, q, F, S
        <5> QED BY <2>1, <4>1, <4>3
      <4>5. h \in [D -> Links] /\ h[p] = F[p] /\ h[q] = F[q]
        <5> HIDE DEF D, p, q, F
        <5> QED BY <4>1, <4>4
      <4> HIDE DEF h, F
      <4>6. Built(t, s, F, a) = Built(t, s, h, a)
        BY <3>2, <4>5 DEF Built
      <4>7. Built(t, s, h, a) \in Links
        BY <1>2, <4>5
      <4> HIDE DEF D
      <4> QED BY <1>9, <4>6, <4>7
    <3> QED BY <3>1, <3>2
  <2>2. \A a \in D : a \in S
    <3> HIDE DEF S, D, r
    <3> QED BY <1>1, <2>1, RankInduction
  <2>3. \A a \in D : F[a] \in Links
    BY <2>2
  <2>4. F = [a \in D |-> Built(t, s, F, a)]
    BY <1>7
  <2> HIDE DEF F, D, S
  <2>5. F = [a \in D |-> F[a]]
    BY <1>9, <2>4
  <2> QED BY <2>3, <2>5
<1> HIDE DEF F
<1> QED BY <1>8, <1>9, <1>10

\* A part of a sequence, divided at an element.
LEMMA SubSplit ==
  ASSUME NEW V, NEW s \in Seq(V), NEW i \in Nat, NEW m \in Nat, NEW j \in Nat,
         1 <= i, i <= m, m <= j, j <= Len(s)
  PROVE  /\ SubSeq(s, i, j) = Join(SubSeq(s, i, m - 1), s[m], SubSeq(s, m + 1, j))
         /\ SubSeq(s, i, j) \in Seq(V)
<1> DEFINE n == Len(s)
           S(k, l) == SubSeq(s, k, l)
<1>0. n \in Nat
  OBVIOUS
<1>1. /\ i \in 1 .. n /\ m \in i .. n /\ i \in 1 .. n + 1 /\ m \in i - 1 .. n /\ j \in m .. n
      /\ i \in Int /\ j \in Int
  <2> HIDE DEF n
  <2>1. j <= n
    BY DEF n
  <2> QED BY <1>0, <2>1
<1>2. S(i, m) = S(i, m - 1) \o <<s[m]>>
  BY <1>1, SubSeqRecursiveSecond
<1>3. S(i, m) \o S(m + 1, j) = S(i, j)
  BY <1>1, ConcatAdjacentSubSeq
<1>4. S(i, j) \in Seq(V)
  <2>1. \A k \in i .. j : s[k] \in V
    <3> TAKE k \in i .. j
    <3>1. k \in 1 .. n
      BY <1>1
    <3> QED BY <3>1
  <2> QED BY <1>1, <2>1, SubSeqProperties
<1> QED BY <1>2, <1>3, <1>4 DEF Join

\* The nodes of an interval.
Span(s, a) == {s[k] : k \in a[1] .. a[2]}

\* The intervals before and after the middle of an interval, and the nodes there.
Lower(a) == <<a[1], Mid(a[1], a[2]) - 1>>
Upper(a) == <<Mid(a[1], a[2]) + 1, a[2]>>
Middle(s, a) == s[Mid(a[1], a[2])]
TopOf(s, a) == Top(s, a[1], a[2])
Sub(s, a) == SubSeq(s, a[1], a[2])

\* An interval is empty, or a node between two smaller ones.
LEMMA Intervals ==
  ASSUME NEW s \in Seq(Node), Distinct(s), NEW a \in Square(s)
  PROVE  /\ Span(s, a) \subseteq Node /\ Size(a) \in Nat /\ Size(a) <= Len(s)
         /\ Sub(s, a) \in Seq(Node)
         /\ a[1] > a[2] => Span(s, a) = {} /\ TopOf(s, a) = Nil /\ Sub(s, a) = <<>>
         /\ a[1] <= a[2] =>
              /\ Lower(a) \in Square(s) /\ Upper(a) \in Square(s) /\ Middle(s, a) \in Node
              /\ Span(s, a) = Span(s, Lower(a)) \cup {Middle(s, a)} \cup Span(s, Upper(a))
              /\ Middle(s, a) \notin Span(s, Lower(a)) /\ Middle(s, a) \notin Span(s, Upper(a))
              /\ Span(s, Lower(a)) \cap Span(s, Upper(a)) = {}
              /\ TopOf(s, a) = Middle(s, a)
              /\ Sub(s, a) = Join(Sub(s, Lower(a)), Middle(s, a), Sub(s, Upper(a)))
              /\ Size(Lower(a)) < Size(a) /\ Size(Upper(a)) < Size(a)
              /\ 2 * Size(Lower(a)) <= Size(a) /\ 2 * Size(Upper(a)) <= Size(a)
              /\ 0 < Size(a)
<1> DEFINE i == a[1]
           j == a[2]
           m == Mid(i, j)
           n == Len(s)
<1>1. /\ i \in 1 .. n + 1 /\ j \in 0 .. n /\ n \in Nat /\ i \in Nat /\ j \in Nat
      /\ i <= j => /\ m \in 1 .. n /\ m \in i .. j /\ s[m] \in Node
                   /\ <<i, m - 1>> \in Square(s) /\ <<m + 1, j>> \in Square(s)
  BY SquareType
<1>2. /\ Size(a) \in Nat /\ Size(a) <= n
      /\ i <= j =>
              /\ Size(Lower(a)) < Size(a) /\ Size(Upper(a)) < Size(a)
              /\ 2 * Size(Lower(a)) <= Size(a) /\ 2 * Size(Upper(a)) <= Size(a)
              /\ 0 < Size(a)
  BY SizeIs DEF Lower, Upper
<1>3. \A k \in 1 .. n : s[k] \in Node
  OBVIOUS
<1>4. \A k, l \in 1 .. n : s[k] = s[l] => k = l
  BY DistinctIs
<1>5. /\ Lower(a) = <<i, m - 1>> /\ Upper(a) = <<m + 1, j>> /\ Middle(s, a) = s[m]
      /\ Lower(a)[1] = i /\ Lower(a)[2] = m - 1 /\ Upper(a)[1] = m + 1 /\ Upper(a)[2] = j
  BY DEF Lower, Upper, Middle
<1>6. /\ TopOf(s, a) = IF i > j THEN Nil ELSE s[m]
      /\ Sub(s, a) = SubSeq(s, i, j)
      /\ Sub(s, Lower(a)) = SubSeq(s, i, m - 1) /\ Sub(s, Upper(a)) = SubSeq(s, m + 1, j)
      /\ Span(s, a) = {s[k] : k \in i .. j}
      /\ Span(s, Lower(a)) = {s[k] : k \in i .. m - 1}
      /\ Span(s, Upper(a)) = {s[k] : k \in m + 1 .. j}
  BY <1>5 DEF TopOf, Top, Sub, Span
<1> HIDE DEF i, j, m, n
<1>7. Span(s, a) \subseteq Node
  <2>1. \A k \in i .. j : k \in 1 .. n
    BY <1>1
  <2> QED BY <1>3, <1>6, <2>1
<1>8. Sub(s, a) \in Seq(Node)
  <2>1. \A k \in i .. j : s[k] \in Node
    BY <1>1, <1>3
  <2>2. i \in Int /\ j \in Int
    BY <1>1
  <2> QED BY <1>6, <2>1, <2>2, SubSeqProperties
<1>9. ASSUME i > j PROVE Span(s, a) = {} /\ TopOf(s, a) = Nil /\ Sub(s, a) = <<>>
  <2>1. i .. j = {} /\ i \in Int /\ j \in Int /\ j < i
    BY <1>1, <1>9
  <2>2. SubSeq(s, i, j) = <<>>
    BY <2>1, SubSeqEmpty
  <2> QED BY <1>6, <1>9, <2>1, <2>2
<1>10. ASSUME i <= j
       PROVE  /\ Lower(a) \in Square(s) /\ Upper(a) \in Square(s) /\ Middle(s, a) \in Node
              /\ Span(s, a) = Span(s, Lower(a)) \cup {Middle(s, a)} \cup Span(s, Upper(a))
              /\ Middle(s, a) \notin Span(s, Lower(a)) /\ Middle(s, a) \notin Span(s, Upper(a))
              /\ Span(s, Lower(a)) \cap Span(s, Upper(a)) = {}
              /\ TopOf(s, a) = Middle(s, a)
              /\ Sub(s, a) = Join(Sub(s, Lower(a)), Middle(s, a), Sub(s, Upper(a)))
  <2>1. Lower(a) \in Square(s) /\ Upper(a) \in Square(s) /\ Middle(s, a) \in Node
    BY <1>1, <1>5, <1>10
  <2>2. i .. j = (i .. m - 1) \cup {m} \cup (m + 1 .. j)
    BY <1>1, <1>10
  <2>3. Span(s, a) = Span(s, Lower(a)) \cup {Middle(s, a)} \cup Span(s, Upper(a))
    BY <1>5, <1>6, <2>2
  <2>4. /\ m \in 1 .. n
        /\ \A k \in i .. m - 1 : k \in 1 .. n /\ k # m
        /\ \A k \in m + 1 .. j : k \in 1 .. n /\ k # m
        /\ \A k \in i .. m - 1, l \in m + 1 .. j : k # l
    BY <1>1, <1>10
  <2>5. /\ Middle(s, a) \notin Span(s, Lower(a)) /\ Middle(s, a) \notin Span(s, Upper(a))
        /\ Span(s, Lower(a)) \cap Span(s, Upper(a)) = {}
    <3>1. Middle(s, a) \notin Span(s, Lower(a))
      BY <1>4, <1>5, <1>6, <2>4
    <3>2. Middle(s, a) \notin Span(s, Upper(a))
      BY <1>4, <1>5, <1>6, <2>4
    <3>3. ASSUME NEW x \in Span(s, Lower(a)), x \in Span(s, Upper(a)) PROVE FALSE
      <4>1. PICK k \in i .. m - 1 : x = s[k]
        BY <1>6
      <4>2. PICK l \in m + 1 .. j : x = s[l]
        BY <1>6, <3>3
      <4> QED BY <1>4, <2>4, <4>1, <4>2
    <3> QED BY <3>1, <3>2, <3>3
  <2>6. TopOf(s, a) = Middle(s, a)
    BY <1>1, <1>5, <1>6, <1>10
  <2>7. SubSeq(s, i, j) = Join(SubSeq(s, i, m - 1), s[m], SubSeq(s, m + 1, j))
    <3>1. m \in Nat /\ 1 <= i /\ i <= m /\ m <= j /\ j <= Len(s)
      BY <1>1, <1>10 DEF n
    <3>2. i \in Nat /\ j \in Nat
      BY <1>1
    <3> HIDE DEF i, j, m
    <3> QED BY <3>1, <3>2, SubSplit
  <2> QED BY <1>5, <1>6, <2>1, <2>3, <2>5, <2>6, <2>7
<1>11. Size(a) <= Len(s)
  BY <1>2 DEF n
<1>12. i > j \/ i <= j
  BY <1>1
<1> QED BY <1>2, <1>7, <1>8, <1>9, <1>10, <1>11 DEF i, j

\* One level of the building.
LEMMA BuiltStep ==
  ASSUME NEW t \in Links, NEW s \in Seq(Node), NEW F, NEW a \in Square(s),
         Distinct(s), F[a] = Built(t, s, F, a)
  PROVE  /\ a[1] > a[2] => F[a] = t
         /\ a[1] <= a[2] =>
              /\ F[a][Middle(s, a)].key = t[Middle(s, a)].key
              /\ F[a][Middle(s, a)].left = TopOf(s, Lower(a))
              /\ F[a][Middle(s, a)].right = TopOf(s, Upper(a))
              /\ \A x \in Span(s, Lower(a)) : F[a][x] = F[Lower(a)][x]
              /\ \A x \in Node : x \notin Span(s, Lower(a)) /\ x # Middle(s, a)
                                 => F[a][x] = F[Upper(a)][x]
<1>1. a[1] > a[2] => F[a] = t
  BY DEF Built
<1> DEFINE Done ==
              /\ F[a][Middle(s, a)].key = t[Middle(s, a)].key
              /\ F[a][Middle(s, a)].left = TopOf(s, Lower(a))
              /\ F[a][Middle(s, a)].right = TopOf(s, Upper(a))
              /\ \A x \in Span(s, Lower(a)) : F[a][x] = F[Lower(a)][x]
              /\ \A x \in Node : x \notin Span(s, Lower(a)) /\ x # Middle(s, a)
                                 => F[a][x] = F[Upper(a)][x]
<1>2. ASSUME a[1] <= a[2] PROVE Done
  <2>1. /\ Lower(a) \in Square(s) /\ Upper(a) \in Square(s) /\ Middle(s, a) \in Node
        /\ Middle(s, a) \notin Span(s, Lower(a)) /\ Span(s, Lower(a)) \subseteq Node
    <3>1. /\ Lower(a) \in Square(s) /\ Upper(a) \in Square(s) /\ Middle(s, a) \in Node
          /\ Middle(s, a) \notin Span(s, Lower(a))
      BY <1>2, Intervals
    <3> QED BY <3>1, Intervals
  <2> DEFINE m == Mid(a[1], a[2])
             p == <<a[1], m - 1>>
             q == <<m + 1, a[2]>>
             lo == F[p]
             hi == F[q]
             l == Top(s, a[1], m - 1)
             g == Top(s, m + 1, a[2])
             w == s[m]
  <2>2. ~(a[1] > a[2])
    <3>1. a[1] \in Nat /\ a[2] \in Nat
      BY SquareType
    <3> QED BY <1>2, <3>1
  <2>3. F[a] = [x \in Node |->
                 IF x = w THEN [t[x] EXCEPT !.left = l, !.right = g]
                 ELSE IF \E k \in a[1]..m - 1 : x = s[k] THEN lo[x] ELSE hi[x]]
    BY <2>2 DEF Built
  <2>4. /\ Lower(a) = p /\ Upper(a) = q /\ Middle(s, a) = w
        /\ TopOf(s, Lower(a)) = l /\ TopOf(s, Upper(a)) = g
    BY DEF Lower, Upper, Middle, TopOf
  <2>5. \A x : x \in Span(s, Lower(a)) <=> \E k \in a[1]..m - 1 : x = s[k]
    BY DEF Span, Lower
  <2> HIDE DEF m, p, q, lo, hi, l, g, w
  <2>6. /\ F[a][w].key = t[w].key /\ F[a][w].left = l /\ F[a][w].right = g
    <3> DEFINE z == [t[w] EXCEPT !.left = l, !.right = g]
    <3>1. F[a][w] = z
      BY <2>1, <2>3, <2>4
    <3>2. t[w] \in [key : Key \cup {Nil}, left : Ref, right : Ref]
      BY <2>1, <2>4 DEF Links
    <3>3. z.key = t[w].key /\ z.left = l /\ z.right = g
      BY <3>2
    <3> QED BY <3>1, <3>3
  <2>7. \A x \in Span(s, Lower(a)) : F[a][x] = lo[x]
    <3> TAKE x \in Span(s, Lower(a))
    <3>1. x \in Node /\ x # w
      BY <2>1, <2>4
    <3>2. \E k \in a[1]..m - 1 : x = s[k]
      BY <2>5
    <3> QED BY <2>3, <3>1, <3>2
  <2>8. \A x \in Node : x \notin Span(s, Lower(a)) /\ x # w => F[a][x] = hi[x]
    BY <2>3, <2>5
  <2> QED BY <2>4, <2>6, <2>7, <2>8 DEF lo, hi
<1>3. a[1] <= a[2] => Done
  <2> HIDE DEF Done
  <2> QED BY <1>2
<1> QED BY <1>1, <1>3

\* The nodes C of u lead to each other only, and downwards by rc, which is at most B on them.
Ranked(u, C, B, rc) ==
  /\ rc \in [Node -> Nat] /\ \A x \in C : rc[x] <= B
  /\ \A x \in C : \A y \in {u[x].left, u[x].right} : y = Nil \/ (y \in C /\ rc[y] < rc[x])

\* The nodes of the interval are linked among themselves without a cycle, and the
\* others are left alone.
Placed(t, s, F, a) ==
  /\ \A x \in Node : F[a][x].key = t[x].key
  /\ \A x \in Node \ Span(s, a) : F[a][x] = t[x]
  /\ TopOf(s, a) \in Span(s, a) \cup {Nil}
  /\ \E rc : Ranked(F[a], Span(s, a), Size(a), rc)

\* Every interval is built on its own nodes.
LEMMA BuiltPlaced ==
  ASSUME NEW t \in Links, NEW s \in Seq(Node), NEW F, Distinct(s),
         \A a \in Square(s) : F[a] = Built(t, s, F, a)
  PROVE  \A a \in Square(s) : Placed(t, s, F, a)
<1> DEFINE D == Square(s)
           r == [a \in D |-> Size(a)]
           S == {a \in D : Placed(t, s, F, a)}
<1>1. r \in [D -> Nat]
  <2>1. \A a \in D : Size(a) \in Nat
    BY SizeIs
  <2> HIDE DEF D
  <2> QED BY <2>1
<1>2. ASSUME NEW a \in D, \A b \in D : r[b] < r[a] => b \in S PROVE Placed(t, s, F, a)
  <2>0. F[a] = Built(t, s, F, a) /\ a[1] \in Nat /\ a[2] \in Nat
    BY SquareType
  <2>1. CASE a[1] > a[2]
    <3>1. Span(s, a) = {} /\ TopOf(s, a) = Nil /\ F[a] = t
      BY <2>0, <2>1, Intervals, BuiltStep
    <3> DEFINE rc == [x \in Node |-> 0]
    <3>2. Ranked(F[a], Span(s, a), Size(a), rc)
      BY <3>1 DEF Ranked
    <3> HIDE DEF rc
    <3> QED BY <3>1, <3>2 DEF Placed
  <2>2. CASE ~(a[1] > a[2])
    <3> DEFINE p == Lower(a)
               q == Upper(a)
               w == Middle(s, a)
               P == Span(s, p)
               Q == Span(s, q)
               W == Span(s, a)
    <3>0. a[1] <= a[2]
      BY <2>0, <2>2
    <3>1. /\ p \in D /\ q \in D /\ w \in Node /\ W \subseteq Node
          /\ W = P \cup {w} \cup Q /\ w \notin P /\ w \notin Q /\ P \cap Q = {}
          /\ TopOf(s, a) = w
          /\ Size(p) < Size(a) /\ Size(q) < Size(a) /\ Size(a) \in Nat
      BY <3>0, Intervals
    <3>2. Size(p) \in Nat /\ Size(q) \in Nat
      BY <3>1, Intervals
    <3>3. /\ F[a][w].key = t[w].key
          /\ F[a][w].left = TopOf(s, p) /\ F[a][w].right = TopOf(s, q)
          /\ \A x \in P : F[a][x] = F[p][x]
          /\ \A x \in Node : x \notin P /\ x # w => F[a][x] = F[q][x]
      BY <2>0, <3>0, BuiltStep
    <3>4. p \in S /\ q \in S
      <4>1. r[p] < r[a] /\ r[q] < r[a]
        <5> HIDE DEF D, p, q
        <5> QED BY <3>1
      <4> HIDE DEF r, D, S, p, q
      <4> QED BY <1>2, <3>1, <4>1
    <3> HIDE DEF D, r, p, q, w, P, Q, W
    <3>5. Placed(t, s, F, p) /\ Placed(t, s, F, q)
      BY <3>4
    <3>6. /\ \A x \in Node : F[p][x].key = t[x].key /\ F[q][x].key = t[x].key
          /\ \A x \in Node \ P : F[p][x] = t[x]
          /\ \A x \in Node \ Q : F[q][x] = t[x]
          /\ TopOf(s, p) \in P \cup {Nil} /\ TopOf(s, q) \in Q \cup {Nil}
      BY <3>5 DEF Placed, P, Q
    <3>7. PICK rp : Ranked(F[p], P, Size(p), rp)
      BY <3>5 DEF Placed, P
    <3>8. PICK rq : Ranked(F[q], Q, Size(q), rq)
      BY <3>5 DEF Placed, Q
    <3> DEFINE rc == [x \in Node |-> IF x = w THEN Size(a) ELSE IF x \in P THEN rp[x] ELSE rq[x]]
    <3>9. /\ rc \in [Node -> Nat] /\ rc[w] = Size(a)
          /\ \A x \in P : x \in Node /\ rc[x] = rp[x] /\ rp[x] <= Size(p) /\ rp[x] \in Nat
          /\ \A x \in Q : x \in Node /\ rc[x] = rq[x] /\ rq[x] <= Size(q) /\ rq[x] \in Nat
      BY <3>1, <3>7, <3>8 DEF Ranked
    <3> HIDE DEF rc
    <3>10. \A x \in W : rc[x] <= Size(a)
      BY <3>1, <3>2, <3>9
    <3>11. ASSUME NEW x \in W, NEW y \in {F[a][x].left, F[a][x].right}
           PROVE  y = Nil \/ (y \in W /\ rc[y] < rc[x])
      <4>1. CASE x = w
        <5>1. y \in P \cup Q \cup {Nil}
          BY <3>3, <3>6, <4>1
        <5>2. \A z \in P \cup Q : rc[z] < Size(a)
          BY <3>1, <3>2, <3>9
        <5> QED BY <3>1, <3>9, <4>1, <5>1, <5>2
      <4>2. CASE x \in P
        <5>1. y \in {F[p][x].left, F[p][x].right}
          BY <3>3, <4>2
        <5>2. y = Nil \/ (y \in P /\ rp[y] < rp[x])
          BY <3>7, <4>2, <5>1 DEF Ranked
        <5> QED BY <3>1, <3>9, <4>2, <5>2
      <4>3. CASE x \in Q
        <5>0. x \in Node /\ x \notin P /\ x # w
          BY <3>1, <3>9, <4>3
        <5>1. y \in {F[q][x].left, F[q][x].right}
          BY <3>3, <5>0
        <5>2. y = Nil \/ (y \in Q /\ rq[y] < rq[x])
          BY <3>8, <4>3, <5>1 DEF Ranked
        <5> QED BY <3>1, <3>9, <4>3, <5>2
      <4> QED BY <3>1, <4>1, <4>2, <4>3
    <3>12. Ranked(F[a], W, Size(a), rc)
      BY <3>9, <3>10, <3>11 DEF Ranked
    <3>13. \A x \in Node : F[a][x].key = t[x].key
      <4> TAKE x \in Node
      <4>1. CASE x = w
        BY <3>3, <4>1
      <4>2. CASE x # w
        BY <3>3, <3>6, <4>2
      <4> QED BY <4>1, <4>2
    <3>14. \A x \in Node \ W : F[a][x] = t[x]
      BY <3>1, <3>3, <3>6
    <3> QED BY <3>1, <3>12, <3>13, <3>14 DEF Placed, W
  <2> QED BY <2>1, <2>2
<1>3. \A a \in D : a \in S
  <2>1. \A a \in D : (\A b \in D : r[b] < r[a] => b \in S) => a \in S
    <3> HIDE DEF r, D
    <3> QED BY <1>2
  <2> HIDE DEF D, r, S
  <2> QED BY <1>1, <2>1, RankInduction
<1> QED BY <1>3

\* A tree u has the links that F has within the interval.
Has(s, F, u, a) ==
  \A x \in Span(s, a) : u[x].left = F[a][x].left /\ u[x].right = F[a][x].right

\* The built tree has the nodes of the interval in their order, and no height to spare.
Filled(s, u, a) ==
  /\ InOrder(u, TopOf(s, a)) = Sub(s, a)
  /\ a[1] <= a[2] => Pow2[Height(u, TopOf(s, a)) - 1] <= Size(a)

\* Links like those of an interval give a low tree with its nodes in order.
LEMMA BuiltFilled ==
  ASSUME NEW t \in Links, NEW s \in Seq(Node), NEW F, Distinct(s),
         \A a \in Square(s) : F[a] = Built(t, s, F, a), NEW u \in Forest
  PROVE  \A a \in Square(s) : Has(s, F, u, a) => Filled(s, u, a)
<1> DEFINE D == Square(s)
           r == [a \in D |-> Size(a)]
           S == {a \in D : Has(s, F, u, a) => Filled(s, u, a)}
<1>1. r \in [D -> Nat]
  <2>1. \A a \in D : Size(a) \in Nat
    BY SizeIs
  <2> HIDE DEF D
  <2> QED BY <2>1
<1>2. ASSUME NEW a \in D, \A b \in D : r[b] < r[a] => b \in S, Has(s, F, u, a)
      PROVE  Filled(s, u, a)
  <2>0. F[a] = Built(t, s, F, a) /\ a[1] \in Nat /\ a[2] \in Nat
    BY SquareType
  <2>1. CASE a[1] > a[2]
    <3>1. TopOf(s, a) = Nil /\ Sub(s, a) = <<>> /\ ~(a[1] <= a[2])
      BY <2>0, <2>1, Intervals
    <3> QED BY <3>1, InOrderEq DEF Filled
  <2>2. CASE ~(a[1] > a[2])
    <3> DEFINE p == Lower(a)
               q == Upper(a)
               w == Middle(s, a)
               P == Span(s, p)
               Q == Span(s, q)
               W == Span(s, a)
               n == Size(a)
    <3>0. a[1] <= a[2]
      BY <2>0, <2>2
    <3>1. /\ p \in D /\ q \in D /\ w \in Node /\ W \subseteq Node
          /\ W = P \cup {w} \cup Q /\ w \notin P /\ w \notin Q /\ P \cap Q = {}
          /\ TopOf(s, a) = w
          /\ Size(p) < n /\ Size(q) < n /\ n \in Nat
          /\ 2 * Size(p) <= n /\ 2 * Size(q) <= n /\ 0 < n
          /\ Sub(s, a) = Join(Sub(s, p), w, Sub(s, q))
      BY <3>0, Intervals
    <3>2. /\ Size(p) \in Nat /\ Size(q) \in Nat
          /\ p[1] > p[2] => TopOf(s, p) = Nil
          /\ q[1] > q[2] => TopOf(s, q) = Nil
          /\ p[1] \in Nat /\ p[2] \in Nat /\ q[1] \in Nat /\ q[2] \in Nat
          /\ TopOf(s, p) \in Ref /\ TopOf(s, q) \in Ref
      <4>1. Size(p) \in Nat /\ Size(q) \in Nat
            /\ (p[1] > p[2] => TopOf(s, p) = Nil)
            /\ (q[1] > q[2] => TopOf(s, q) = Nil)
        BY <3>1, Intervals
      <4>2. p[1] \in Nat /\ p[2] \in Nat /\ TopOf(s, p) \in Ref
        <5>1. p \in Square(s)
          BY <3>1
        <5> HIDE DEF p
        <5> QED BY <5>1, SquareType DEF TopOf
      <4>3. q[1] \in Nat /\ q[2] \in Nat /\ TopOf(s, q) \in Ref
        <5>1. q \in Square(s)
          BY <3>1
        <5> HIDE DEF q
        <5> QED BY <5>1, SquareType DEF TopOf
      <4> QED BY <4>1, <4>2, <4>3
    <3>3. /\ F[a][w].left = TopOf(s, p) /\ F[a][w].right = TopOf(s, q)
          /\ \A x \in P : F[a][x] = F[p][x]
          /\ \A x \in Node : x \notin P /\ x # w => F[a][x] = F[q][x]
      BY <2>0, <3>0, BuiltStep
    <3>4. p \in S /\ q \in S
      <4>1. r[p] < r[a] /\ r[q] < r[a]
        <5> HIDE DEF D, p, q
        <5> QED BY <3>1
      <4> HIDE DEF r, D, S, p, q
      <4> QED BY <1>2, <3>1, <4>1
    <3> HIDE DEF D, r, p, q, w, P, Q, W, n
    <3>5. Has(s, F, u, p)
      BY <1>2, <3>1, <3>3 DEF Has, W, P
    <3>6. Has(s, F, u, q)
      <4>1. \A x \in Q : F[a][x] = F[q][x]
        BY <3>1, <3>3
      <4> QED BY <1>2, <3>1, <4>1 DEF Has, W, Q
    <3>7. Filled(s, u, p) /\ Filled(s, u, q)
      BY <3>4, <3>5, <3>6
    <3> DEFINE x == TopOf(s, p)
               y == TopOf(s, q)
               hx == Height(u, x)
               hy == Height(u, y)
               h == Height(u, w)
    <3>8. u[w].left = x /\ u[w].right = y
      BY <1>2, <3>1, <3>3 DEF Has, W
    <3>9. InOrder(u, w) = Join(InOrder(u, x), w, InOrder(u, y))
      BY <3>1, <3>8, InOrderJoin
    <3>10. InOrder(u, w) = Sub(s, a)
      BY <3>1, <3>7, <3>9 DEF Filled
    <3>11. /\ h \in Nat /\ hx \in Nat /\ hy \in Nat
           /\ h = 1 + hx \/ h = 1 + hy
      <4>1. /\ Height(u, w) \in Nat /\ Height(u, u[w].left) \in Nat
            /\ Height(u, u[w].right) \in Nat
            /\ \/ Height(u, w) = 1 + Height(u, u[w].left)
               \/ Height(u, w) = 1 + Height(u, u[w].right)
        BY <3>1, HeightNode
      <4> QED BY <3>8, <4>1
    <3>12. \A k \in Nat : k # 0 => Pow2[k] = 2 * Pow2[k - 1] /\ Pow2[k - 1] \in Nat
      <4> TAKE k \in Nat
      <4> HAVE k # 0
      <4>1. k - 1 \in Nat /\ k - 1 + 1 = k
        OBVIOUS
      <4> QED BY <4>1, Pow2Eq
    <3>13. Height(u, Nil) = 0
      BY HeightEq
    <3>14. Pow2[h - 1] <= n
      <4> DEFINE Fits(k, m) == k # 0 => Pow2[k - 1] <= m
      <4>1. Fits(hx, Size(p))
        <5>1. CASE p[1] > p[2]
          BY <3>2, <3>13, <5>1
        <5>2. CASE p[1] <= p[2]
          BY <3>7, <5>2 DEF Filled
        <5> QED BY <3>2, <5>1, <5>2
      <4>2. Fits(hy, Size(q))
        <5>1. CASE q[1] > q[2]
          BY <3>2, <3>13, <5>1
        <5>2. CASE q[1] <= q[2]
          BY <3>7, <5>2 DEF Filled
        <5> QED BY <3>2, <5>1, <5>2
      <4> HIDE DEF x, y, hx, hy, h
      <4>3. \A k, m \in Nat : Fits(k, m) /\ 2 * m <= n => Pow2[k] <= n
        <5> TAKE k, m \in Nat
        <5> HAVE Fits(k, m) /\ 2 * m <= n
        <5>1. CASE k = 0
          BY <3>1, <5>1, Pow2Eq
        <5>2. CASE k # 0
          BY <3>1, <3>12, <5>2
        <5> QED BY <5>1, <5>2
      <4>4. Pow2[hx] <= n /\ Pow2[hy] <= n
        BY <3>1, <3>2, <3>11, <4>1, <4>2, <4>3
      <4>5. h - 1 = hx \/ h - 1 = hy
        BY <3>11
      <4> QED BY <4>4, <4>5
    <3> QED BY <3>1, <3>10, <3>14 DEF Filled, n
  <2> QED BY <2>1, <2>2
<1>3. \A a \in D : a \in S
  <2>1. \A a \in D : (\A b \in D : r[b] < r[a] => b \in S) => a \in S
    <3> HIDE DEF r, D
    <3> QED BY <1>2
  <2> HIDE DEF D, r, S
  <2> QED BY <1>1, <2>1, RankInduction
<1> QED BY <1>3

\* The tree b holds the nodes of s, linked anew among themselves.
Relaid(t, s, b) ==
  /\ b.tn \in Links /\ b.root \in Range(s) \cup {Nil} /\ (0 < Len(s) => b.root \in Range(s))
  /\ \A x \in Node : b.tn[x].key = t[x].key
  /\ \A x \in Node \ Range(s) : b.tn[x] = t[x]
  /\ \E rc : Ranked(b.tn, Range(s), Len(s), rc)

\* Links like those of b on the nodes of s are the tree of s, and a low one.
Remakes(s, b) ==
  \A u \in Forest :
    (\A x \in Range(s) : u[x].left = b.tn[x].left /\ u[x].right = b.tn[x].right) =>
      /\ InOrder(u, b.root) = s
      /\ 0 < Len(s) => Pow2[Height(u, b.root) - 1] <= Len(s)

\* tn_build_tree makes a low tree of the nodes it is given, in their order.
LEMMA BalancedIs ==
  ASSUME NEW t \in Links, NEW s \in Seq(Node), Distinct(s)
  PROVE  Relaid(t, s, Balanced(t, s)) /\ Remakes(s, Balanced(t, s))
<1> DEFINE n == Len(s)
           a == <<1, n>>
           b == Balanced(t, s)
<1>1. PICK F \in [Square(s) -> Links] :
        /\ Balanced(t, s) = [tn |-> F[<<1, Len(s)>>], root |-> Top(s, 1, Len(s))]
        /\ \A c \in Square(s) : F[c] = Built(t, s, F, c)
  BY BalancedEq
<1>2. a \in Square(s) /\ n \in Nat /\ a[1] = 1 /\ a[2] = n
  BY DEF Square
<1>3. b.tn = F[a] /\ b.root = TopOf(s, a) /\ b.tn \in Links
  BY <1>1, <1>2 DEF TopOf
<1>4. Span(s, a) = Range(s)
  BY DEF Span, Range
<1>5. Size(a) = n
  BY <1>2 DEF Size
<1>6. Sub(s, a) = s
  <2>1. SubSeq(s, 1, Len(s)) = s
    OBVIOUS
  <2> QED BY <2>1 DEF Sub
<1>7. Placed(t, s, F, a)
  BY <1>1, <1>2, BuiltPlaced
<1>8. 0 < n => b.root \in Range(s)
  <2> HAVE 0 < n
  <2>1. a[1] <= a[2]
    BY <1>2
  <2>2. TopOf(s, a) = Middle(s, a) /\ Span(s, a) = Span(s, Lower(a)) \cup {Middle(s, a)} \cup Span(s, Upper(a))
    <3> HIDE DEF a
    <3> QED BY <1>2, <2>1, Intervals
  <2> QED BY <1>3, <1>4, <2>2
<1> HIDE DEF a, b
<1>9. Relaid(t, s, b)
  <2> HIDE DEF n
  <2>1. \E rc : Ranked(b.tn, Range(s), n, rc)
    BY <1>3, <1>4, <1>5, <1>7 DEF Placed
  <2> QED BY <1>3, <1>4, <1>7, <1>8, <2>1 DEF Placed, Relaid, n
<1>10. Remakes(s, b)
  <2>1. ASSUME NEW u \in Forest, \A x \in Range(s) : u[x].left = b.tn[x].left /\ u[x].right = b.tn[x].right
        PROVE  InOrder(u, b.root) = s /\ (0 < n => Pow2[Height(u, b.root) - 1] <= n)
    <3>1. Has(s, F, u, a)
      BY <1>3, <1>4, <2>1 DEF Has
    <3>2. Filled(s, u, a)
      BY <1>1, <1>2, <3>1, BuiltFilled
    <3>3. 0 < n => a[1] <= a[2]
      BY <1>2
    <3> QED BY <1>2, <1>3, <1>5, <1>6, <3>2, <3>3 DEF Filled
  <2> QED BY <2>1 DEF Remakes, n
<1> QED BY <1>9, <1>10 DEF b

\* The tree new has the nodes of the tree under x in their order, the part under n
\* made as low as can be.
Remade(t, x, new, ws, n) ==
  /\ new.tn \in Forest /\ new.root \in Ref
  /\ \A w \in Node : new.tn[w].key = t[w].key
  /\ InOrder(new.tn, new.root) = InOrder(t, x)
  /\ Height(new.tn, new.root) <= Height(t, x)
  /\ \E c \in Ref : /\ Replaced(t, new.tn, x, n, c)
                    /\ new.root = IF Len(ws) = 1 THEN c ELSE x
                    /\ Pow2[Height(new.tn, c) - 1] <= Len(InOrder(t, n))

\* tr_rebuild keeps the order of the nodes, and makes the subtree low.
LEMMA RebuiltRemade ==
  ASSUME NEW t \in Forest, NEW x \in Ref, NEW ws, NEW n, Leads(t, x, ws, n)
  PROVE  Remade(t, x, Rebuilt(t, x, n, Above(ws), Len(InOrder(t, n))), ws, n)
<1> DEFINE s   == InOrder(t, n)
           b   == Balanced(t, s)
           new == Relinked(b.tn, x, Above(ws), n, b.root)
<1>0. Rebuilt(t, x, n, Above(ws), Len(InOrder(t, n))) = new
  BY DEF Rebuilt
<1>1. /\ x \in Node /\ n \in Node /\ n \in Within(t, x) /\ t \in Links
      /\ Within(t, n) \subseteq Within(t, x) /\ Within(t, x) \subseteq Node
      /\ Distinct(InOrder(t, n)) /\ n \in Ref /\ n \in Within(t, n) /\ Within(t, n) \subseteq Node
  BY LeadsType, WithinEq
<1>2. Chain(t, ws) /\ ws[1] = x /\ ws[Len(ws)] = n /\ Distinct(InOrder(t, x))
  BY DEF Leads
<1>3. s \in Seq(Node) /\ Distinct(s) /\ Range(s) = Within(t, n) /\ 0 < Len(s)
  <2>1. s \in Seq(Node) /\ Range(s) = Within(t, n)
    BY <1>1, InOrderEq DEF Within
  <2>2. s # <<>>
    <3> SUFFICES ASSUME s = <<>> PROVE FALSE
      OBVIOUS
    <3>1. Range(s) = {}
      BY DEF Range
    <3> QED BY <1>1, <2>1, <3>1
  <2>3. 0 < Len(s)
    <3> HIDE DEF s
    <3> QED BY <2>1, <2>2
  <2> QED BY <1>1, <2>1, <2>3
<1> HIDE DEF s
<1>4. Relaid(t, s, b) /\ Remakes(s, b)
  BY <1>1, <1>3, BalancedIs
<1> HIDE DEF b
<1>5. /\ b.tn \in Links /\ b.root \in Ref /\ b.root \in Within(t, n)
      /\ \A w \in Node : b.tn[w].key = t[w].key
      /\ \A w \in Node \ Within(t, n) : b.tn[w] = t[w]
  BY <1>1, <1>3, <1>4 DEF Relaid, Ref
<1>6. \A w \in Within(t, x) \ Within(t, n) :
        b.tn[w].left = t[w].left /\ b.tn[w].right = t[w].right
  BY <1>1, <1>5
<1>7. /\ new.tn \in Links
      /\ new.root = IF Len(ws) = 1 THEN b.root ELSE x
      /\ \A w \in Node : /\ new.tn[w].key = b.tn[w].key
                         /\ w # Above(ws) => new.tn[w] = b.tn[w]
                         /\ {new.tn[w].left, new.tn[w].right}
                              \subseteq {b.tn[w].left, b.tn[w].right, b.root}
  <2> DEFINE v == b.tn
             c == b.root
  <2>1. v \in Links /\ c \in Ref /\ \A w \in Within(t, x) \ Within(t, ws[Len(ws)]) :
           v[w].left = t[w].left /\ v[w].right = t[w].right
    BY <1>2, <1>5, <1>6
  <2> HIDE DEF v, c
  <2>2. LET z == Relinked(v, x, Above(ws), ws[Len(ws)], c)
         IN  /\ z.tn \in Links
             /\ z.root = IF Len(ws) = 1 THEN c ELSE x
             /\ \A w \in Node : /\ z.tn[w].key = v[w].key
                                /\ w # Above(ws) => z.tn[w] = v[w]
                                /\ {z.tn[w].left, z.tn[w].right}
                                     \subseteq {v[w].left, v[w].right, c}
    BY <1>2, <2>1, RelinkedReplaces
  <2> QED BY <1>2, <2>2 DEF v, c
<1>8. Above(ws) \notin Within(t, n)
  BY <1>1, <1>2, AboveOutside, NilAssumption DEF Ref
<1> HIDE DEF new
<1>9. new.tn \in Forest
  <2>1. PICK rc : Ranked(b.tn, Range(s), Len(s), rc)
    BY <1>4 DEF Relaid
  <2> DEFINE C  == Within(t, n)
             rd == [z \in C |-> rc[z]]
             B  == Len(s)
  <2>2. B \in Nat /\ rc \in [Node -> Nat] /\ C \in SUBSET Node /\ \A z \in C : rc[z] <= B
    BY <1>1, <1>3, <2>1 DEF Ranked
  <2>3. rd \in [C -> 0 .. B]
    <3> HIDE DEF B, C
    <3>1. \A z \in C : rc[z] \in 0 .. B
      BY <2>2
    <3> QED BY <3>1
  <2>4. \A z \in C : \A y \in {new.tn[z].left, new.tn[z].right} : y = Nil \/ (y \in C /\ rd[y] < rd[z])
    <3> TAKE z \in C
    <3>1. new.tn[z] = b.tn[z]
      BY <1>1, <1>7, <1>8
    <3>2. \A y \in {b.tn[z].left, b.tn[z].right} : y = Nil \/ (y \in C /\ rc[y] < rc[z])
      BY <1>3, <2>1 DEF Ranked
    <3> QED BY <3>1, <3>2
  <2>5. \A z \in Node \ C : \A y \in {new.tn[z].left, new.tn[z].right} :
          y = Nil \/ y \in C \/ y \in {t[z].left, t[z].right}
    <3> TAKE z \in Node \ C
    <3>1. {new.tn[z].left, new.tn[z].right} \subseteq {b.tn[z].left, b.tn[z].right, b.root}
      BY <1>7
    <3>2. b.tn[z] = t[z]
      BY <1>5
    <3> QED BY <1>5, <3>1, <3>2
  <2> HIDE DEF C, rd, B
  <2>6. Graft(t, new.tn, C, B, rd)
    BY <2>2, <2>3, <2>4, <2>5 DEF Graft
  <2> QED BY <1>7, <2>6, Grafted
<1> DEFINE u == new.tn
           c == b.root
           h == Height(u, c)
<1>10. InOrder(u, c) = s /\ Pow2[h - 1] <= Len(s)
  <2>1. \A z \in Range(s) : u[z].left = b.tn[z].left /\ u[z].right = b.tn[z].right
    <3> TAKE z \in Range(s)
    <3>1. new.tn[z] = b.tn[z]
      BY <1>1, <1>3, <1>7, <1>8
    <3> QED BY <3>1
  <2> QED BY <1>3, <1>4, <1>9, <2>1 DEF Remakes
<1>11. /\ new.root \in Ref
       /\ \E pre, post \in Seq(Node) :
            /\ InOrder(t, x) = Wrap(pre, InOrder(t, n), post)
            /\ InOrder(u, new.root) = Wrap(pre, InOrder(u, c), post)
            /\ \A M \in Nat : /\ Height(t, x) <= M
                              /\ Len(ws) - 1 + h <= M
                              => Height(u, new.root) <= M
  <2> DEFINE v == b.tn
  <2>1. v \in Links /\ c \in Ref /\ (\A w \in Within(t, x) \ Within(t, ws[Len(ws)]) :
           v[w].left = t[w].left /\ v[w].right = t[w].right)
        /\ new = Relinked(v, x, Above(ws), ws[Len(ws)], c) /\ new.tn \in Forest
    BY <1>2, <1>5, <1>6, <1>9 DEF new
  <2> HIDE DEF v, c, u
  <2>2. /\ new.root \in Ref
        /\ \E pre, post \in Seq(Node) :
            /\ InOrder(t, x) = Wrap(pre, InOrder(t, ws[Len(ws)]), post)
            /\ InOrder(new.tn, new.root) = Wrap(pre, InOrder(new.tn, c), post)
            /\ NextTo(t, ws, 1, pre, post)
            /\ \A M \in Nat : /\ Height(t, x) <= M
                              /\ Len(ws) - 1 + Height(new.tn, c) <= M
                              => Height(new.tn, new.root) <= M
    BY <1>2, <2>1, Surgery
  <2> QED BY <1>2, <2>2 DEF u
<1>12. h \in Nat
  BY <1>5, <1>9, HeightEq
<1>13. \A w \in Node : new.tn[w].key = t[w].key
  BY <1>5, <1>7
<1>14. Height(u, new.root) <= Height(t, x)
  <2>1. Len(s) + 1 <= Pow2[Height(t, n)] /\ Height(t, n) \in Nat /\ Len(s) \in Nat
    BY <1>1, <1>3, HeightBound DEF s
  <2>2. h <= Height(t, n)
    <3> SUFFICES ASSUME ~(h <= Height(t, n)) PROVE FALSE
      OBVIOUS
    <3>1. h - 1 \in Nat /\ Height(t, n) <= h - 1
      <4> HIDE DEF h
      <4> QED BY <1>12, <2>1
    <3>2. Pow2[Height(t, n)] <= Pow2[h - 1] /\ Pow2[h - 1] \in Nat /\ Pow2[Height(t, n)] \in Nat
      <4> HIDE DEF h
      <4> QED BY <2>1, <3>1, Pow2Grows, Pow2Eq
    <3> HIDE DEF h
    <3> QED BY <1>10, <2>1, <3>2
  <2>3. Height(t, n) + (Len(ws) - 1) <= Height(t, x) /\ Height(t, x) \in Nat /\ Len(ws) \in Nat
    BY <1>1, <1>2, ChainHeight, ChainType, HeightEq
  <2>4. Len(ws) - 1 + h <= Height(t, x)
    <3> HIDE DEF h
    <3> QED BY <1>12, <2>1, <2>2, <2>3
  <2> QED BY <1>11, <2>3, <2>4
<1>15. InOrder(u, new.root) = InOrder(t, x)
  BY <1>10, <1>11 DEF s
<1>16. Replaced(t, new.tn, x, n, c)
  <2> DEFINE v == b.tn
  <2>1. v \in Links /\ c \in Ref /\ (\A w \in Within(t, x) \ Within(t, ws[Len(ws)]) :
           v[w].left = t[w].left /\ v[w].right = t[w].right)
    BY <1>2, <1>5, <1>6
  <2> HIDE DEF v, c, u
  <2>2. Replaced(t, Relinked(v, x, Above(ws), ws[Len(ws)], c).tn, x, ws[Len(ws)], c)
    BY <1>2, <2>1, RelinkedReplaces
  <2> QED BY <1>2, <2>2 DEF new, v, c
<1>17. Remade(t, x, new, ws, n)
  <2>1. \E z \in Ref : /\ Replaced(t, new.tn, x, n, z)
                       /\ new.root = IF Len(ws) = 1 THEN z ELSE x
                       /\ Pow2[Height(new.tn, z) - 1] <= Len(InOrder(t, n))
    BY <1>5, <1>7, <1>10, <1>16 DEF s
  <2> HIDE DEF c, h
  <2> QED BY <1>9, <1>11, <1>13, <1>14, <1>15, <2>1 DEF Remade
<1> QED BY <1>0, <1>17

\* A whole tree built anew is as low as can be.
LEMMA WholeRemade ==
  ASSUME NEW t \in Forest, NEW x \in Ref, Distinct(InOrder(t, x))
  PROVE  LET new == Rebuilt(t, x, x, Nil, Len(InOrder(t, x)))
         IN  /\ new.tn \in Forest /\ new.root \in Ref
             /\ \A w \in Node : new.tn[w].key = t[w].key
             /\ InOrder(new.tn, new.root) = InOrder(t, x)
             /\ new.root # Nil => Pow2[Height(new.tn, new.root) - 1] <= Len(InOrder(t, x))
<1> DEFINE s   == InOrder(t, x)
           new == Rebuilt(t, x, x, Nil, Len(s))
<1>1. CASE x = Nil
  <2> DEFINE b == Balanced(t, s)
  <2>1. s = <<>> /\ s \in Seq(Node) /\ Distinct(s) /\ t \in Links /\ Range(s) = {}
    BY <1>1, InOrderEq DEF Forest, Range
  <2>2. Relaid(t, s, b)
    <3> HIDE DEF s
    <3> QED BY <2>1, BalancedIs
  <2>3. new = [tn |-> b.tn, root |-> b.root]
    BY DEF Rebuilt, Relinked
  <2> HIDE DEF s, b
  <2>4. b.root = Nil /\ b.tn \in Links /\ \A w \in Node : b.tn[w] = t[w]
    BY <2>1, <2>2 DEF Relaid
  <2>5. b.tn = t
    BY <2>1, <2>4 DEF Links
  <2> HIDE DEF new
  <2>6. new.tn = t /\ new.root = Nil
    BY <2>3, <2>4, <2>5
  <2> QED BY <1>1, <2>6 DEF Ref, new, s
<1>2. CASE x # Nil
  <2> DEFINE ws == <<x>>
  <2>1. x \in Node
    BY <1>2 DEF Ref
  <2>2. ws \in Seq(Node) /\ Len(ws) = 1 /\ ws[1] = x
    BY <2>1
  <2> HIDE DEF ws
  <2>3. Leads(t, x, ws, x) /\ Above(ws) = Nil
    BY <2>2 DEF Leads, Chain, Above
  <2>4. Remade(t, x, new, ws, x)
    <3>1. Remade(t, x, Rebuilt(t, x, x, Above(ws), Len(InOrder(t, x))), ws, x)
      BY <2>3, RebuiltRemade
    <3> QED BY <2>3, <3>1
  <2> HIDE DEF new, s
  <2>5. Pow2[Height(new.tn, new.root) - 1] <= Len(InOrder(t, x))
    BY <2>2, <2>4 DEF Remade
  <2> QED BY <2>4, <2>5 DEF Remade, new, s
<1> QED BY <1>1, <1>2

-----------------------------------------------------------------------------
(* Descents: how a way is found.                                           *)

\* D says at each node to which child, if any, a descent goes on.
Steers(t, D) ==
  D \in [Node -> Ref] /\ \A x \in Node : D[x] \in {t[x].left, t[x].right, Nil}

\* A descent that goes from node to child is defined.
LEMMA DescentExists ==
  ASSUME NEW t \in Forest, NEW D, Steers(t, D)
  PROVE  \E f \in [Ref -> Seq(Node)] : f[Nil] = <<>> /\ \A x \in Node : f[x] = <<x>> \o f[D[x]]
<1> DEFINE V == Seq(Node)
           G == [x \in Node |-> [a \in V |-> [c \in V |->
                  <<x>> \o (IF D[x] = Nil THEN <<>> ELSE IF D[x] = t[x].left THEN a ELSE c)]]]
<1>1. <<>> \in V
  OBVIOUS
<1>2. G \in [Node -> [V -> [V -> V]]]
  <2>1. \A x \in Node : \A a, c \in V :
          <<x>> \o (IF D[x] = Nil THEN <<>> ELSE IF D[x] = t[x].left THEN a ELSE c) \in V
    OBVIOUS
  <2> HIDE DEF V
  <2> QED BY <2>1
<1>3. PICK f \in [Ref -> V] : f[Nil] = <<>>
        /\ \A x \in Node : f[x] = G[x][f[t[x].left]][f[t[x].right]]
  <2> HIDE DEF G, V
  <2>1. \A b \in V : \A H \in [Node -> [V -> [V -> V]]] :
          \E f \in [Ref -> V] : /\ f[Nil] = b
            /\ \A x \in Node : f[x] = H[x][f[t[x].left]][f[t[x].right]]
    BY TreeRecursion
  <2> QED BY <1>1, <1>2, <2>1
<1>4. ASSUME NEW x \in Node PROVE f[x] = <<x>> \o f[D[x]]
  <2>1. t \in Links /\ D[x] \in {t[x].left, t[x].right, Nil}
    BY DEF Forest, Steers
  <2>2. f[t[x].left] \in V /\ f[t[x].right] \in V
    <3> HIDE DEF V
    <3> QED BY <2>1, LinksType
  <2>3. f[x] = <<x>> \o (IF D[x] = Nil THEN <<>> ELSE IF D[x] = t[x].left
                          THEN f[t[x].left] ELSE f[t[x].right])
    <3> HIDE DEF V
    <3> QED BY <1>3, <2>2
  <2> HIDE DEF V, G
  <2> QED BY <1>3, <2>1, <2>3
<1> HIDE DEF G, V
<1>5. f[Nil] = <<>> /\ \A x \in Node : f[x] = <<x>> \o f[D[x]]
  BY <1>3, <1>4
<1> QED BY <1>5 DEF V

\* The descent from x goes through ws.
Path(t, D, x, ws) ==
  /\ Chain(t, ws) /\ ws[1] = x
  /\ \A i \in 1 .. Len(ws) - 1 : ws[i + 1] = D[ws[i]]
  /\ D[ws[Len(ws)]] = Nil

\* A descent is a way, which goes on as it is steered and ends where it is not.
LEMMA DescentIs ==
  ASSUME NEW t \in Forest, NEW D, Steers(t, D), NEW f, f[Nil] = <<>>,
         \A x \in Node : f[x] = <<x>> \o f[D[x]]
  PROVE  \A x \in Node : Path(t, D, x, f[x])
<1> DEFINE S == {z \in Ref : z = Nil \/ Path(t, D, z, f[z])}
<1>1. Nil \in S
  BY DEF Ref
<1>2. ASSUME NEW z \in Node, t[z].left \in S, t[z].right \in S PROVE z \in S
  <2> DEFINE u == <<z>>
             l == D[z]
             vs == f[l]
             sp == u \o vs
  <2>1. f[z] = sp /\ l \in S /\ l \in Ref /\ z \in Ref /\ l \in {t[z].left, t[z].right, Nil}
    BY <1>1, <1>2 DEF Steers, Ref
  <2>2. u \in Seq(Node) /\ Len(u) = 1 /\ u[1] = z /\ Chain(t, u)
    <3>1. u \in Seq(Node) /\ Len(u) = 1 /\ u[1] = z
      OBVIOUS
    <3> HIDE DEF u
    <3> QED BY <3>1 DEF Chain
  <2>3. CASE l = Nil
    <3>1. sp = u
      <4>1. vs = <<>>
        BY <2>3
      <4> HIDE DEF u, vs
      <4> QED BY <2>2, <4>1, ConcatEmptySeq
    <3> HIDE DEF u, sp, S
    <3>2. Path(t, D, z, u)
      BY <2>2, <2>3 DEF Path
    <3> QED BY <2>1, <3>1, <3>2 DEF S
  <2>4. CASE l # Nil
    <3>1. Path(t, D, l, vs)
      <4> HIDE DEF vs, l
      <4> QED BY <2>1, <2>4 DEF vs
    <3> HIDE DEF u, vs, l, S
    <3>2. Chain(t, vs) /\ vs[1] \in {t[u[Len(u)]].left, t[u[Len(u)]].right}
      BY <2>1, <2>2, <2>4, <3>1 DEF Path
    <3>3. Continued(t, u, vs)
      BY <2>2, <3>2, ChainConcat
    <3>4. /\ Chain(t, sp) /\ Len(sp) = 1 + Len(vs) /\ Len(vs) \in Nat /\ 0 < Len(vs)
          /\ sp[1] = z /\ sp[Len(sp)] = vs[Len(vs)]
          /\ \A i \in 1 .. Len(vs) : sp[1 + i] = vs[i]
      <4>1. Len(vs) \in Nat /\ 0 < Len(vs)
        BY <3>2, ChainType DEF Chain
      <4> QED BY <2>2, <3>3, <4>1 DEF Continued
    <3> HIDE DEF sp
    <3>5. \A i \in 1 .. Len(sp) - 1 : sp[i + 1] = D[sp[i]]
      <4> TAKE i \in 1 .. Len(sp) - 1
      <4>1. CASE i = 1
        <5>1. sp[1 + 1] = vs[1]
          BY <3>4
        <5>2. vs[1] = D[z]
          BY <3>1 DEF Path, l
        <5> QED BY <3>4, <4>1, <5>1, <5>2
      <4>2. CASE i # 1
        <5>1. i - 1 \in 1 .. Len(vs) - 1 /\ i - 1 \in 1 .. Len(vs) /\ i \in 1 .. Len(vs)
              /\ 1 + (i - 1) = i /\ 1 + i = i + 1 /\ (i - 1) + 1 = i
          BY <3>4, <4>2
        <5>2. sp[i] = vs[i - 1] /\ sp[i + 1] = vs[i]
          <6>1. sp[1 + (i - 1)] = vs[i - 1]
            BY <3>4, <5>1
          <6>2. sp[1 + i] = vs[i]
            BY <3>4, <5>1
          <6> QED BY <5>1, <6>1, <6>2
        <5>3. vs[(i - 1) + 1] = D[vs[i - 1]]
          BY <3>1, <5>1 DEF Path
        <5> QED BY <5>1, <5>2, <5>3
      <4> QED BY <4>1, <4>2
    <3>6. Path(t, D, z, sp)
      BY <3>1, <3>4, <3>5 DEF Path
    <3> QED BY <2>1, <3>6 DEF S
  <2> QED BY <2>3, <2>4
<1>3. \A x \in Ref : x \in S
  <2> HIDE DEF S
  <2> QED BY <1>1, <1>2, TreeInduction
<1> QED BY <1>3, NilAssumption DEF Ref

\* Where tr_insert goes on from each node.
Steer(k, dup) ==
  [x \in Node |-> IF GoesLeft(k, x) THEN tn[x].left
                  ELSE IF k = tn[x].key /\ ~dup THEN Nil ELSE tn[x].right]

\* The way of tr_insert and of a lookup is a descent.
LEMMA WayEq ==
  ASSUME tn \in Forest, NEW k, NEW dup
  PROVE  /\ Steers(tn, Steer(k, dup))
         /\ root = Nil => Way(k, dup) = <<>>
         /\ root \in Node => Path(tn, Steer(k, dup), root, Way(k, dup))
<1> DEFINE D == Steer(k, dup)
           Fix(f) == f = [x \in Ref |-> IF x = Nil THEN <<>>
                           ELSE <<x>> \o (IF GoesLeft(k, x) THEN f[tn[x].left]
                                          ELSE IF k = tn[x].key /\ ~dup THEN <<>>
                                          ELSE f[tn[x].right])]
<1>1. Steers(tn, D)
  <2>1. \A x \in Node : tn[x].left \in Ref /\ tn[x].right \in Ref
    BY LinksType DEF Forest
  <2> QED BY <2>1 DEF Steers, Steer, Ref
<1>2. \A x \in Node : D[x] = IF GoesLeft(k, x) THEN tn[x].left
                             ELSE IF k = tn[x].key /\ ~dup THEN Nil ELSE tn[x].right
  BY DEF Steer
<1> HIDE DEF D
<1>3. PICK f \in [Ref -> Seq(Node)] : f[Nil] = <<>> /\ \A x \in Node : f[x] = <<x>> \o f[D[x]]
  BY <1>1, DescentExists
<1>4. Fix(f)
  <2>1. \A x \in Ref : f[x] = IF x = Nil THEN <<>>
                           ELSE <<x>> \o (IF GoesLeft(k, x) THEN f[tn[x].left]
                                          ELSE IF k = tn[x].key /\ ~dup THEN <<>>
                                          ELSE f[tn[x].right])
    <3> TAKE x \in Ref
    <3>1. CASE x = Nil
      BY <1>3, <3>1
    <3>2. CASE x # Nil
      <4>1. x \in Node
        BY <3>2 DEF Ref
      <4>2. f[D[x]] = IF GoesLeft(k, x) THEN f[tn[x].left]
                      ELSE IF k = tn[x].key /\ ~dup THEN <<>> ELSE f[tn[x].right]
        BY <1>2, <1>3, <4>1
      <4> QED BY <1>3, <3>2, <4>1, <4>2
    <3> QED BY <3>1, <3>2
  <2> QED BY <1>3, <2>1
<1> DEFINE W == CHOOSE g : Fix(g)
<1>5. Fix(W)
  BY <1>4
<1>6. Way(k, dup) = W[root]
  BY DEF Way
<1> HIDE DEF W
<1>7. W[Nil] = <<>> /\ \A x \in Node : W[x] = <<x>> \o W[D[x]]
  <2>1. \A x \in Ref : W[x] = IF x = Nil THEN <<>>
                           ELSE <<x>> \o (IF GoesLeft(k, x) THEN W[tn[x].left]
                                          ELSE IF k = tn[x].key /\ ~dup THEN <<>>
                                          ELSE W[tn[x].right])
    BY <1>5
  <2>2. W[Nil] = <<>>
    BY <2>1 DEF Ref
  <2>3. ASSUME NEW x \in Node PROVE W[x] = <<x>> \o W[D[x]]
    <3>1. x \in Ref /\ x # Nil
      BY NilAssumption DEF Ref
    <3>2. W[x] = <<x>> \o (IF GoesLeft(k, x) THEN W[tn[x].left]
                           ELSE IF k = tn[x].key /\ ~dup THEN <<>> ELSE W[tn[x].right])
      BY <2>1, <3>1
    <3> HIDE DEF Fix
    <3> QED BY <1>2, <2>2, <3>2
  <2> QED BY <2>2, <2>3
<1> HIDE DEF Fix
<1>8. \A x \in Node : Path(tn, D, x, W[x])
  BY <1>1, <1>7, DescentIs
<1> QED BY <1>1, <1>6, <1>7, <1>8 DEF D

\* From a root, it is a way.
LEMMA WayIs ==
  ASSUME tn \in Forest, root \in Node, NEW k, NEW dup
  PROVE  Path(tn, Steer(k, dup), root, Way(k, dup)) /\ Steers(tn, Steer(k, dup))
  BY WayEq

-----------------------------------------------------------------------------
(* A leaf hung under a node.                                               *)

\* A sequence that repeats nothing, with a new element.
LEMMA MoreOne ==
  ASSUME NEW V, NEW a \in Seq(V), NEW n \in V, NEW b \in Seq(V), Distinct(a \o b), n \notin Range(a \o b)
  PROVE  Distinct(Join(a, n, b)) /\ Len(Join(a, n, b)) = 1 + Len(a \o b)
<1>1. Distinct(a) /\ Distinct(b) /\ Range(a) \cap Range(b) = {}
  BY DistinctConcat
<1>2. n \notin Range(a) /\ n \notin Range(b)
  <2>1. /\ a \o b \in Seq(V) /\ Len(a \o b) = Len(a) + Len(b)
        /\ \A i \in 1 .. Len(a) + Len(b) : (a \o b)[i] = IF i <= Len(a) THEN a[i] ELSE b[i - Len(a)]
    BY ConcatProperties
  <2>2. Range(a) \subseteq Range(a \o b)
    <3> SUFFICES ASSUME NEW i \in 1 .. Len(a) PROVE a[i] \in Range(a \o b)
      BY DEF Range
    <3>1. i \in 1 .. Len(a) + Len(b) /\ i <= Len(a)
      OBVIOUS
    <3> QED BY <2>1, <3>1 DEF Range
  <2>3. Range(b) \subseteq Range(a \o b)
    <3> SUFFICES ASSUME NEW i \in 1 .. Len(b) PROVE b[i] \in Range(a \o b)
      BY DEF Range
    <3>1. i + Len(a) \in 1 .. Len(a) + Len(b) /\ ~(i + Len(a) <= Len(a)) /\ i + Len(a) - Len(a) = i
      OBVIOUS
    <3>2. (a \o b)[i + Len(a)] = b[i]
      BY <2>1, <3>1
    <3> QED BY <2>1, <3>1, <3>2 DEF Range
  <2> QED BY <2>2, <2>3
<1>3. Len(Join(a, n, b)) = 1 + Len(a \o b)
  BY DEF Join
<1> QED BY <1>1, <1>2, <1>3, DistinctMiddle DEF Join

\* u is t with the leaf n hung under at, on the left or on the right.
Hung(t, u, at, n, toLeft) ==
  /\ u \in Links /\ at \in Node /\ n \in Node /\ at # n
  /\ u[n].left = Nil /\ u[n].right = Nil
  /\ \A w \in Node : w # n => u[w].key = t[w].key
  /\ \A w \in Node : w # n /\ w # at => u[w] = t[w]
  /\ toLeft => t[at].left = Nil /\ u[at].left = n /\ u[at].right = t[at].right
  /\ ~toLeft => t[at].right = Nil /\ u[at].right = n /\ u[at].left = t[at].left

\* n has come between two nodes next to each other in the tree under x.
Grown(t, u, x, n) ==
  /\ Distinct(InOrder(u, x))
  /\ \E a, b \in Seq(Node) : InOrder(t, x) = a \o b /\ InOrder(u, x) = Join(a, n, b)
  /\ Within(u, x) = Within(t, x) \cup {n}
  /\ Len(InOrder(u, x)) = 1 + Len(InOrder(t, x))

\* Hanging a leaf makes no cycle.
LEMMA HungForest ==
  ASSUME NEW t \in Forest, NEW u, NEW at, NEW n, NEW toLeft \in BOOLEAN, Hung(t, u, at, n, toLeft)
  PROVE  u \in Forest
<1> DEFINE C  == {n}
           rc == [x \in C |-> 0]
<1>1. C \in SUBSET Node /\ 0 \in Nat /\ rc \in [C -> 0 .. 0]
  BY DEF Hung
<1>2. \A x \in C : \A y \in {u[x].left, u[x].right} : y = Nil
  BY DEF Hung
<1>3. \A x \in Node \ C : \A y \in {u[x].left, u[x].right} :
        y = Nil \/ y \in C \/ y \in {t[x].left, t[x].right}
  <2> TAKE x \in Node \ C
  <2>1. CASE x = at
    BY <2>1 DEF Hung
  <2>2. CASE x # at
    BY <2>2 DEF Hung
  <2> QED BY <2>1, <2>2
<1> HIDE DEF C, rc
<1>4. Graft(t, u, C, 0, rc)
  BY <1>1, <1>2, <1>3 DEF Graft
<1> QED BY <1>4, Grafted DEF Hung

\* Where a leaf hangs, it is next to the node it hangs from.
LEMMA HungAt ==
  ASSUME NEW t \in Forest, NEW u, NEW at, NEW n, NEW toLeft \in BOOLEAN, Hung(t, u, at, n, toLeft),
         n \notin Within(t, at)
  PROVE  LET s == InOrder(t, at)
         IN  /\ InOrder(u, at) = IF toLeft THEN Join(<<>>, n, s) ELSE Join(s, n, <<>>)
             /\ s \in Seq(Node)
             /\ Height(u, at) =
                  IF t[at].left = Nil /\ t[at].right = Nil THEN 2 ELSE Height(t, at)
<1> DEFINE l == t[at].left
           r == t[at].right
           s == InOrder(t, at)
<1>0. u \in Forest /\ at \in Node /\ n \in Node /\ u \in Links /\ t \in Links /\ at # n
  <2>1. u \in Forest
    BY HungForest
  <2> QED BY <2>1 DEF Hung, Forest
<1>1. /\ l \in Ref /\ r \in Ref /\ at \notin Within(t, l) /\ at \notin Within(t, r)
      /\ Within(t, at) = Within(t, l) \cup {at} \cup Within(t, r)
      /\ Within(t, l) \subseteq Node /\ Within(t, r) \subseteq Node
  BY <1>0, LinksType, NotBelow, WithinEq
<1>2. \A x \in {l, r} : /\ InOrder(u, x) = InOrder(t, x) /\ Height(u, x) = Height(t, x)
  <2> TAKE x \in {l, r}
  <2>1. x \in Ref /\ Within(t, x) \subseteq Node /\ \A w \in Within(t, x) : u[w] = t[w]
    BY <1>1 DEF Hung
  <2>2. \A w \in Within(t, x) : u[w].left = t[w].left /\ u[w].right = t[w].right
    BY <2>1
  <2> HIDE DEF l, r
  <2> QED BY <1>0, <2>1, <2>2, Agreement
<1>3. InOrder(u, n) = Join(<<>>, n, <<>>) /\ Height(u, n) = 1
  <2>1. u[n].left = Nil /\ u[n].right = Nil
    BY DEF Hung
  <2>2. InOrder(u, n) = Join(<<>>, n, <<>>)
    BY <1>0, <2>1, InOrderJoin, InOrderEq
  <2>3. Height(u, n) = 1 + Height(u, Nil) /\ Height(u, Nil) = 0
    BY <1>0, <2>1, HeightNode, HeightEq
  <2> QED BY <2>2, <2>3
<1>4. s = Join(InOrder(t, l), at, InOrder(t, r)) /\ s \in Seq(Node)
      /\ InOrder(t, l) \in Seq(Node) /\ InOrder(t, r) \in Seq(Node)
      /\ InOrder(u, at) = Join(InOrder(u, u[at].left), at, InOrder(u, u[at].right))
  BY <1>0, InOrderJoin, InOrderEq DEF Ref
<1>5. Height(t, Nil) = 0 /\ Height(u, Nil) = 0
      /\ \A x \in Node : Height(t, x) \in Nat /\ 0 < Height(t, x)
  BY <1>0, HeightEq, HeightNode
<1>6. Height(t, at) = 1 + Max({Height(t, l), Height(t, r)})
      /\ Height(u, at) = 1 + Max({Height(u, u[at].left), Height(u, u[at].right)})
      /\ Height(t, l) \in Nat /\ Height(t, r) \in Nat
  BY <1>0, <1>1, HeightEq
<1>7. CASE toLeft
  <2>1. l = Nil /\ u[at].left = n /\ u[at].right = r
    BY <1>7 DEF Hung
  <2>2. InOrder(t, l) = <<>>
    BY <2>1, InOrderEq
  <2> DEFINE R == InOrder(t, r)
  <2>3. s = Join(<<>>, at, R) /\ InOrder(u, at) = Join(Join(<<>>, n, <<>>), at, R) /\ R \in Seq(Node)
    BY <1>2, <1>3, <1>4, <2>1, <2>2
  <2> HIDE DEF R, s, l, r
  <2>4. Neighbours(Node, <<>>, n, at, R, R)
    <3> DEFINE e == <<>>
    <3>1. e \in Seq(Node)
      OBVIOUS
    <3> HIDE DEF e
    <3>2. Neighbours(Node, e, n, at, R, R)
      BY <1>0, <2>3, <3>1, TwoNodes
    <3> QED BY <3>2 DEF e
  <2>5. InOrder(u, at) = Join(<<>>, n, s)
    BY <2>3, <2>4 DEF Neighbours
  <2>6. Height(t, at) = 1 + Max({0, Height(t, r)}) /\ Height(u, at) = 1 + Max({1, Height(t, r)})
    BY <1>2, <1>3, <1>5, <1>6, <2>1
  <2>7. Height(u, at) = IF r = Nil THEN 2 ELSE Height(t, at)
    <3> DEFINE k == Height(t, r)
    <3>1. k \in Nat /\ (r = Nil => k = 0) /\ (r # Nil => 0 < k)
      BY <1>1, <1>5, <1>6 DEF Ref
    <3> HIDE DEF k
    <3>2. /\ Max({0, k}) \in {0, k} /\ 0 <= Max({0, k}) /\ k <= Max({0, k})
          /\ Max({1, k}) \in {1, k} /\ 1 <= Max({1, k}) /\ k <= Max({1, k})
      BY <3>1, MaxOfTwo
    <3>3. (r = Nil => Max({1, k}) = 1) /\ (r # Nil => Max({1, k}) = Max({0, k}))
      BY <3>1, <3>2
    <3> QED BY <2>6, <3>3 DEF k
  <2> QED BY <1>4, <1>7, <2>1, <2>5, <2>7 DEF s, l, r
<1>8. CASE ~toLeft
  <2>1. r = Nil /\ u[at].right = n /\ u[at].left = l
    BY <1>8 DEF Hung
  <2>2. InOrder(t, r) = <<>>
    BY <2>1, InOrderEq
  <2> DEFINE L == InOrder(t, l)
  <2>3. s = Join(L, at, <<>>) /\ InOrder(u, at) = Join(L, at, Join(<<>>, n, <<>>)) /\ L \in Seq(Node)
    BY <1>2, <1>3, <1>4, <2>1, <2>2
  <2> HIDE DEF L, s, l, r
  <2>4. Neighbours(Node, L, at, n, <<>>, L)
    <3> DEFINE e == <<>>
    <3>1. e \in Seq(Node)
      OBVIOUS
    <3> HIDE DEF e
    <3>2. Neighbours(Node, L, at, n, e, L)
      BY <1>0, <2>3, <3>1, TwoNodes
    <3> QED BY <3>2 DEF e
  <2>5. InOrder(u, at) = Join(s, n, <<>>)
    BY <2>3, <2>4 DEF Neighbours
  <2>6. Height(t, at) = 1 + Max({Height(t, l), 0}) /\ Height(u, at) = 1 + Max({Height(t, l), 1})
    BY <1>2, <1>3, <1>5, <1>6, <2>1
  <2>7. Height(u, at) = IF l = Nil THEN 2 ELSE Height(t, at)
    <3> DEFINE k == Height(t, l)
    <3>1. k \in Nat /\ (l = Nil => k = 0) /\ (l # Nil => 0 < k)
      BY <1>1, <1>5, <1>6 DEF Ref
    <3> HIDE DEF k
    <3>2. /\ Max({k, 0}) \in {0, k} /\ 0 <= Max({k, 0}) /\ k <= Max({k, 0})
          /\ Max({k, 1}) \in {1, k} /\ 1 <= Max({k, 1}) /\ k <= Max({k, 1})
      BY <3>1, MaxOfTwo
    <3>3. (l = Nil => Max({k, 1}) = 1) /\ (l # Nil => Max({k, 1}) = Max({k, 0}))
      BY <3>1, <3>2
    <3> QED BY <2>6, <3>3 DEF k
  <2> QED BY <1>4, <1>8, <2>1, <2>5, <2>7 DEF s, l, r
<1> QED BY <1>7, <1>8

\* n put before s, or after it, with pre and post around both, is put within the whole.
Inserts(V, pre, s, post, n) ==
  /\ \E a, b \in Seq(V) : Wrap(pre, s, post) = a \o b /\ Wrap(pre, Join(<<>>, n, s), post) = Join(a, n, b)
  /\ \E a, b \in Seq(V) : Wrap(pre, s, post) = a \o b /\ Wrap(pre, Join(s, n, <<>>), post) = Join(a, n, b)

\* An element on either side of a sequence within another.
LEMMA Inserted ==
  ASSUME NEW V, NEW pre \in Seq(V), NEW s \in Seq(V), NEW post \in Seq(V), NEW n \in V
  PROVE  Inserts(V, pre, s, post, n)
<1>0. <<>> \in Seq(V)
  OBVIOUS
<1>1. Wraps(V, pre, <<>>, n, s, post) /\ Wraps(V, pre, s, n, <<>>, post)
  BY <1>0, WrapsJoin
<1>2. pre \o <<>> = pre /\ <<>> \o post = post
  BY ConcatEmptySeq
<1>3. Assoc(pre, s, post)
  BY ConcatAssoc
<1>4. Wrap(pre, s, post) = pre \o (s \o post) /\ Wrap(pre, Join(<<>>, n, s), post) = Join(pre, n, s \o post)
      /\ s \o post \in Seq(V)
  BY <1>1, <1>2, <1>3 DEF Wraps, Assoc, Wrap
<1>5. Wrap(pre, s, post) = (pre \o s) \o post /\ Wrap(pre, Join(s, n, <<>>), post) = Join(pre \o s, n, post)
      /\ pre \o s \in Seq(V)
  BY <1>1, <1>2 DEF Wraps, Wrap
<1> QED BY <1>4, <1>5 DEF Inserts

\* A leaf hung below the end of a path comes between two neighbours, at each node of
\* the path; the height grows at most to the length of the path with the leaf.
LEMMA HungGrown ==
  ASSUME NEW t \in Forest, NEW u, NEW ws, NEW n, NEW toLeft \in BOOLEAN, Chain(t, ws),
         Hung(t, u, ws[Len(ws)], n, toLeft), Distinct(InOrder(t, ws[1])), n \notin Within(t, ws[1])
  PROVE  LET at == ws[Len(ws)]
             x  == ws[1]
         IN  /\ Grown(t, u, x, n)
             /\ t[at].left = Nil /\ t[at].right = Nil =>
                  \A M \in Nat : Height(t, x) <= M /\ Len(ws) + 1 <= M => Height(u, x) <= M
             /\ ~(t[at].left = Nil /\ t[at].right = Nil) => Height(u, x) <= Height(t, x)
<1> DEFINE at == ws[Len(ws)]
           x  == ws[1]
<1>1. u \in Forest
  BY HungForest
<1>2. /\ x \in Node /\ at \in Node /\ at \in Ref /\ n \in Node /\ Within(t, at) \subseteq Within(t, x) /\ Within(t, x) \subseteq Node
      /\ at \in Within(t, at) /\ Len(ws) \in Nat /\ Len(ws) \in 1 .. Len(ws) /\ 1 \in 1 .. Len(ws)
      /\ x \in Ref
  <2>1. Len(ws) \in Nat /\ Len(ws) \in 1 .. Len(ws) /\ 1 \in 1 .. Len(ws) /\ x \in Node /\ at \in Node
    BY ChainType
  <2>2. Within(t, at) \subseteq Within(t, x)
    BY <2>1, ChainWithin
  <2> QED BY <2>1, <2>2, WithinEq DEF Hung, Ref
<1>3. Replaced(t, u, x, at, at)
  <2> SUFFICES ASSUME NEW w \in Within(t, x) \ Within(t, at)
               PROVE  u[w].left = t[w].left /\ u[w].right = t[w].right
    BY DEF Replaced, Put
  <2>1. u[w] = t[w]
    BY <1>2 DEF Hung
  <2> QED BY <2>1
<1>4. x = IF Len(ws) = 1 THEN at ELSE ws[1]
  OBVIOUS
<1>5. PICK pre, post \in Seq(Node) :
        /\ InOrder(t, x) = Wrap(pre, InOrder(t, at), post)
        /\ InOrder(u, x) = Wrap(pre, InOrder(u, at), post)
        /\ \A M \in Nat : /\ Height(t, x) <= M
                          /\ Len(ws) - 1 + Height(u, at) <= M
                          => Height(u, x) <= M
  <2>1. \E pre, post \in Seq(Node) :
           LET y == ws[Len(ws)]
               top == IF Len(ws) = 1 THEN at ELSE ws[1]
           IN  /\ InOrder(t, ws[1]) = Wrap(pre, InOrder(t, y), post)
               /\ InOrder(u, top) = Wrap(pre, InOrder(u, at), post)
               /\ NextTo(t, ws, 1, pre, post)
               /\ \A M \in Nat : /\ Height(t, ws[1]) <= M
                                 /\ Len(ws) - 1 + Height(u, at) <= M
                                 => Height(u, top) <= M
    <3> DEFINE c == at
    <3>1. c \in Ref /\ Replaced(t, u, ws[1], ws[Len(ws)], c)
      BY <1>2, <1>3
    <3> HIDE DEF c
    <3>2. \E pre, post \in Seq(Node) :
           LET y == ws[Len(ws)]
               top == IF Len(ws) = 1 THEN c ELSE ws[1]
           IN  /\ InOrder(t, ws[1]) = Wrap(pre, InOrder(t, y), post)
               /\ InOrder(u, top) = Wrap(pre, InOrder(u, c), post)
               /\ NextTo(t, ws, 1, pre, post)
               /\ \A M \in Nat : /\ Height(t, ws[1]) <= M
                                 /\ Len(ws) - 1 + Height(u, c) <= M
                                 => Height(u, top) <= M
      BY <1>1, <3>1, Around
    <3> QED BY <3>2 DEF c
  <2> HIDE DEF at
  <2> QED BY <1>4, <2>1 DEF at
<1> DEFINE s == InOrder(t, at)
<1>6. /\ InOrder(u, at) = IF toLeft THEN Join(<<>>, n, s) ELSE Join(s, n, <<>>)
      /\ s \in Seq(Node)
      /\ Height(u, at) =
                  IF t[at].left = Nil /\ t[at].right = Nil THEN 2 ELSE Height(t, at)
  <2>1. n \notin Within(t, at) /\ Hung(t, u, at, n, toLeft)
    BY <1>2
  <2> HIDE DEF at
  <2> QED BY <2>1, HungAt DEF s
<1> HIDE DEF at, x, s
<1>7. PICK a, b \in Seq(Node) : InOrder(t, x) = a \o b /\ InOrder(u, x) = Join(a, n, b)
  <2>1. Inserts(Node, pre, s, post, n)
    BY <1>2, <1>6, Inserted
  <2> QED BY <1>5, <1>6, <2>1 DEF s, Inserts
<1>8. Distinct(a \o b) /\ n \notin Range(a \o b) /\ Range(a \o b) = Within(t, x)
  BY <1>7 DEF x, Within
<1>9. Distinct(Join(a, n, b)) /\ Len(Join(a, n, b)) = 1 + Len(a \o b)
      /\ Range(Join(a, n, b)) = Range(a \o b) \cup {n}
  <2>1. Distinct(Join(a, n, b)) /\ Len(Join(a, n, b)) = 1 + Len(a \o b)
    BY <1>2, <1>8, MoreOne
  <2>2. Range(a \o b) = Range(Join(a, n, b)) \ {n}
    BY <1>2, <2>1, LessOne
  <2>3. n \in Range(Join(a, n, b))
    BY <1>2, JoinDivided
  <2> QED BY <2>1, <2>2, <2>3
<1>10. Grown(t, u, x, n)
  BY <1>7, <1>8, <1>9 DEF Grown, Within
<1>11. Height(t, x) \in Nat /\ Height(t, at) \in Nat /\ Height(t, at) + (Len(ws) - 1) <= Height(t, x)
  <2>1. Height(t, ws[Len(ws)]) + (Len(ws) - 1) <= Height(t, ws[1])
    BY <1>2, ChainHeight
  <2> QED BY <1>2, <2>1, HeightEq DEF at, x
<1>12. t[at].left = Nil /\ t[at].right = Nil =>
          \A M \in Nat : Height(t, x) <= M /\ Len(ws) + 1 <= M => Height(u, x) <= M
  BY <1>2, <1>5, <1>6
<1>13. ~(t[at].left = Nil /\ t[at].right = Nil) => Height(u, x) <= Height(t, x)
  BY <1>2, <1>5, <1>6, <1>11
<1> QED BY <1>10, <1>12, <1>13 DEF at, x

-----------------------------------------------------------------------------
(* Keys in order.                                                          *)

\* The nodes of s have keys, in their order.
Ordered(t, s) ==
  /\ \A i \in 1 .. Len(s) : t[s[i]].key \in Key
  /\ \A i, j \in 1 .. Len(s) : i < j => t[s[i]].key <= t[s[j]].key

\* Every subtree of a tree without repetition has none.
LEMMA DistinctWithin ==
  ASSUME NEW t \in Forest, NEW x \in Ref, Distinct(InOrder(t, x)), NEW y \in Within(t, x)
  PROVE  Distinct(InOrder(t, y)) /\ y \in Node
<1>1. PICK ws : Chain(t, ws) /\ ws[1] = x /\ ws[Len(ws)] = y
  BY ChainTo
<1>2. Distinct(InOrder(t, ws[Len(ws)]))
  BY <1>1, DistinctSub
<1> QED BY <1>1, <1>2, WithinEq

\* A way turns right or left, not both.
LEMMA RightOrLeft ==
  ASSUME NEW t \in Forest, NEW ws, Chain(t, ws), Distinct(InOrder(t, ws[1])), NEW i \in 1 .. Len(ws) - 1
  PROVE  /\ Right(t, ws, i) <=> ws[i + 1] # t[ws[i]].left
         /\ ws[i] \in Node /\ ws[i + 1] \in Node
<1>1. ws[i] \in Node /\ ws[i + 1] \in Node /\ ws[i + 1] \in {t[ws[i]].left, t[ws[i]].right}
      /\ ws[1] \in Node /\ i \in 1 .. Len(ws) /\ 1 \in 1 .. i
  BY ChainType DEF Chain
<1>2. ws[i] \in Within(t, ws[1])
  BY <1>1, ChainWithin
<1>3. Distinct(InOrder(t, ws[i]))
  BY <1>1, <1>2, DistinctWithin DEF Ref
<1>4. Within(t, t[ws[i]].left) \cap Within(t, t[ws[i]].right) = {}
  BY <1>1, <1>3, SidesApart
<1>5. ws[i + 1] \in Within(t, ws[i + 1])
  BY <1>1, WithinEq
<1> QED BY <1>1, <1>4, <1>5 DEF Right

\* Concatenation, element by element.
LEMMA ConcatIs ==
  ASSUME NEW V, NEW a \in Seq(V), NEW b \in Seq(V)
  PROVE  /\ a \o b \in Seq(V) /\ Len(a \o b) = Len(a) + Len(b) /\ Len(a) \in Nat /\ Len(b) \in Nat
         /\ \A i \in 1 .. Len(a) : (a \o b)[i] = a[i] /\ i \in 1 .. Len(a \o b)
         /\ \A i \in 1 .. Len(b) : (a \o b)[Len(a) + i] = b[i] /\ Len(a) + i \in 1 .. Len(a \o b)
<1>1. /\ a \o b \in Seq(V) /\ Len(a \o b) = Len(a) + Len(b) /\ Len(a) \in Nat /\ Len(b) \in Nat
      /\ \A i \in 1 .. Len(a) + Len(b) : (a \o b)[i] = IF i <= Len(a) THEN a[i] ELSE b[i - Len(a)]
  BY ConcatProperties
<1> DEFINE c == a \o b
           la == Len(a)
           lb == Len(b)
<1> HIDE DEF c
<1>2. ASSUME NEW i \in 1 .. la PROVE c[i] = a[i] /\ i \in 1 .. Len(c)
  <2>1. i \in 1 .. la + lb /\ i <= la
    BY <1>1
  <2> QED BY <1>1, <2>1 DEF c
<1>3. ASSUME NEW i \in 1 .. lb PROVE c[la + i] = b[i] /\ la + i \in 1 .. Len(c)
  <2>1. la + i \in 1 .. la + lb /\ ~(la + i <= la) /\ (la + i) - la = i
    BY <1>1
  <2> QED BY <1>1, <2>1 DEF c
<1> QED BY <1>1, <1>2, <1>3 DEF c

\* The keys of a lie at most at that of its last node, those of b at least at that of
\* its first.
LEMMA OrderedEnds ==
  ASSUME NEW t \in Links, NEW a \in Seq(Node), NEW b \in Seq(Node), Ordered(t, a \o b)
  PROVE  /\ \A i \in 1 .. Len(a) : t[a[i]].key \in Key /\ t[a[i]].key <= t[a[Len(a)]].key
         /\ \A i \in 1 .. Len(b) : t[b[i]].key \in Key /\ t[b[1]].key <= t[b[i]].key
<1> DEFINE c == a \o b
<1>1. /\ Len(c) = Len(a) + Len(b) /\ Len(a) \in Nat /\ Len(b) \in Nat
      /\ \A i \in 1 .. Len(a) : c[i] = a[i] /\ i \in 1 .. Len(c)
      /\ \A i \in 1 .. Len(b) : c[Len(a) + i] = b[i] /\ Len(a) + i \in 1 .. Len(c)
  BY ConcatIs
<1>2. /\ \A i \in 1 .. Len(c) : t[c[i]].key \in Key
      /\ \A i, j \in 1 .. Len(c) : i < j => t[c[i]].key <= t[c[j]].key
  BY DEF Ordered
<1> HIDE DEF c
<1>3. ASSUME NEW i \in 1 .. Len(a) PROVE t[a[i]].key \in Key /\ t[a[i]].key <= t[a[Len(a)]].key
  <2>0. c[i] = a[i] /\ t[c[i]].key \in Key
    BY <1>1, <1>2
  <2>1. t[a[i]].key \in Key /\ Len(a) \in 1 .. Len(a) /\ t[a[i]].key \in Nat
    <3>1. Len(a) \in 1 .. Len(a)
      BY <1>1
    <3>2. t[a[i]].key \in Key
      BY <2>0
    <3> QED BY <3>1, <3>2, KeyAssumption
  <2>2. CASE i = Len(a)
    BY <2>1, <2>2
  <2>3. CASE i # Len(a)
    <3>1. i < Len(a)
      BY <1>1, <2>3
    <3> QED BY <1>1, <1>2, <2>1, <3>1
  <2> QED BY <2>2, <2>3
<1>4. ASSUME NEW i \in 1 .. Len(b) PROVE t[b[i]].key \in Key /\ t[b[1]].key <= t[b[i]].key
  <2>0. c[Len(a) + i] = b[i] /\ t[c[Len(a) + i]].key \in Key
    BY <1>1, <1>2
  <2>1. t[b[i]].key \in Key /\ 1 \in 1 .. Len(b) /\ t[b[i]].key \in Nat
    BY <1>1, <2>0, KeyAssumption
  <2>2. CASE i = 1
    BY <2>1, <2>2
  <2>3. CASE i # 1
    <3>1. Len(a) + 1 < Len(a) + i
      BY <1>1, <2>3
    <3> QED BY <1>1, <1>2, <2>1, <3>1
  <2> QED BY <2>2, <2>3
<1> QED BY <1>3, <1>4

\* A node is put where its key belongs.
LEMMA OrderedJoin ==
  ASSUME NEW t \in Links, NEW u \in Links, NEW a \in Seq(Node), NEW b \in Seq(Node), NEW n \in Node,
         NEW k \in Key, u[n].key = k, Ordered(t, a \o b), n \notin Range(a \o b),
         \A w \in Node : w # n => u[w].key = t[w].key,
         \A i \in 1 .. Len(a) : t[a[i]].key <= k,
         \A i \in 1 .. Len(b) : k <= t[b[i]].key
  PROVE  Ordered(u, Join(a, n, b))
<1> DEFINE c == a \o b
           d == Join(a, n, b)
           la == Len(a)
           lb == Len(b)
<1>1. /\ c \in Seq(Node) /\ Len(c) = la + lb /\ la \in Nat /\ lb \in Nat
      /\ \A i \in 1 .. la : c[i] = a[i] /\ i \in 1 .. Len(c)
      /\ \A i \in 1 .. lb : c[la + i] = b[i] /\ la + i \in 1 .. Len(c)
  BY ConcatIs
<1>2. /\ Len(d) = la + 1 + lb
      /\ \A i \in 1 .. la : d[i] = a[i]
      /\ d[la + 1] = n
      /\ \A i \in 1 .. lb : d[la + 1 + i] = b[i]
  <2>1. Divided(d, a, n, b)
    BY JoinDivided
  <2> QED BY <2>1 DEF Divided
<1>3. /\ \A i \in 1 .. Len(c) : t[c[i]].key \in Key /\ c[i] # n /\ c[i] \in Node
      /\ \A i, j \in 1 .. Len(c) : i < j => t[c[i]].key <= t[c[j]].key
  <2>1. Ordered(t, c) /\ n \notin Range(c) /\ c \in Seq(Node)
    BY <1>1
  <2> HIDE DEF c
  <2> QED BY <2>1 DEF Ordered, Range
<1>a. /\ \A i \in 1 .. la : t[a[i]].key <= k
      /\ \A i \in 1 .. lb : k <= t[b[i]].key
      /\ \A w \in Node : w # n => u[w].key = t[w].key
  OBVIOUS
<1> HIDE DEF c, d, la, lb
<1>4. /\ \A i \in 1 .. la : u[d[i]].key = t[c[i]].key /\ t[c[i]].key <= k /\ i \in 1 .. Len(c)
      /\ \A i \in 1 .. lb : u[d[la + 1 + i]].key = t[c[la + i]].key /\ k <= t[c[la + i]].key /\ la + i \in 1 .. Len(c)
      /\ k \in Key /\ k \in Nat
  <2>1. ASSUME NEW i \in 1 .. la PROVE u[d[i]].key = t[c[i]].key /\ t[c[i]].key <= k /\ i \in 1 .. Len(c)
    <3>1. i \in 1 .. Len(c) /\ c[i] = a[i] /\ d[i] = a[i]
      BY <1>1, <1>2
    <3>2. c[i] # n /\ c[i] \in Node
      BY <1>3, <3>1
    <3> QED BY <1>a, <3>1, <3>2
  <2>2. ASSUME NEW i \in 1 .. lb
        PROVE  u[d[la + 1 + i]].key = t[c[la + i]].key /\ k <= t[c[la + i]].key /\ la + i \in 1 .. Len(c)
    <3>1. la + i \in 1 .. Len(c) /\ c[la + i] = b[i] /\ d[la + 1 + i] = b[i]
      BY <1>1, <1>2
    <3>2. c[la + i] # n /\ c[la + i] \in Node
      BY <1>3, <3>1
    <3> QED BY <1>a, <3>1, <3>2
  <2> QED BY <2>1, <2>2, KeyAssumption
<1>5. \A i \in 1 .. Len(d) : i \in 1 .. la \/ i = la + 1 \/ (i - la - 1 \in 1 .. lb /\ la + 1 + (i - la - 1) = i)
  BY <1>1, <1>2
<1>6. ASSUME NEW i \in 1 .. Len(d) PROVE u[d[i]].key \in Key
  <2>1. CASE i \in 1 .. la
    BY <1>3, <1>4, <2>1
  <2>2. CASE i = la + 1
    BY <1>2, <1>4, <2>2
  <2>3. CASE i - la - 1 \in 1 .. lb /\ la + 1 + (i - la - 1) = i
    <3> DEFINE m == i - la - 1
    <3>1. m \in 1 .. lb /\ la + 1 + m = i
      BY <2>3
    <3> HIDE DEF m
    <3>2. u[d[la + 1 + m]].key = t[c[la + m]].key /\ la + m \in 1 .. Len(c)
      BY <1>4, <3>1
    <3> QED BY <1>3, <3>1, <3>2
  <2> QED BY <1>5, <2>1, <2>2, <2>3
<1>7. ASSUME NEW i \in 1 .. Len(d), NEW j \in 1 .. Len(d), i < j PROVE u[d[i]].key <= u[d[j]].key
  <2>0. \A v \in Key : v \in Nat
    BY KeyAssumption
  <2>1. CASE i \in 1 .. la
    <3>1. CASE j \in 1 .. la
      BY <1>3, <1>4, <1>7, <2>1, <3>1
    <3>2. CASE j = la + 1
      BY <1>2, <1>4, <2>1, <3>2
    <3>3. CASE j - la - 1 \in 1 .. lb /\ la + 1 + (j - la - 1) = j
      <4> DEFINE m == j - la - 1
      <4>1. m \in 1 .. lb /\ la + 1 + m = j
        BY <3>3
      <4> HIDE DEF m
      <4>2. u[d[j]].key = t[c[la + m]].key /\ k <= t[c[la + m]].key /\ la + m \in 1 .. Len(c)
        BY <1>4, <4>1
      <4>3. u[d[i]].key = t[c[i]].key /\ t[c[i]].key <= k /\ i \in 1 .. Len(c)
        BY <1>4, <2>1
      <4>4. t[c[la + m]].key \in Nat /\ t[c[i]].key \in Nat
        BY <1>3, <2>0, <4>2, <4>3
      <4> DEFINE x == t[c[i]].key
                 y == t[c[la + m]].key
      <4>5. x \in Nat /\ y \in Nat /\ x <= k /\ k <= y /\ k \in Nat
        BY <2>0, <4>2, <4>3, <4>4
      <4>6. u[d[i]].key = x /\ u[d[j]].key = y
        BY <4>2, <4>3
      <4> HIDE DEF x, y
      <4> QED BY <4>5, <4>6
    <3> QED BY <1>5, <3>1, <3>2, <3>3
  <2>2. CASE i = la + 1
    <3>1. j - la - 1 \in 1 .. lb /\ la + 1 + (j - la - 1) = j
      BY <1>1, <1>5, <1>7, <2>2
    <3> DEFINE m == j - la - 1
    <3>2. m \in 1 .. lb /\ la + 1 + m = j
      BY <3>1
    <3> HIDE DEF m
    <3>3. u[d[j]].key = t[c[la + m]].key /\ k <= t[c[la + m]].key
      BY <1>4, <3>2
    <3> QED BY <1>2, <2>2, <3>3
  <2>3. CASE i - la - 1 \in 1 .. lb /\ la + 1 + (i - la - 1) = i
    <3>1. j - la - 1 \in 1 .. lb /\ la + 1 + (j - la - 1) = j
      BY <1>1, <1>5, <1>7, <2>3
    <3> DEFINE m == j - la - 1
               l == i - la - 1
    <3>2. m \in 1 .. lb /\ la + 1 + m = j /\ l \in 1 .. lb /\ la + 1 + l = i
      BY <2>3, <3>1
    <3> HIDE DEF m, l
    <3>3. la + l < la + m
      BY <1>1, <1>7, <3>2
    <3>4. u[d[j]].key = t[c[la + m]].key /\ u[d[i]].key = t[c[la + l]].key
          /\ la + m \in 1 .. Len(c) /\ la + l \in 1 .. Len(c)
      BY <1>4, <3>2
    <3> QED BY <1>3, <3>3, <3>4
  <2> QED BY <1>5, <2>1, <2>2, <2>3
<1>8. Ordered(u, d)
  BY <1>6, <1>7 DEF Ordered
<1> QED BY <1>8 DEF d

\* Order stays when a node is taken out.
LEMMA OrderedLess ==
  ASSUME NEW t, NEW u, NEW a \in Seq(Node), NEW b \in Seq(Node), NEW n \in Node,
         Ordered(t, Join(a, n, b)), \A w \in Node : u[w].key = t[w].key
  PROVE  Ordered(u, a \o b)
<1> DEFINE c == a \o b
           d == Join(a, n, b)
           la == Len(a)
           lb == Len(b)
           at(i) == IF i <= la THEN i ELSE i + 1
<1>1. /\ c \in Seq(Node) /\ Len(c) = la + lb /\ la \in Nat /\ lb \in Nat
      /\ \A i \in 1 .. la : c[i] = a[i] /\ i \in 1 .. Len(c)
      /\ \A i \in 1 .. lb : c[la + i] = b[i] /\ la + i \in 1 .. Len(c)
  BY ConcatIs
<1>2. /\ Len(d) = la + 1 + lb
      /\ \A i \in 1 .. la : d[i] = a[i]
      /\ \A i \in 1 .. lb : d[la + 1 + i] = b[i]
  <2>1. Divided(d, a, n, b)
    BY JoinDivided
  <2> QED BY <2>1 DEF Divided
<1>3. /\ \A i \in 1 .. Len(d) : t[d[i]].key \in Key
      /\ \A i, j \in 1 .. Len(d) : i < j => t[d[i]].key <= t[d[j]].key
  BY DEF Ordered
<1> HIDE DEF c, d, la, lb
<1>4. ASSUME NEW i \in 1 .. Len(c) PROVE at(i) \in 1 .. Len(d) /\ c[i] = d[at(i)] /\ c[i] \in Node
  <2>0. \A j \in 1 .. Len(c) : c[j] \in Node
    BY <1>1
  <2>1. CASE i <= la
    <3>1. i \in 1 .. la /\ i \in 1 .. Len(d) /\ at(i) = i
      BY <1>1, <1>2, <2>1
    <3> QED BY <1>1, <1>2, <2>0, <3>1
  <2>2. CASE ~(i <= la)
    <3> DEFINE m == i - la
    <3>1. m \in 1 .. lb /\ la + m = i /\ la + 1 + m = i + 1 /\ at(i) = i + 1
      BY <1>1, <2>2
    <3> HIDE DEF m
    <3>2. c[la + m] = b[m] /\ d[la + 1 + m] = b[m]
      BY <1>1, <1>2, <3>1
    <3>3. la + 1 + m \in 1 .. Len(d)
      BY <1>1, <1>2, <3>1
    <3> QED BY <2>0, <3>1, <3>2, <3>3
  <2> QED BY <2>1, <2>2
<1>5. \A i, j \in 1 .. Len(c) : i < j => at(i) < at(j)
  BY <1>1
<1> HIDE DEF at
<1>6. \A i \in 1 .. Len(c) : at(i) \in 1 .. Len(d) /\ u[c[i]].key = t[d[at(i)]].key
  BY <1>4
<1>7. Ordered(u, c)
  BY <1>3, <1>5, <1>6 DEF Ordered
<1> QED BY <1>7 DEF c

\* Order stays when a node is replaced by one with the same key.
LEMMA OrderedSwap ==
  ASSUME NEW t, NEW u, NEW a \in Seq(Node), NEW b \in Seq(Node), NEW n \in Node, NEW m \in Node,
         Ordered(t, Join(a, n, b)), m \notin Range(Join(a, n, b)), u[m].key = t[n].key,
         \A w \in Node : w # m => u[w].key = t[w].key
  PROVE  Ordered(u, Join(a, m, b))
<1> DEFINE c == Join(a, n, b)
           d == Join(a, m, b)
           la == Len(a)
           lb == Len(b)
<1>1. /\ Len(c) = la + 1 + lb /\ la \in Nat /\ lb \in Nat
      /\ \A i \in 1 .. la : c[i] = a[i]
      /\ c[la + 1] = n
      /\ \A i \in 1 .. lb : c[la + 1 + i] = b[i]
  <2>1. Divided(c, a, n, b)
    BY JoinDivided
  <2> QED BY <2>1 DEF Divided
<1>2. /\ Len(d) = la + 1 + lb
      /\ \A i \in 1 .. la : d[i] = a[i]
      /\ d[la + 1] = m
      /\ \A i \in 1 .. lb : d[la + 1 + i] = b[i]
  <2>1. Divided(d, a, m, b)
    BY JoinDivided
  <2> QED BY <2>1 DEF Divided
<1>3. /\ \A i \in 1 .. Len(c) : t[c[i]].key \in Key /\ c[i] # m /\ c[i] \in Node
      /\ \A i, j \in 1 .. Len(c) : i < j => t[c[i]].key <= t[c[j]].key
  <2>1. c \in Seq(Node)
    BY JoinDivided
  <2> QED BY <2>1 DEF Ordered, Range
<1> HIDE DEF c, d, la, lb
<1>4. ASSUME NEW i \in 1 .. Len(c) PROVE u[d[i]].key = t[c[i]].key
  <2>1. CASE i \in 1 .. la
    BY <1>1, <1>2, <1>3, <2>1
  <2>2. CASE i = la + 1
    BY <1>1, <1>2, <2>2
  <2>3. CASE ~(i \in 1 .. la \/ i = la + 1)
    <3> DEFINE l == i - la - 1
    <3>1. l \in 1 .. lb /\ la + 1 + l = i
      BY <1>1, <2>3
    <3> HIDE DEF l
    <3>2. c[i] = d[i]
      BY <1>1, <1>2, <3>1
    <3> QED BY <1>3, <3>2
  <2> QED BY <2>1, <2>2, <2>3
<1>5. Ordered(u, d)
  BY <1>1, <1>2, <1>3, <1>4 DEF Ordered
<1> QED BY <1>5 DEF d
=============================================================================

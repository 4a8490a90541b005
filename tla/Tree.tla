-------------------------------- MODULE Tree --------------------------------
(***************************************************************************)
(* The search trees of tree.c: a binary tree of nodes kept in balance by   *)
(* rebuilding subtrees (a scapegoat tree), and iterators that walk it with *)
(* a path of ancestors.  Keys are numbers, compared by less and equal;     *)
(* the functions key_fn, less_fn and equal_fn are not told apart from the  *)
(* defaults.                                                               *)
(*                                                                         *)
(* The recursive C functions are recursive functions over the nodes here;  *)
(* a node that neither the tree nor an iterator refers to is blank.        *)
(***************************************************************************)
EXTENDS Naturals, Integers, FiniteSets, TLC, SequencesExt

CONSTANTS
  Key,        \* the keys, natural numbers
  Node,       \* the TNOD objects
  Iter,       \* the tree iterators
  Nil,
  DepthMax,   \* TREE_DEPTH_MAX
  KeepStale   \* the program goes on with iterators after it changed the tree

ASSUME KeyAssumption == Key \subseteq Nat
ASSUME NilAssumption == Nil \notin Node \cup Key
ASSUME DepthAssumption == DepthMax \in Nat /\ KeepStale \in BOOLEAN

VARIABLES
  tn,         \* the nodes: key, left and right
  root, size, maxSize,   \* struct tree: root, size, max_size
  iter        \* struct tree_diter, for each iterator

treeVars == <<tn, root, size, maxSize>>
vars     == <<treeVars, iter>>

Ref   == Node \cup {Nil}
Blank == [key |-> Nil, left |-> Nil, right |-> Nil]

-----------------------------------------------------------------------------
(* Trees: t is a function from nodes to their fields, n a subtree of it.   *)

InOrder(t, n) ==
  LET walk[x \in Ref] == IF x = Nil THEN <<>>
                         ELSE walk[t[x].left] \o <<x>> \o walk[t[x].right]
  IN  walk[n]

Count(t, n) ==
  LET count[x \in Ref] == IF x = Nil THEN 0
                          ELSE 1 + count[t[x].left] + count[t[x].right]
  IN  count[n]

Height(t, n) ==
  LET height[x \in Ref] ==
        IF x = Nil THEN 0
        ELSE 1 + Max({height[t[x].left], height[t[x].right]})
  IN  height[n]

Within(t, n) == Range(InOrder(t, n))

\* The nodes from n down its left spine.
LeftSpine(t, n) ==
  LET spine[x \in Ref] == IF x = Nil THEN <<>> ELSE <<x>> \o spine[t[x].left]
  IN  spine[n]

ParentOf(t, n) ==
  IF \E p \in Within(t, root) : n \in {t[p].left, t[p].right}
    THEN CHOOSE p \in Within(t, root) : n \in {t[p].left, t[p].right}
    ELSE Nil

\* The tree with root r in which c has taken the place of n under its parent p.
Relinked(t, r, p, n, c) ==
  IF p = Nil THEN [tn |-> t, root |-> c]
  ELSE [tn |-> IF t[p].left = n THEN [t EXCEPT ![p].left = c]
               ELSE [t EXCEPT ![p].right = c],
        root |-> r]

\* tn_build_tree makes the node after the first n/2 the root of n nodes.
Mid(i, j) == i + (j - i + 1) \div 2

\* t with the nodes s[1], s[2], ... linked into a balanced tree in that order.
Balanced(t, s) ==
  LET top(i, j) == IF i > j THEN Nil ELSE s[Mid(i, j)]
      build[a \in (1..Len(s) + 1) \X (0..Len(s))] ==
        LET i  == a[1]
            j  == a[2]
            m  == Mid(i, j)
            lo == build[<<i, m - 1>>]
            hi == build[<<m + 1, j>>]
        IN  IF i > j THEN t
            ELSE [x \in Node |->
                    IF x = s[m] THEN [t[x] EXCEPT !.left = top(i, m - 1),
                                                  !.right = top(m + 1, j)]
                    ELSE IF \E k \in i..m - 1 : x = s[k] THEN lo[x]
                    ELSE hi[x]]
  IN  [tn |-> build[<<1, Len(s)>>], root |-> top(1, Len(s))]

\* tr_rebuild: the subtree n of size nodes is flattened and built anew in its
\* place.  A wrong size ends the building before the dummy node, whose left
\* field, nil, becomes the subtree.
Rebuilt(t, r, n, p, count) ==
  LET s == InOrder(t, n)
      b == Balanced(t, s)
  IN  IF count = Len(s) THEN Relinked(b.tn, r, p, n, b.root)
      ELSE Relinked(t, r, p, n, Nil)

-----------------------------------------------------------------------------
(* Insertion, lookup and deletion.                                         *)

GoesLeft_OrEqual(k, x) == k <= tn[x].key

GoesLeft(k, x) == k < tn[x].key

\* The nodes tr_insert visits on its way to where key k goes.
Way(k, dup) ==
  LET way[x \in Ref] ==
        IF x = Nil THEN <<>>
        ELSE <<x>> \o (IF GoesLeft(k, x) THEN way[tn[x].left]
                       ELSE IF k = tn[x].key /\ ~dup THEN <<>>
                       ELSE way[tn[x].right])
  IN  way[root]

Pow2[n \in Nat] == IF n = 0 THEN 1 ELSE 2 * Pow2[n - 1]

TooDeep_Never(dep, n) == FALSE

\* A new node at depth dep of a tree of n nodes is deeper than in a balanced one.
TooDeep(dep, n) == Pow2[dep] > n

\* tr_find_rebuild_scapegoat compares a child with its parent, and so the
\* sibling's size includes the parent itself.
Unbalanced(child, parent) == 2 * child > parent \/ 2 * (parent - child) > parent

\* The tree in which the new node, the last of way, has been linked, with the
\* lowest unbalanced ancestor rebuilt.
Repaired(t, way) ==
  LET goats == {i \in 1..Len(way) - 1 :
                  Unbalanced(Count(t, way[i + 1]), Count(t, way[i]))}
      i     == Max(goats)
  IN  IF goats = {} THEN [tn |-> t, root |-> root]
      ELSE Rebuilt(t, root, way[i], IF i = 1 THEN Nil ELSE way[i - 1],
                   Count(t, way[i]))

\* What is left of the iterators when the program has changed the tree: the
\* manual leaves their behaviour open, so that a program drops them.
Idle == [path |-> <<>>, state |-> "visited_nothing", last |-> Nil,
         high |-> Nil, todo |-> {}, valid |-> FALSE]
Stale == [i \in Iter |-> IF KeepStale THEN [iter[i] EXCEPT !.valid = FALSE,
                                                           !.todo = {}]
                         ELSE Idle]

\* The new tree; nodes that nothing refers to any more are blank.
Becomes(new, sz, mx) ==
  LET held == UNION {Range(Stale[i].path) \cup {Stale[i].last} : i \in Iter}
      kept == UNION {Within(new.tn, n) : n \in held \cup {new.root}} IN
  /\ tn' = [n \in Node |-> IF n \in kept THEN new.tn[n] ELSE Blank]
  /\ root' = new.root
  /\ size' = sz
  /\ maxSize' = mx
  /\ iter' = Stale

\* tree_insert, and tree_insert_node with a node that is in no tree.
Insert(n, k, dup) ==
  /\ n \notin Within(tn, root)
  /\ LET way  == Way(k, dup)
         at   == Last(way)
         sz   == size + 1
         new  == [tn EXCEPT ![n] = [Blank EXCEPT !.key = k]]
     IN  CASE root = Nil -> Becomes([tn |-> new, root |-> n], 1, 1)
           [] root # Nil /\ tn[at].key = k /\ ~dup ->
                LET took == [tn EXCEPT ![n] = [tn[at] EXCEPT !.key = k]] IN
                Becomes(Relinked(took, root,
                          IF Len(way) = 1 THEN Nil ELSE way[Len(way) - 1],
                          at, n), size, maxSize)
           [] OTHER ->
                LET t    == IF GoesLeft(k, at) THEN [new EXCEPT ![at].left = n]
                            ELSE [new EXCEPT ![at].right = n]
                    only == tn[at].left = Nil /\ tn[at].right = Nil
                IN  Becomes(IF only /\ TooDeep(Len(way), sz)
                              THEN Repaired(t, Append(way, n))
                              ELSE [tn |-> t, root |-> root],
                            sz, Max({sz, maxSize}))

\* The tree without node n: its right subtree's lowest node takes the place of
\* a node with two children, its only child that of any other.
Spliced(n) ==
  LET p     == ParentOf(tn, n)
      l     == tn[n].left
      r     == tn[n].right
      spine == LeftSpine(tn, r)
      succ  == Last(spine)
      cut   == IF Len(spine) = 1 THEN [tn EXCEPT ![n].right = tn[succ].right]
               ELSE [tn EXCEPT ![spine[Len(spine) - 1]].left = tn[succ].right]
      moved == [cut EXCEPT ![succ].left = l, ![succ].right = cut[n].right]
      out   == IF l # Nil /\ r # Nil THEN Relinked(moved, root, p, n, succ)
               ELSE Relinked(tn, root, p, n, IF l # Nil THEN l ELSE r)
  IN  [out EXCEPT !.tn[n].left = Nil, !.tn[n].right = Nil]

Shrunk_Never(sz, mx) == FALSE

\* Deletion has left less than half of the nodes the tree once had.
Shrunk(sz, mx) == 2 * sz < mx

\* tr_delete: n is out of the tree new, which is rebuilt when it has shrunk.
Removed(new) ==
  LET sz == size - 1 IN
  IF Shrunk(sz, maxSize)
    THEN Becomes(Rebuilt(new.tn, new.root, new.root, Nil, sz), sz, sz)
    ELSE Becomes(new, sz, maxSize)

\* The first node with key k on the way down: tn_lookup, tr_do_delete.
Lookup(k) ==
  LET way == Way(k, FALSE) IN
  IF way # <<>> /\ tn[Last(way)].key = k THEN Last(way) ELSE Nil

Delete(k) == Lookup(k) # Nil /\ Removed(Spliced(Lookup(k)))

\* The nodes that tr_do_delete_specific visits on its search for n, if it is not
\* found before: on both sides of a node with an equal key.
Searched(n) ==
  LET seen[x \in Ref] ==
        IF x = Nil THEN {}
        ELSE {x} \cup (IF tn[n].key > tn[x].key THEN {} ELSE seen[tn[x].left])
                 \cup (IF tn[n].key < tn[x].key THEN {} ELSE seen[tn[x].right])
  IN  seen[root]

Found(n) == n \in Searched(n)

DeleteSpecific(n) == tn[n].key # Nil /\ Found(n) /\ Removed(Spliced(n))

\* tree_del_min_node: the end of the left spine gives way to its right child.
DelMin ==
  /\ root # Nil
  /\ LET n == Last(LeftSpine(tn, root)) IN
     Removed(Relinked(tn, root, ParentOf(tn, n), n, tn[n].right))

Clear == Becomes([tn |-> tn, root |-> Nil], 0, 0)

-----------------------------------------------------------------------------
(* Iterators.                                                              *)

\* tn_find_next, and tn_peek_next, which only looks: the next node, and what
\* becomes of path and state.
FindNext(it) ==
  LET from(n, path) ==
        LET spine == LeftSpine(tn, n) IN
        [node |-> Last(spine), path |-> path \o Front(spine),
         state |-> "visited_left"]
      \* the places in the path that are not left from their right
      up == {j \in DOMAIN it.path :
               (IF j = Len(it.path) THEN it.last ELSE it.path[j + 1])
                 # tn[it.path[j]].right}
  IN  CASE it.state = "find_low_prepared" ->
             [node |-> it.last, path |-> it.path, state |-> "visited_left"]
        [] it.state = "visited_nothing" -> from(it.last, it.path)
        [] it.state = "visited_left" /\ tn[it.last].right # Nil ->
             from(tn[it.last].right, Append(it.path, it.last))
        [] OTHER ->
             IF up = {} THEN [node |-> Nil, path |-> <<>>, state |-> it.state]
             ELSE [node |-> it.path[Max(up)],
                   path |-> SubSeq(it.path, 1, Max(up) - 1),
                   state |-> "visited_left"]

Below_Inclusive(n, high) == n # Nil /\ (high = Nil \/ tn[n].key <= high)

\* The traversal ends at the first node that is not below the high key.
Below(n, high) == n # Nil /\ (high = Nil \/ tn[n].key < high)

\* The node that tree_peek returns and tree_next would return.
Peek(it) ==
  IF it.last = Nil THEN Nil
  ELSE LET n == FindNext(it).node IN IF Below(n, it.high) THEN n ELSE Nil

\* tn_find_low: the way down to the first node not below low, and from there
\* back up to the last node at which it went left.
FoundLow(it, low) ==
  LET way[x \in Ref] ==
        IF x = Nil THEN <<>>
        ELSE <<x>> \o (IF low <= tn[x].key THEN way[tn[x].left]
                       ELSE way[tn[x].right])
      path == way[root]
      left == {j \in DOMAIN path : low <= tn[path[j]].key}
  IN  IF left = {} THEN [it EXCEPT !.path = path]
      ELSE [it EXCEPT !.path = SubSeq(path, 1, Max(left) - 1),
                      !.last = path[Max(left)],
                      !.state = "find_low_prepared"]

\* The nodes that a traversal of the present tree should visit.
Wanted(low, high) ==
  {n \in Within(tn, root) : (low = Nil \/ low <= tn[n].key)
                            /\ (high = Nil \/ tn[n].key < high)}

\* tree_begin and tree_reset.
Begin(i, low, high) ==
  LET new == [Idle EXCEPT !.high = high, !.todo = Wanted(low, high),
                          !.valid = TRUE]
  IN  /\ iter' = [iter EXCEPT ![i] = IF low = Nil THEN [new EXCEPT !.last = root]
                                     ELSE FoundLow(new, low)]
      /\ UNCHANGED treeVars

TreeNext(i) ==
  /\ iter[i].last # Nil
  /\ LET f == FindNext(iter[i]) IN
     iter' = [iter EXCEPT ![i].path = f.path, ![i].state = f.state,
                          ![i].last = IF Below(f.node, iter[i].high)
                                        THEN f.node ELSE Nil,
                          ![i].todo = @ \ {f.node}]
  /\ UNCHANGED treeVars

\* copy_tree_iter and replace_tree_iter.
Copy(i, j) ==
  /\ iter' = [iter EXCEPT ![i] = iter[j]]
  /\ UNCHANGED treeVars

-----------------------------------------------------------------------------
Init ==
  /\ tn = [n \in Node |-> Blank]
  /\ root = Nil /\ size = 0 /\ maxSize = 0
  /\ iter = [i \in Iter |-> Idle]

Next ==
  \/ \E n \in Node, k \in Key, dup \in BOOLEAN : Insert(n, k, dup)
  \/ \E k \in Key : Delete(k)
  \/ \E n \in Node : DeleteSpecific(n)
  \/ DelMin \/ Clear
  \/ \E i \in Iter, low, high \in Key \cup {Nil} : Begin(i, low, high)
  \/ \E i \in Iter : TreeNext(i)
  \/ \E i, j \in Iter : Copy(i, j)

Spec == Init /\ [][Next]_vars

-----------------------------------------------------------------------------
(* Properties.                                                             *)

\* The counts from which rebuilding is decided are exact: size is the number of
\* nodes, and never less than half of max_size.
CountsExact ==
  /\ size = Count(tn, root)
  /\ size <= maxSize /\ maxSize <= 2 * size

\* The tree stays balanced through insertions and deletions in any order, with
\* and without duplicates: its height is that of a balanced tree of max_size
\* nodes.  Lookup, insertion and deletion take no more steps than that, and the
\* path of an iterator needs no more room.
Balance ==
  /\ root # Nil => Pow2[Height(tn, root) - 1] <= maxSize
  /\ \A i \in Iter : iter[i].valid => Len(iter[i].path) <= Height(tn, root)

\* The first node of the tree that is in S.
First(S) ==
  LET s == InOrder(tn, root) IN s[Min({i \in DOMAIN s : s[i] \in S})]

\* A traversal of a tree that is not changed visits the nodes with keys in
\* [low, high), in order and each once: tree_peek announces, and tree_next
\* visits, the first of those that are left.
Traversal ==
  \A i \in Iter : iter[i].valid =>
    Peek(iter[i]) = IF iter[i].todo = {} THEN Nil ELSE First(iter[i].todo)

\* tn_find_next's assertion, "trit->depth < TREE_DEPTH_MAX" before each push: a
\* path fits its array.
PathFits == \A i \in Iter : Len(iter[i].path) <= DepthMax

\* The tree is a sequence of nodes in key order; links, balance and rebuilding
\* cannot be seen from outside.
Order ==
  LET walk[x \in Ref] ==
        IF x = Nil THEN <<>>
        ELSE walk[tn[x].left] \o <<<<x, tn[x].key>>>> \o walk[tn[x].right]
  IN  walk[root]
Contents == INSTANCE AbstractTree WITH order <- Order
Implements == Contents!Spec
=============================================================================

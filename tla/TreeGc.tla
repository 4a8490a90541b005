------------------------------- MODULE TreeGc -------------------------------
(***************************************************************************)
(* Search trees under the generational collector: the tree operations of   *)
(* Tree, and what their stores do to the remembered set of gc.c.  Every    *)
(* store into the tree object or a node goes through set(), which notes a  *)
(* young node that a mature object comes to refer to, but one: tr_do_delete *)
(* and tr_do_delete_specific assign tr->root = succ directly.              *)
(***************************************************************************)
EXTENDS Tree

VARIABLES
  mature,      \* nodes of generation 1
  treeMature,  \* the tree object is of generation 1
  noted,       \* checkobj
  gone         \* nodes that the collector has reclaimed

gcVars == <<mature, treeMature, noted, gone>>

\* Deletion of n makes its successor the root without telling the collector.
RootStoredRaw == root # Nil /\ root' # root /\ tn[root].left # Nil
                 /\ tn[root].right # Nil /\ size' = size - 1 /\ maxSize' = maxSize

\* gc_set, for every store of the operation that changed something; a node that
\* was blank is a new object.
Note ==
  LET born    == {n \in Node : tn[n].key = Nil /\ tn'[n].key # Nil}
      changed == {<<n, f>> \in (mature \ born) \X {"left", "right"} :
                    tn'[n][f] # tn[n][f]}
      stored  == {tn'[c[1]][c[2]] : c \in changed}
                   \cup (IF treeMature /\ root' # root /\ ~RootStoredRaw
                         THEN {root'} ELSE {})
  IN  /\ mature' = mature \ born
      /\ gone' = gone \ born
      /\ noted' = (noted \ born) \cup (stored \ (mature' \cup {Nil}))
      /\ UNCHANGED treeMature

\* What a minor collection marks: it does not look into mature objects.
Marked ==
  LET roots == noted \cup (IF treeMature THEN {} ELSE {root} \ {Nil})
      reached[k \in 0..Cardinality(Node)] ==
        IF k = 0 THEN roots \ mature
        ELSE reached[k - 1] \cup
             (UNION {{tn[n].left, tn[n].right} : n \in reached[k - 1]}
                \ (mature \cup {Nil}))
  IN  reached[Cardinality(Node)]

\* gc() between two operations of the program, with nothing on its stack.
MinorGc ==
  /\ gone' = gone \cup ({n \in Node : tn[n].key # Nil} \ (mature \cup Marked))
  /\ mature' = mature \cup Marked
  /\ treeMature' = TRUE
  /\ noted' = {}
  /\ UNCHANGED vars

GcInit == Init /\ mature = {} /\ treeMature = FALSE /\ noted = {} /\ gone = {}

GcNext == (Next /\ Note) \/ MinorGc

GcSpec == GcInit /\ [][GcNext]_<<vars, gcVars>>

\* HACKING says of the stores that make a mature object refer to a young one:
\* "This problem is solved by identifying all such destructive operations in the
\* code base, and ensuring that they go through an appropriate interface".  No
\* node of the tree is reclaimed.
NoneReclaimed == Within(tn, root) \cap gone = {}
=============================================================================

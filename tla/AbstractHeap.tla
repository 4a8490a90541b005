---------------------------- MODULE AbstractHeap ----------------------------
(***************************************************************************)
(* What the interpreter is promised: a graph of cells in which a cell      *)
(* stays, with its fields, for as long as it can be reached, and where a   *)
(* new cell is none of those.  There is no collector, no generation and no *)
(* barrier here.                                                           *)
(***************************************************************************)
EXTENDS Reachability

CONSTANTS Obj, Slot, Nil

VARIABLES
  graph,   \* the reachable cells, each with its fields
  held     \* the cells the program holds references to

avars == <<graph, held>>

\* The references of each cell of g.
Edges(g) == [o \in DOMAIN g |-> {g[o][s] : s \in Slot} \ {Nil}]

\* g without the cells that h no longer reaches.
Trim(g, h) == [o \in ReachedFrom(h, Edges(g)) |-> g[o]]

Init == held = {} /\ graph = [o \in {} |-> [s \in Slot |-> Nil]]

\* A cell that the program cannot reach becomes a new object.
New ==
  \E o \in Obj \ DOMAIN graph :
    \E f \in [Slot -> held \cup {Nil}] \cup {graph[q] : q \in held} :
      /\ held' = held \cup {o}
      /\ graph' = [x \in DOMAIN graph \cup {o} |->
                     IF x = o THEN f ELSE graph[x]]

Assign ==
  \E p \in held, s \in Slot, c \in held \cup {Nil} :
    /\ graph' = Trim([graph EXCEPT ![p][s] = c], held)
    /\ held' = held

Overwrite ==
  \E p, q \in held :
    /\ graph' = Trim([graph EXCEPT ![p] = graph[q]], held)
    /\ held' = held

Fetch ==
  \E p \in held, s \in Slot :
    /\ graph[p][s] # Nil
    /\ held' = held \cup {graph[p][s]}
    /\ graph' = graph

Forget ==
  \E o \in held :
    /\ held' = held \ {o}
    /\ graph' = Trim(graph, held')

Next == New \/ Assign \/ Overwrite \/ Fetch \/ Forget

Spec == Init /\ [][Next]_avars
=============================================================================

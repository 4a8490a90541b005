----------------------------- MODULE MCGcFinal -----------------------------
(***************************************************************************)
(* Instances of GcFinal for TLC, and the programs that final_gc looks at.  *)
(***************************************************************************)
EXTENDS GcFinal, TLC

CONSTANTS a, b, c

OneBlock == {{a, b, c}}
Symmetry == Permutations({a, b, c})

\* A finalizer called by gc() registers its own object again, with a function,
\* and neither refers to a third cell, which gc() may be about to demote.
RegistersItself ==
  inprogress /\ Len(finals') > Len(finals) =>
    \E e \in Entry :
      /\ finals' \in {Append(finals, e), <<e>> \o finals}
      /\ e.obj = Head(Top.todo).obj
      /\ Children(e.obj) \cup Children(e.fun) \subseteq {e.obj, e.fun}

\* Bound: a finalizer called by call-finalizers allocates, collects, returns
\* and throws.
AllocatesOnly ==
  calls # <<>> /\ ~inprogress =>
    /\ pc = "run" /\ pc' = "run" => calls' # calls
    /\ op'.kind # "store"

\* No finalizer has thrown past the count of an object that is still there.
CountsExact ==
  \A o \in live :
    fincount[o] =
      Cardinality({i \in DOMAIN finals : finals[i].obj = o}) +
      Cardinality({d \in Detached : calls[d[1]].todo[d[2]].obj = o})

\* Bound: two cells are in use while there is a count left by a throw.
FewAfterThrow == CountsExact \/ Cardinality(live) <= 2

HarmlessSpec ==
  FinalInit
  /\ [][FinalNext /\ Single' /\ RegistersItself /\ AllocatesOnly /\ FewAfterThrow']_allVars
=============================================================================

------------------------------ MODULE GcFinal ------------------------------
(***************************************************************************)
(* Finalization (gc.c): the registration list, the phases prepare_finals   *)
(* and call_finals of a collection, and explicit call-finalizers.          *)
(*                                                                         *)
(* A finalizer is Lisp code.  Called by gc(), it runs in the middle of an  *)
(* allocation or a store, with collection disabled; called by              *)
(* call-finalizers it runs like any function.  While it runs, pc is "run"  *)
(* and it takes the mutator's steps of GcHeap; pc = "call" between two     *)
(* finalizers.                                                             *)
(***************************************************************************)
EXTENDS GcHeap, Sequences

CONSTANTS
  RegMax,      \* bound: the registrations that are pending or being called
  FinMax,      \* the largest value of the bit field t.fincount
  DepthMax,    \* bound: the nesting of call_finalizers_impl
  FinalizerMay,\* what a finalizer called by gc() does: "store", "register",
               \* "throw"
  Background   \* bound: whether "malloc" pressure and "gc-state" are explored

ASSUME FinalAssumption ==
  /\ RegMax \in Nat /\ FinMax \in Nat \ {0} /\ DepthMax \in Nat
  /\ FinalizerMay \subseteq {"store", "register", "throw"}

VARIABLES
  finals,      \* final_list
  fincount,    \* t.fincount
  calls,       \* the activations of call_finalizers_impl, innermost last
  inprogress   \* inprogress

finVars == <<finals, fincount, calls, inprogress>>
allVars == <<vars, finVars>>

Entry == [obj : Obj, fun : Obj, reachable : BOOLEAN]

\* An activation: the list found, detached from final_list; the object asked
\* for (Nil in call_finals); and what its caller continues with.
Frame == [todo : Seq(Entry), ctx : Ref, saved : SUBSET Obj,
          op : Op, tries : 0..3]

Top == calls[Len(calls)]

\* The elements of s that are in S, in their order: among the first n, and all.
Sifted(s, S) ==
  LET f[n \in 0..Len(s)] == IF n = 0 THEN <<>>
                            ELSE IF s[n] \in S THEN Append(f[n - 1], s[n])
                            ELSE f[n - 1]
  IN  f

Only(s, S) == Sifted(s, S)[Len(s)]

\* What the C frames of the activations hold, besides the running code's own
\* variables: found itself is malloc storage that the collector does not scan.
PinnedBy(f) ==
  f.saved \cup ({f.ctx} \ {Nil}) \cup
  (IF f.todo = <<>> THEN {} ELSE {Head(f.todo).obj, Head(f.todo).fun})

Pinned == UNION {PinnedBy(calls[i]) : i \in DOMAIN calls}

FinalTypeOK ==
  /\ pc \in {"run", "gc", "find", "store", "call", "abort", "oom"}
  /\ finals \in Seq(Entry)
  /\ fincount \in [Obj -> 0..FinMax]
  /\ calls \in Seq(Frame)
  /\ inprogress \in BOOLEAN

FinalInit ==
  /\ Init
  /\ finals = <<>> /\ calls = <<>> /\ inprogress = FALSE
  /\ fincount = [o \in Obj |-> 0]

Pending == Len(finals) + Len(IF calls = <<>> THEN <<>> ELSE Top.todo)

NewEntry_Unreachable(o, f) == [obj |-> o, fun |-> f, reachable |-> FALSE]

\* A registration; it counts as reachable until a collection finds otherwise.
NewEntry(o, f) == [obj |-> o, fun |-> f, reachable |-> TRUE]

\* ++obj->t.fincount, in a bit field.
Counted(o) == [fincount EXCEPT ![o] = (@ + 1) % (FinMax + 1)]

AtLimit_Never(o) == FALSE

\* The bit field would wrap.
AtLimit(o) == Counted(o)[o] = 0

\* gc_finalize.  At the limit of the bit field it throws, which changes
\* nothing here.
Finalize(o, f, reverse) ==
  /\ pc = "run"
  /\ inprogress => "register" \in FinalizerMay
  /\ Pending < RegMax
  /\ ~AtLimit(o)
  /\ finals' = IF reverse THEN <<NewEntry(o, f)>> \o finals
                          ELSE Append(finals, NewEntry(o, f))
  /\ fincount' = Counted(o)
  /\ UNCHANGED <<vars, calls, inprogress>>

-----------------------------------------------------------------------------
(* The collection.                                                         *)

IsReachable_MarkedOnly(o, full, marked) == o \in marked

\* is_reachable, after the mark phase of a collection.
IsReachable(o, full, marked) == (~full /\ gen[o] > 0) \/ o \in marked

\* prepare_finals decides who is reachable before it marks anything more.
Prepared(full, marked) ==
  [i \in DOMAIN finals |->
     [finals[i] EXCEPT !.reachable = IsReachable(finals[i].obj, full, marked)]]

FinalRoots_ObjectsOnly == {finals[i].obj : i \in DOMAIN finals}

\* What prepare_finals marks besides what is reachable already.
FinalRoots == UNION {{finals[i].obj, finals[i].fun} : i \in DOMAIN finals}

Unreachable == {e \in Entry : ~e.reachable}

\* gc() with its finalizers: what they refer to is marked too, and swept as
\* survivors; then call_finals takes the unreachable ones off the list.
FinalGc ==
  /\ pc = "gc"
  /\ \E junk \in {j \in SUBSET live : Cardinality(j) <= JunkMax} :
       LET full   == fullGc \/ pressure
           first  == Marked(full, junk \cup Pinned)
           marked == Marked(full, junk \cup Pinned \cup FinalRoots)
           ready  == Prepared(full, first)
           found  == Only(ready, Unreachable)
       IN  IF GcAborts(full, marked) \/ ~gcEnabled \/ inprogress
             THEN /\ pc' = "abort"
                  /\ UNCHANGED <<heapVars, listVars, gcVars, op, finVars,
                                 roots, tries>>
             ELSE /\ finals' = Only(ready, Entry \ Unreachable)
                  /\ fincount' = fincount
                  /\ IF found = <<>>
                       THEN /\ Collect(full, marked, Resume(op))
                            /\ op' = Resumed(op)
                            /\ UNCHANGED <<gcEnabled, calls, inprogress, roots,
                                           tries>>
                       ELSE /\ Collect(full, marked, "call")
                            /\ calls' = Append(calls,
                                 [todo |-> found, ctx |-> Nil, saved |-> roots,
                                  op |-> op, tries |-> tries])
                            /\ op' = Idle /\ tries' = 0
                            /\ gcEnabled' = FALSE /\ inprogress' = TRUE
                            /\ UNCHANGED roots

-----------------------------------------------------------------------------
(* call_finalizers_impl.                                                   *)

Matching(o) == {e \in Entry : e.obj = o}

\* call-finalizers: detach the object's entries and begin to call them.
CallFinalizers(o) ==
  /\ pc = "run" /\ Len(calls) < DepthMax
  /\ LET found == Only(finals, Matching(o)) IN
         /\ found # <<>>
         /\ finals' = Only(finals, Entry \ Matching(o))
         /\ calls' = Append(calls, [todo |-> found, ctx |-> o, saved |-> roots,
                                    op |-> Idle, tries |-> 0])
  /\ pc' = "call"
  /\ UNCHANGED <<heapVars, listVars, gcVars, roots, op, tries, fincount,
                 inprogress>>

\* The next finalizer is called with its object.
CallNext ==
  /\ pc = "call" /\ Top.todo # <<>>
  /\ roots' = roots \cup {Head(Top.todo).obj, Head(Top.todo).fun}
  /\ pc' = "run"
  /\ UNCHANGED <<heapVars, listVars, gcVars, op, tries, finVars>>

Demoted_Always(e) == fincount[e.obj] = 1 /\ ~fullGc

\* The object is made a baby again when its last finalizer was called because
\* it is unreachable, so that the next minor collection can reclaim it.
Demoted(e) ==
  /\ fincount[e.obj] = 1 /\ inprogress /\ ~fullGc /\ ~e.reachable

Room == Cardinality(fresh) < FreshMax

MakeBaby(o) == gen' = [gen EXCEPT ![o] = 0] /\ fresh' = fresh \cup {o}

\* A finalizer returns.
Return ==
  /\ pc = "run" /\ calls # <<>>
  /\ LET e == Head(Top.todo) IN
       /\ fincount' = [fincount EXCEPT ![e.obj] = @ - 1]
       /\ IF Demoted(e)
            THEN IF Room
                   THEN MakeBaby(e.obj) /\ fullGc' = fullGc
                   ELSE fullGc' = TRUE /\ UNCHANGED <<gen, fresh>>
            ELSE UNCHANGED <<gen, fresh, fullGc>>
  /\ calls' = [calls EXCEPT ![Len(calls)].todo = Tail(@)]
  /\ roots' = Top.saved
  /\ pc' = "call"
  /\ UNCHANGED <<heaps, live, slot, flag, check, mutd, gcEnabled, gcCounter,
                 pressure, op, tries, finals, inprogress>>

Again == IF Top.ctx = Nil THEN Unreachable ELSE Matching(Top.ctx)

\* The list is used up: another round when more finalizers qualify by now, or
\* the end of the activation, which for call_finals is the end of gc().
EndRound ==
  /\ pc = "call" /\ Top.todo = <<>>
  /\ finals' = Only(finals, Entry \ Again)
  /\ LET found == Only(finals, Again) IN
       IF found # <<>>
         THEN /\ calls' = [calls EXCEPT ![Len(calls)].todo = found]
              /\ UNCHANGED <<pc, op, tries, gcEnabled, pressure, inprogress>>
         ELSE /\ calls' = SubSeq(calls, 1, Len(calls) - 1)
              /\ pc' = Resume(Top.op) /\ op' = Resumed(Top.op)
              /\ tries' = Top.tries
              /\ IF Top.ctx = Nil
                   THEN gcEnabled' = TRUE /\ inprogress' = FALSE /\ pressure' = FALSE
                   ELSE UNCHANGED <<gcEnabled, inprogress, pressure>>
  /\ UNCHANGED <<heapVars, listVars, fullGc, gcCounter, roots, fincount>>

\* A finalizer throws past its caller: extjmp_restore puts gc_enabled back to
\* what it was at the catch, and leaves inprogress alone.
Throw ==
  /\ pc = "run" /\ calls # <<>>
  /\ inprogress => "throw" \in FinalizerMay
  /\ \E k \in 0..Len(calls) - 1 :
       /\ calls' = SubSeq(calls, 1, k)
       /\ roots' = calls[k + 1].saved
       /\ gcEnabled' = (gcEnabled \/
                          /\ inprogress
                          /\ \A i \in 1..k : calls[i].ctx # Nil)
  /\ tries' = 0
  /\ UNCHANGED <<heapVars, listVars, fullGc, gcCounter, pressure, pc, op,
                 finals, fincount, inprogress>>

-----------------------------------------------------------------------------
\* The heap's own steps, in the program or in a finalizer.
Allocate ==
  /\ TakeFree
  /\ fincount' = [o \in Obj |-> IF o \in live' \ live THEN 0 ELSE fincount[o]]
  /\ UNCHANGED <<finals, calls, inprogress>>

Store ==
  /\ inprogress => "store" \in FinalizerMay
  /\ \/ \E p \in roots, s \in Slot, c \in roots \cup {Nil} : Set(p, s, c)
     \/ \E p, q \in roots : Replace(p, q)
  /\ UNCHANGED finVars

Other ==
  /\ \/ MakeObj \/ Refill \/ FinishSet
     \/ \E p \in roots, s \in Slot : Load(p, s)
     \/ \E o \in roots : Drop(o)
     \/ "malloc" \in Background /\ Malloc
     \/ \E b \in BOOLEAN : GcWrap(b)
     \/ \E b \in BOOLEAN :
          "gc-state" \in Background /\ ~inprogress /\ GcState(b)
  /\ UNCHANGED finVars

FinalNext ==
  \/ FinalGc \/ CallNext \/ Return \/ EndRound \/ Throw
  \/ Allocate \/ Store \/ Other
  \/ \E o, f \in roots, reverse \in BOOLEAN : Finalize(o, f, reverse)
  \/ \E o \in roots : CallFinalizers(o)

FinalSpec == FinalInit /\ [][FinalNext]_allVars

\* A restriction on programs, for some of what follows: no object has two
\* registrations when its finalizers are called explicitly.
Single == \A i \in DOMAIN calls : calls[i].ctx # Nil => Len(calls[i].todo) <= 1

-----------------------------------------------------------------------------
(* Properties.                                                             *)

\* The cells the running program, or a C frame below it, can get at.
Accessible == ReachedFrom(roots \cup Pinned, [o \in Obj |-> Children(o)])

\* Nothing the program can get at is reclaimed.
AccessibleLive == Accessible \subseteq live

\* The entries of the activation that is at work, and of those below it whose
\* first entry is being called.
Detached == {d \in (DOMAIN calls) \X (1..RegMax) : d[2] \in DOMAIN calls[d[1]].todo}

\* Every registration, waiting or about to be called, keeps its object and its
\* function.
RegistrationsLive ==
  /\ FinalRoots \subseteq live
  /\ \A d \in Detached : LET e == calls[d[1]].todo[d[2]] IN
                           {e.obj, e.fun} \subseteq live

\* t.fincount never falls below the number of registrations against the object
\* that are waiting or have not returned: the test that demotes an object
\* relies on it.  (A finalizer that throws leaves it too high.)
FincountCovers ==
  \A o \in live :
    fincount[o] >=
      Cardinality({i \in DOMAIN finals : finals[i].obj = o}) +
      Cardinality({d \in Detached : calls[d[1]].todo[d[2]].obj = o})

\* gc() finalizes an object only when the program cannot get at it, and a full
\* collection misses none: an object whose finalizers stay registered is
\* reachable from the program or from a stray word.
FinalizesUnreachable ==
  [][pc = "gc" /\ pc' # "abort" =>
       /\ \A i \in DOMAIN calls' \ DOMAIN calls :
            \A j \in DOMAIN calls'[i].todo :
              calls'[i].todo[j].obj \notin Accessible
       /\ fullGc \/ pressure =>
            \E junk \in SUBSET live :
              /\ Cardinality(junk) <= JunkMax
              /\ {finals'[i].obj : i \in DOMAIN finals'} \subseteq
                   ReachedFrom(roots \cup Pinned \cup junk,
                               [o \in Obj |-> Children(o)])]_allVars

\* The list that call_finals works on only gets shorter: what a finalizer
\* registers, for its own object or another, is not called in the same
\* collection, or a finalizer that registers itself would keep gc() from ever
\* returning.  (call-finalizers does go on with what it registers.)
RoundsShrink ==
  [][\A i \in DOMAIN calls \cap DOMAIN calls' :
       calls[i].ctx = Nil /\ calls'[i].ctx = Nil =>
         Len(calls'[i].todo) <= Len(calls[i].todo)]_allVars
=============================================================================

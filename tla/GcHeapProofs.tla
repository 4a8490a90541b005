---------------------------- MODULE GcHeapProofs ----------------------------
(***************************************************************************)
(* The heap of GcHeap is safe for every number and size of heap blocks,    *)
(* every number of fields and every size of the three lists: no dangling   *)
(* reference, no missed old-to-young reference, no abort.                  *)
(*                                                                         *)
(* The argument is the usual one for a generational collector.  Between    *)
(* two collections every cell that is not mature is listed (ListsExact)    *)
(* and every such cell that a mature one refers to is noted (Remembered),  *)
(* so the set a minor collection marks, together with the mature cells, is *)
(* closed under references; that is what keeps NoDangling true when the    *)
(* unmarked listed cells are reclaimed.                                    *)
(*                                                                         *)
(* What the collector amounts to is then a heap that never reclaims        *)
(* anything (AbstractHeap), kept within what is reachable.  The refinement *)
(* mapping shows the program the cells it can reach, with their fields.  A *)
(* step of the allocator or the collector leaves that graph as it is,      *)
(* because what is reachable is allocated (NoDangling) and sweep clears no *)
(* cell it keeps; a step of the mutator changes it the way the abstract    *)
(* operation does and drops what is no longer reached.                     *)
(***************************************************************************)
EXTENDS GcHeap, TLAPS, FiniteSetTheorems

(* What characterises ReachedFrom, for every graph. *)

\* The starting points are reached.
LEMMA ReachedStart ==
  ASSUME NEW succ, NEW start \in SUBSET DOMAIN succ
  PROVE  start \subseteq ReachedFrom(start, succ)
BY DEF ReachedFrom

\* Whatever a reached cell refers to is reached.
LEMMA ReachedClosed ==
  ASSUME NEW succ, NEW start,
         \A o \in DOMAIN succ : succ[o] \subseteq DOMAIN succ
  PROVE  IsClosed(ReachedFrom(start, succ), succ)
<1> SUFFICES ASSUME NEW o \in ReachedFrom(start, succ), NEW c \in succ[o]
             PROVE  c \in ReachedFrom(start, succ)
  BY DEF IsClosed
<1>1. c \in DOMAIN succ
  BY DEF ReachedFrom
<1>2. ASSUME NEW S \in SUBSET DOMAIN succ, start \subseteq S, IsClosed(S, succ)
      PROVE  c \in S
  BY <1>2 DEF ReachedFrom, IsClosed
<1> QED
  BY <1>1, <1>2 DEF ReachedFrom

\* Nothing else is reached: a closed set that holds the starting points holds
\* everything reached from them.
LEMMA ReachedLeast ==
  ASSUME NEW succ, NEW start, NEW S \in SUBSET DOMAIN succ,
         start \subseteq S, IsClosed(S, succ)
  PROVE  ReachedFrom(start, succ) \subseteq S
BY DEF ReachedFrom

-----------------------------------------------------------------------------

\* Where a pending operation stands.
Control ==
  /\ pc \in {"run", "find"} => op = Idle
  /\ pc \in {"gc", "store"} /\ op.kind = "store" =>
       op.p \in roots /\ op.s \in Slot /\ op.c \in roots
  /\ pc = "store" => op.kind = "store" /\ gen[op.c] = 1
  /\ pc = "gc" => gcEnabled
  /\ pc = "gc" /\ op.kind = "find" => tries <= 1
  /\ pc = "find" /\ tries >= 2 => Free # {}

\* The inductive invariant.
IInv ==
  /\ TypeOK
  /\ NoDangling
  /\ NoAbort
  /\ Remembered
  /\ ListsExact
  /\ NoStaleMarks
  /\ Control

-----------------------------------------------------------------------------
\* The initial, empty heap satisfies the invariant.
LEMMA InitIInv == Init => IInv
<1> SUFFICES ASSUME Init PROVE IInv
  OBVIOUS
<1>1. TypeOK
  <2>1. /\ slot \in [Obj -> [Slot -> Ref]]
        /\ gen \in [Obj -> {-1, 0, 1}]
    BY DEF Init, Ref
  <2>2. op \in Op
    BY DEF Init, Idle, Op, Ref
  <2>3. gcCounter \in 0..Interval /\ tries \in 0..3
    BY SizeAssumption DEF Init
  <2> QED BY <2>1, <2>2, <2>3 DEF Init, TypeOK
<1>2. NoDangling /\ NoAbort /\ Remembered /\ ListsExact /\ NoStaleMarks
  BY DEF Init, NoDangling, NoAbort, Remembered, ListsExact, NoStaleMarks
<1>3. Control
  BY DEF Init, Control
<1> QED BY <1>1, <1>2, <1>3 DEF IInv

\* The children of a cell are cells.
LEMMA ChildrenType ==
  ASSUME TypeOK, NEW o \in Obj
  PROVE  Children(o) \subseteq Obj
BY DEF TypeOK, Children, Ref

\* What a collection marks: its starting points, closed under the references
\* it follows, and only allocated cells.
LEMMA MarkedFacts ==
  ASSUME IInv, NEW full \in BOOLEAN, fullGc => full, NEW junk \in SUBSET live
  PROVE  LET start == roots \cup junk \cup
                      (IF full THEN {} ELSE check \cup mutd)
             marked == Marked(full, junk)
         IN  /\ marked \subseteq Entered(live, full)
             /\ Entered(start, full) \subseteq marked
             /\ \A o \in marked : Entered(Children(o), full) \subseteq marked
<1> DEFINE start == roots \cup junk \cup (IF full THEN {} ELSE check \cup mutd)
           succ == [o \in Obj |-> Entered(Children(o), full)]
           first == Entered(start, full)
<1>1. start \subseteq live /\ live \subseteq Obj
  BY DEF IInv, TypeOK, NoDangling, ListsExact
<1>2. first \subseteq Entered(live, full) /\ Entered(live, full) \subseteq live
  BY <1>1 DEF Entered
<1>3. \A o \in DOMAIN succ : succ[o] \subseteq DOMAIN succ
  BY ChildrenType DEF Entered, IInv
<1>4. IsClosed(Entered(live, full), succ)
  BY <1>1, <1>2 DEF IsClosed, Entered, IInv, NoDangling
<1>5. Marked(full, junk) = ReachedFrom(first, succ)
  BY DEF Marked
<1> HIDE DEF succ, first
<1>6. DOMAIN succ = Obj
  BY DEF succ
<1>7. first \subseteq Marked(full, junk)
  BY <1>1, <1>2, <1>5, <1>6, ReachedStart
<1>8. Marked(full, junk) \subseteq Entered(live, full)
  BY <1>1, <1>2, <1>4, <1>5, <1>6, ReachedLeast
<1>9. IsClosed(Marked(full, junk), succ)
  BY <1>3, <1>5, ReachedClosed
<1>10. \A o \in Marked(full, junk) :
         Entered(Children(o), full) \subseteq Marked(full, junk)
  BY <1>1, <1>2, <1>8, <1>9 DEF IsClosed, succ
<1> QED BY <1>7, <1>8, <1>10 DEF first

-----------------------------------------------------------------------------
(* Type correctness, action by action.                                     *)

\* Every step of the specification preserves the types.
LEMMA NextTypeOK == TypeOK /\ [Next]_vars => TypeOK'
<1> SUFFICES ASSUME TypeOK, [Next]_vars PROVE TypeOK'
  OBVIOUS
<1>0. Idle \in Op /\ [Idle EXCEPT !.kind = "find"] \in Op
  BY DEF Idle, Op, Ref
<1>1. CASE MakeObj
  BY <1>0, <1>1 DEF TypeOK, MakeObj, heapVars, listVars, gcVars
<1>2. CASE TakeFree
  <2> PICK o \in Free, f \in InitialSlots :
        /\ live' = live \cup {o}
        /\ slot' = [slot EXCEPT ![o] = f]
        /\ gen' = [gen EXCEPT ![o] = 0]
        /\ fresh' = IF FullNow THEN fresh ELSE fresh \cup {o}
        /\ roots' = roots \cup {o}
    BY <1>2 DEF TakeFree
  <2>1. o \in Obj
    BY DEF Free, TypeOK, Obj
  <2>2. f \in [Slot -> Ref]
    BY DEF InitialSlots, TypeOK, Ref
  <2>3. slot' \in [Obj -> [Slot -> Ref]] /\ gen' \in [Obj -> {-1, 0, 1}]
    BY <2>1, <2>2 DEF TypeOK
  <2>4. fullGc' \in BOOLEAN
    BY <1>2 DEF TakeFree, FullNow, TypeOK
  <2> QED BY <1>2, <2>1, <2>3, <2>4 DEF TypeOK, TakeFree
<1>3. CASE Refill
  <2>1. fullGc' \in BOOLEAN
    BY <1>3 DEF Refill, FullNow, TypeOK
  <2>2. tries' \in 0..3 /\ pc' \in {"find", "gc", "abort", "oom"}
    BY <1>3 DEF Refill, More, TypeOK
  <2>3. heaps' \subseteq Heaps /\ op' \in Op
    BY <1>0, <1>3 DEF Refill, More, TypeOK
  <2> QED BY <1>3, <2>1, <2>2, <2>3 DEF TypeOK, Refill, listVars
<1>4. CASE Gc
  <2>1. tries' = tries /\ roots' = roots
    BY <1>4 DEF Gc
  <2>2. CASE UNCHANGED <<heapVars, listVars, gcVars, op>> /\ pc' = "abort"
    BY <2>1, <2>2 DEF TypeOK, heapVars, listVars, gcVars
  <2>3. CASE ~(UNCHANGED <<heapVars, listVars, gcVars, op>> /\ pc' = "abort")
    <3> PICK full \in BOOLEAN, junk \in SUBSET live :
          /\ Collect(full, Marked(full, junk), Resume(op))
          /\ op' = Resumed(op) /\ gcEnabled' = gcEnabled
      BY <1>4, <2>3 DEF Gc, TypeOK
    <3>1. heaps' \subseteq Heaps /\ live' \subseteq Obj
      BY DEF Collect, Kept, InUse, TypeOK
    <3>2. slot' \in [Obj -> [Slot -> Ref]]
      BY DEF Collect, TypeOK, Ref
    <3>3. gen' \in [Obj -> {-1, 0, 1}]
      BY DEF Collect, TypeOK
    <3>4. flag' \subseteq Obj
      BY DEF Collect, TypeOK, Marked, ReachedFrom
    <3>5. gcCounter' \in 0..Interval /\ fullGc' \in BOOLEAN
      <4>1. fullGc' = FullDue /\ FullDue \in BOOLEAN
        BY DEF Collect, FullDue
      <4>2. gcCounter' = IF FullDue THEN 0 ELSE gcCounter + 1
        BY DEF Collect
      <4>3. ~FullDue => gcCounter + 1 < Interval
        BY SizeAssumption DEF TypeOK, FullDue
      <4> QED BY <4>1, <4>2, <4>3, SizeAssumption DEF TypeOK
    <3>6. pc' \in {"run", "find", "store", "oom"} /\ op' \in Op
      BY <1>0 DEF Collect, Resume, Resumed, TypeOK, Op
    <3>7. fresh' = {} /\ check' = {} /\ mutd' = {} /\ pressure' = FALSE
      BY DEF Collect
    <3> QED BY <2>1, <3>7, <3>1, <3>2, <3>3, <3>4, <3>5, <3>6 DEF TypeOK
  <2> QED BY <2>2, <2>3
<1>5. CASE FinishSet
  <2>1. op.p \in Ref /\ op.s \in Slot \cup {Nil} /\ op.c \in Ref
    BY DEF TypeOK, Op
  <2>2. slot' \in [Obj -> [Slot -> Ref]]
    BY <1>5, <2>1 DEF FinishSet, Write, TypeOK
  <2> QED BY <1>0, <1>5, <2>2 DEF TypeOK, FinishSet, listVars, gcVars
<1>6. CASE Malloc
  BY <1>6 DEF TypeOK, Malloc, heapVars, listVars, ctlVars
<1>7. ASSUME NEW p \in roots, NEW s \in Slot, Load(p, s) PROVE TypeOK'
  <2>1. slot[p][s] \in Obj
    BY <1>7 DEF Load, TypeOK, Ref
  <2> QED
    BY <1>7, <2>1 DEF TypeOK, Load, heapVars, listVars, gcVars, ctlVars
<1>8. ASSUME NEW p \in roots, NEW s \in Slot, NEW c \in roots \cup {Nil},
             Set(p, s, c)
      PROVE  TypeOK'
  <2>1. p \in Obj /\ c \in Ref
    BY DEF TypeOK, Ref
  <2>2. Write(p, s, c) => slot' \in [Obj -> [Slot -> Ref]]
    BY <2>1 DEF Write, TypeOK
  <2>3. [kind |-> "store", p |-> p, s |-> s, c |-> c] \in Op
    BY <2>1 DEF Op, Ref
  <2>4. /\ slot' \in [Obj -> [Slot -> Ref]]
        /\ gen' \in [Obj -> {-1, 0, 1}]
        /\ check' \subseteq Obj
        /\ fullGc' \in BOOLEAN
        /\ pc' \in {"run", "gc"}
        /\ op' \in Op
    BY <1>8, <2>1, <2>2, <2>3 DEF Set, Unsafe, TypeOK, Ref
  <2> QED BY <1>8, <2>4 DEF Set, TypeOK
<1>9. ASSUME NEW p \in roots, NEW q \in roots, Replace(p, q) PROVE TypeOK'
  <2>0. p \in Obj /\ slot[q] \in [Slot -> Ref]
    BY DEF TypeOK
  <2>1. slot' \in [Obj -> [Slot -> Ref]]
    BY <1>9, <2>0 DEF Replace, TypeOK
  <2>2. gen' \in [Obj -> {-1, 0, 1}]
    BY <1>9, <2>0 DEF Replace, TypeOK
  <2>3. mutd' \subseteq Obj /\ fullGc' \in BOOLEAN /\ pc' \in {"run", "gc"}
    BY <1>9, <2>0 DEF Replace, TypeOK
  <2> QED BY <1>9, <2>1, <2>2, <2>3 DEF Replace, TypeOK
<1>10. ASSUME NEW o \in roots, Drop(o) PROVE TypeOK'
  BY <1>10 DEF TypeOK, Drop, heapVars, listVars, gcVars, ctlVars
<1>11. ASSUME NEW b \in BOOLEAN, GcState(b) \/ GcWrap(b) PROVE TypeOK'
  BY <1>11 DEF TypeOK, GcState, GcWrap, heapVars, listVars, ctlVars
<1>12. CASE UNCHANGED vars
  BY <1>12 DEF TypeOK, vars, heapVars, listVars, gcVars, ctlVars
<1> QED
  BY <1>1, <1>2, <1>3, <1>4, <1>5, <1>6, <1>7, <1>8, <1>9, <1>10, <1>11, <1>12
     DEF Next

\* Every state variable keeps its type.
THEOREM TypeCorrect == Spec => []TypeOK
<1>1. Init => TypeOK
  BY InitIInv DEF IInv
<1> QED BY <1>1, NextTypeOK, PTL DEF Spec

-----------------------------------------------------------------------------
(* The collection preserves the invariant.                                 *)

\* A collection that starts in a good state does not abort, leaves every
\* surviving cell mature and unmarked and the lists empty, and reclaims no
\* cell that a survivor refers to.
LEMMA GcStep ==
  IInv /\ TypeOK' /\ Gc => IInv' /\ \A o \in live' : gen'[o] = 1
<1> SUFFICES ASSUME IInv, TypeOK', Gc
             PROVE  IInv' /\ \A o \in live' : gen'[o] = 1
  OBVIOUS
<1> USE DEF IInv
<1>a. pc = "gc" /\ gcEnabled /\ flag = {}
  BY DEF Gc, Control, NoStaleMarks
<1> DEFINE full == fullGc \/ pressure
<1> PICK junk \in SUBSET live :
      /\ IF GcAborts(full, Marked(full, junk))
           THEN pc' = "abort"
           ELSE /\ Collect(full, Marked(full, junk), Resume(op))
                /\ op' = Resumed(op)
      /\ UNCHANGED <<gcEnabled, roots, tries>>
  BY <1>a DEF Gc, gcVars
<1> DEFINE marked == Marked(full, junk)
           swept == SweepSet(full)
           kept == live \ (swept \ marked)
<1>b. full \in BOOLEAN /\ (fullGc => full) /\ junk \in SUBSET live
  BY DEF TypeOK
<1>1. /\ marked \subseteq live
      /\ marked \subseteq Entered(live, full)
      /\ Entered(roots \cup junk, full) \subseteq marked
      /\ ~full => Entered(check \cup mutd, full) \subseteq marked
      /\ \A o \in marked : Entered(Children(o), full) \subseteq marked
  BY <1>b, MarkedFacts DEF Entered
<1> HIDE DEF marked
\* What sweep is given to visit.
<1>2. ~full => /\ ~fullGc
               /\ swept \subseteq live
               /\ \A o \in swept : gen[o] <= 0
               /\ \A o \in live \ swept : gen[o] = 1
               /\ \A o \in check \cup mutd : gen[o] = -1
               /\ fresh \cap mutd = {}
  BY DEF ListsExact, SweepSet, TypeOK, NoDangling
<1>3. full => live \subseteq swept
  BY DEF SweepSet, NoDangling
<1>4. ~GcAborts(full, marked)
  BY <1>1, <1>2 DEF GcAborts, SweepSet
<1>5. /\ live' = kept
      /\ slot' = [o \in Obj |-> IF o \in kept THEN slot[o]
                                ELSE [s \in Slot |-> Nil]]
      /\ gen' = [o \in Obj |-> IF o \notin kept THEN 0
                               ELSE IF o \in swept THEN 1
                               ELSE IF o \in marked /\ gen[o] = -1 THEN 0
                               ELSE gen[o]]
      /\ flag' = marked \ swept
      /\ {h \in heaps : ~full \/ h \cap kept # {}} \subseteq heaps'
      /\ pc' \in {"oom", IF op.kind = "none" THEN "run" ELSE op.kind}
      /\ fresh' = {} /\ check' = {} /\ mutd' = {}
      /\ op' = IF op.kind = "store" THEN op ELSE Idle
      /\ UNCHANGED <<gcEnabled, roots, tries>>
  BY <1>a, <1>4 DEF marked, Collect, Kept, InUse, Resume, Resumed
\* In a minor collection the marker enters every baby and no mature cell.
<1>6. \A S : Entered(S, full) = {o \in S : full \/ gen[o] <= 0}
  BY <1>a DEF Entered, Enters
<1>7. kept \subseteq Obj /\ live \subseteq Obj
  BY DEF TypeOK
<1>8. \A o \in kept : gen'[o] = 1
  BY <1>2, <1>3, <1>5, <1>7
<1>9. roots \subseteq kept
  <2> SUFFICES ASSUME NEW o \in roots, o \in swept PROVE o \in marked
    BY DEF NoDangling
  <2>1. full \/ gen[o] <= 0
    BY <1>2
  <2> QED BY <1>1, <1>6, <2>1
<1>10. \A o \in kept : Children(o) \subseteq kept
  <2> SUFFICES ASSUME NEW o \in kept, NEW c \in Children(o), c \in swept
               PROVE  c \in marked
    BY DEF NoDangling
  <2>1. full \/ gen[c] <= 0
    BY <1>2
  <2>2. CASE o \in marked
    BY <1>1, <1>6, <2>1, <2>2
  <2>3. CASE o \notin marked
    <3>1. ~full /\ gen[o] = 1 /\ gen[c] <= 0
      BY <1>2, <1>3, <2>1, <2>3
    <3>2. CASE Tracked(o)
      <4>1. c \in check \cup mutd
        BY <3>1, <3>2 DEF Tracked
      <4> QED BY <1>1, <1>6, <3>1, <4>1
    <3>3. CASE \E q \in roots : slot[q] = slot[o] /\ (gen[q] <= 0 \/ Tracked(q))
      <4> PICK q \in roots : slot[q] = slot[o] /\ (gen[q] <= 0 \/ Tracked(q))
        BY <3>3
      <4>1. c \in Children(q)
        BY DEF Children
      <4>2. CASE gen[q] <= 0
        BY <1>1, <1>6, <3>1, <4>1, <4>2
      <4>3. CASE Tracked(q)
        <5>1. c \in check \cup mutd
          BY <3>1, <4>1, <4>3 DEF Tracked
        <5> QED BY <1>1, <1>6, <3>1, <5>1
      <4> QED BY <4>2, <4>3
    <3> QED BY <1>2, <3>1, <3>2, <3>3 DEF Remembered
  <2> QED BY <2>2, <2>3
<1>11. \A o \in kept : Children(o)' = Children(o)
  BY <1>5, <1>7 DEF Children
<1>12. NoDangling'
  <2>1. live' \subseteq UNION heaps'
    BY <1>5 DEF NoDangling
  <2> QED BY <1>5, <1>9, <1>10, <1>11, <2>1 DEF NoDangling
<1>13. Remembered' /\ ListsExact'
  <2>1. \A p \in live' : Tracked(p)'
    BY <1>5, <1>8, <1>10, <1>11 DEF Tracked
  <2> QED BY <1>5, <1>8, <2>1 DEF Remembered, ListsExact
<1>14. NoStaleMarks'
  <2>1. ~full => marked \subseteq swept
    <3>1. ~full => \A o \in marked : gen[o] <= 0
      BY <1>1, <1>6
    <3> QED BY <1>1, <1>2, <3>1
  <2> QED BY <1>1, <1>3, <1>5, <2>1 DEF NoStaleMarks
<1>15. Control' /\ NoAbort'
  <2>1. op.kind \in {"none", "find", "store"} /\ tries \in 0..3
    BY DEF TypeOK, Op
  <2>2. op.kind = "store" => op.c \in roots /\ gen'[op.c] = 1
    BY <1>a, <1>8, <1>9 DEF Control
  <2>3. pc' # "abort" /\ pc' # "gc"
    BY <1>5, <2>1
  <2>4. pc' = "store" => op.kind = "store" /\ op' = op
    BY <1>5, <2>1
  <2>5. pc' = "find" => op.kind = "find"
    BY <1>5, <2>1
  <2>6. pc' \in {"run", "find"} => op' = Idle
    BY <1>5, <2>1
  <2>7. pc' = "find" => tries' <= 1
    BY <1>a, <1>5, <2>5 DEF Control
  <2> QED
    BY <1>a, <1>5, <2>1, <2>2, <2>3, <2>4, <2>6, <2>7 DEF Control, NoAbort
<1> QED BY <1>5, <1>8, <1>12, <1>13, <1>14, <1>15

-----------------------------------------------------------------------------
(* The allocator preserves the invariant.                                  *)

\* make_obj's head only decides whether to collect first.
LEMMA MakeObjStep == IInv /\ TypeOK' /\ MakeObj => IInv'
<1> SUFFICES ASSUME IInv, TypeOK', MakeObj PROVE IInv'
  OBVIOUS
<1> USE DEF IInv, MakeObj, heapVars, listVars, gcVars
<1>1. NoDangling' /\ NoAbort' /\ ListsExact' /\ NoStaleMarks'
  BY DEF NoDangling, NoAbort, ListsExact, NoStaleMarks, Children
<1>2. Remembered'
  BY DEF Remembered, Tracked, Children
<1>3. Control'
  BY DEF Control, Idle
<1> QED BY <1>1, <1>2, <1>3

\* A free cell is in use by nobody: making it a baby whose fields are values
\* the mutator holds disturbs no other cell.
LEMMA TakeFreeStep == IInv /\ TypeOK' /\ TakeFree => IInv'
<1> SUFFICES ASSUME IInv, TypeOK', TakeFree PROVE IInv'
  OBVIOUS
<1> USE DEF IInv
<1> PICK o \in Free, f \in InitialSlots :
      /\ live' = live \cup {o}
      /\ slot' = [slot EXCEPT ![o] = f]
      /\ gen' = [gen EXCEPT ![o] = 0]
      /\ fresh' = IF FullNow THEN fresh ELSE fresh \cup {o}
      /\ roots' = roots \cup {o}
  BY DEF TakeFree
<1>0. /\ pc = "find" /\ pc' = "run" /\ op = Idle /\ op' = Idle
      /\ fullGc' = FullNow
      /\ UNCHANGED <<heaps, flag, check, mutd>>
  BY DEF TakeFree, Control
<1>1. o \in Obj /\ o \in UNION heaps /\ o \notin live
  <2>1. o \in UNION heaps /\ o \notin live
    BY DEF Free
  <2>2. UNION heaps \subseteq Obj
    BY DEF TypeOK, Obj
  <2> QED BY <2>1, <2>2
<1>2. \A x \in live : slot'[x] = slot[x] /\ gen'[x] = gen[x]
  BY <1>1 DEF TypeOK, NoDangling
<1>3. \A x \in live : Children(x)' = Children(x)
  BY <1>2 DEF Children
<1>4. Children(o)' \subseteq live
  <2>1. Children(o)' = {f[s] : s \in Slot} \ {Nil}
    BY <1>1 DEF Children, TypeOK
  <2>2. CASE f \in [Slot -> roots \cup {Nil}]
    BY <2>1, <2>2 DEF NoDangling
  <2>3. CASE \E q \in roots : f = slot[q]
    BY <2>1, <2>3 DEF NoDangling, Children
  <2> QED BY <2>2, <2>3 DEF InitialSlots
<1>5. NoDangling'
  BY <1>0, <1>1, <1>3, <1>4 DEF NoDangling
<1>6. gen'[o] = 0
  BY <1>1 DEF TypeOK
<1>7. Remembered'
  <2> SUFFICES ASSUME ~fullGc', NEW p \in live', gen'[p] = 1
               PROVE  Tracked(p)'
    BY DEF Remembered
  <2>1. ~fullGc /\ p \in live /\ gen[p] = 1
    <3>1. ~fullGc
      BY <1>0 DEF FullNow
    <3>2. p # o
      BY <1>6
    <3> QED BY <1>2, <3>1, <3>2
  <2>2. Tracked(p)
    BY <1>0, <2>1 DEF Remembered
  <2>3. Children(p) \subseteq live
    BY <2>1 DEF NoDangling
  <2> QED BY <1>0, <1>2, <1>3, <2>1, <2>2, <2>3 DEF Tracked
<1>8. ListsExact'
  <2> SUFFICES ASSUME ~fullGc' PROVE ListsExact'
    BY DEF ListsExact
  <2>1. ~fullGc /\ fresh' = fresh \cup {o}
    BY <1>0 DEF FullNow
  <2> QED BY <1>0, <1>1, <1>2, <1>6, <2>1 DEF ListsExact
<1>9. NoStaleMarks' /\ NoAbort' /\ Control'
  BY <1>0 DEF NoStaleMarks, NoAbort, Control
<1> QED BY <1>5, <1>7, <1>8, <1>9

\* make_obj's loop always ends with a free cell or at the end of memory.
LEMMA RefillStep == IInv /\ TypeOK' /\ Refill => IInv'
<1> SUFFICES ASSUME IInv, TypeOK', Refill PROVE IInv'
  OBVIOUS
<1> USE DEF IInv
<1>1. /\ pc = "find" /\ Free = {} /\ op = Idle /\ tries < 2
      /\ fullGc' = FullNow /\ tries' = tries + 1
      /\ UNCHANGED <<live, slot, gen, flag, fresh, check, mutd, gcEnabled,
                     roots>>
  BY DEF Refill, Control, listVars, TypeOK
<1>2. \/ heaps' = heaps /\ pc' = "oom"
      \/ /\ \E h \in Heaps \ heaps : heaps' = heaps \cup {h}
         /\ pc' = "find" /\ op' = Idle
      \/ /\ heaps' = heaps /\ tries = 0 /\ gcEnabled
         /\ pc' = "gc" /\ op' = [Idle EXCEPT !.kind = "find"]
  <2>1. tries \in {0, 1}
    BY <1>1 DEF TypeOK
  <2> QED BY <1>1, <2>1 DEF Refill, More
<1>3. heaps \subseteq heaps'
  BY <1>2
<1>4. NoDangling' /\ NoStaleMarks' /\ NoAbort'
  BY <1>1, <1>2, <1>3 DEF NoDangling, NoStaleMarks, NoAbort, Children
<1>5. Remembered' /\ ListsExact'
  <2>1. ~fullGc' => ~fullGc
    BY <1>1 DEF FullNow
  <2>2. ListsExact'
    BY <1>1, <2>1 DEF ListsExact
  <2>3. \A p \in live : Tracked(p)' <=> Tracked(p)
    BY <1>1 DEF Tracked, Children
  <2> QED BY <1>1, <2>1, <2>2, <2>3 DEF Remembered
\* A new block is not empty, and no cell of it is in use yet.
<1>6. ASSUME NEW h \in Heaps \ heaps, heaps' = heaps \cup {h}
      PROVE  Free' # {}
  <2>1. PICK o \in h : TRUE
    BY HeapsAssumption, SizeAssumption, FS_EmptySet
  <2>2. o \notin UNION heaps
    BY HeapsAssumption, <2>1 DEF TypeOK
  <2>3. o \in UNION heaps' /\ o \notin live'
    BY <1>1, <1>6, <2>1, <2>2 DEF NoDangling
  <2> QED BY <2>3 DEF Free
<1>7. Control'
  <2>1. tries' <= 2 /\ (tries = 0 => tries' = 1)
    BY <1>1 DEF TypeOK
  <2> QED BY <1>1, <1>2, <1>6, <2>1 DEF Control, Idle
<1> QED BY <1>4, <1>5, <1>7

-----------------------------------------------------------------------------
(* The write barriers preserve the invariant.                              *)

\* Storing a held reference in a held cell leaves no dangling reference.
LEMMA WriteSafe ==
  ASSUME IInv, NEW p \in roots, NEW s \in Slot, NEW c \in roots \cup {Nil},
         Write(p, s, c), UNCHANGED <<heaps, live, roots>>
  PROVE  /\ NoDangling'
         /\ \A o \in live : o # p => Children(o)' = Children(o)
         /\ Children(p)' \subseteq Children(p) \cup ({c} \ {Nil})
<1> USE DEF IInv
<1>1. p \in Obj /\ p \in live
  BY DEF NoDangling, TypeOK
<1>2. \A o \in live : o # p => Children(o)' = Children(o)
  BY <1>1 DEF Write, Children, TypeOK
<1>3. Children(p)' \subseteq Children(p) \cup ({c} \ {Nil})
  BY <1>1 DEF Write, Children, TypeOK
<1>4. NoDangling'
  BY <1>1, <1>2, <1>3 DEF NoDangling
<1> QED BY <1>2, <1>3, <1>4

\* The store after the barrier's collection is safe: the collection has promoted
\* the stored object.
LEMMA FinishSetStep == IInv /\ TypeOK' /\ FinishSet => IInv'
<1> SUFFICES ASSUME IInv, TypeOK', FinishSet PROVE IInv'
  OBVIOUS
<1> USE DEF IInv
<1>0. op.p \in roots /\ op.s \in Slot /\ op.c \in roots
  BY DEF FinishSet, Control
<1> PICK p \in roots, s \in Slot, c \in roots :
      p = op.p /\ s = op.s /\ c = op.c
  BY <1>0
<1>1. /\ pc = "store" /\ pc' = "run" /\ op' = Idle /\ gen[c] = 1
      /\ Write(p, s, c)
      /\ UNCHANGED <<heaps, live, gen, flag, fresh, check, mutd, fullGc, roots>>
  BY DEF FinishSet, Control, listVars, gcVars
<1>2. /\ NoDangling'
      /\ \A o \in live : o # p => Children(o)' = Children(o)
      /\ Children(p)' \subseteq Children(p) \cup ({c} \ {Nil})
  BY <1>1, WriteSafe
<1>3. Remembered'
  <2>1. \A o \in live : Tracked(o) => Tracked(o)'
    BY <1>1, <1>2 DEF Tracked
  <2> QED BY <1>1, <2>1 DEF Remembered
<1>4. ListsExact' /\ NoStaleMarks' /\ NoAbort' /\ Control'
  BY <1>1 DEF ListsExact, NoStaleMarks, NoAbort, Control
<1> QED BY <1>2, <1>3, <1>4

\* gc_set keeps the invariant: the barrier notes the baby before the store.
LEMMA SetStep ==
  ASSUME IInv, TypeOK', NEW p \in roots, NEW s \in Slot,
         NEW c \in roots \cup {Nil}, Set(p, s, c)
  PROVE  IInv'
<1> USE DEF IInv
<1>0. /\ pc = "run" /\ op = Idle
      /\ p \in live /\ p \in Obj
      /\ UNCHANGED <<heaps, live, flag, fresh, mutd, gcEnabled, roots, tries>>
  BY DEF Set, Control, NoDangling, TypeOK
<1>1. CASE Write(p, s, c) /\ UNCHANGED <<gen, check, fullGc, pc, op>>
           /\ ~(c # Nil /\ gen[p] = 1 /\ gen[c] = 0 /\ ~fullGc)
  <2>1. /\ NoDangling'
        /\ \A o \in live : o # p => Children(o)' = Children(o)
        /\ Children(p)' \subseteq Children(p) \cup ({c} \ {Nil})
    BY <1>0, <1>1, WriteSafe
  <2>2. Remembered'
    <3> SUFFICES ASSUME ~fullGc, NEW o \in live, gen[o] = 1
                 PROVE  Tracked(o)'
      BY <1>0, <1>1 DEF Remembered
    <3>1. Tracked(o)
      BY <1>0 DEF Remembered
    <3>2. c # Nil /\ o = p => gen[c] = 1 \/ c \in check \cup mutd
      BY <1>1 DEF ListsExact, NoDangling, TypeOK
    <3> QED BY <1>0, <1>1, <2>1, <3>1, <3>2 DEF Tracked
  <2>3. ListsExact' /\ NoStaleMarks' /\ NoAbort' /\ Control'
    BY <1>0, <1>1 DEF ListsExact, NoStaleMarks, NoAbort, Control
  <2> QED BY <2>1, <2>2, <2>3
<1>2. CASE c # Nil /\ gen[p] = 1 /\ gen[c] = 0 /\ ~fullGc
  <2>0. c \in live /\ c \in Obj /\ c # p
    BY <1>2 DEF NoDangling, TypeOK
  <2>1. CASE /\ gen' = [gen EXCEPT ![c] = -1] /\ check' = check \cup {c}
             /\ Write(p, s, c)
             /\ UNCHANGED <<fullGc, pc, op>>
    <3>1. /\ NoDangling'
          /\ \A o \in live : o # p => Children(o)' = Children(o)
          /\ Children(p)' \subseteq Children(p) \cup ({c} \ {Nil})
      BY <1>0, <2>1, WriteSafe
    <3>2. gen'[c] = -1 /\ \A o \in live : o # c => gen'[o] = gen[o]
      BY <2>0, <2>1 DEF TypeOK, NoDangling
    <3>3. Remembered'
      <4> SUFFICES ASSUME NEW o \in live, gen'[o] = 1
                   PROVE  Tracked(o)'
        BY <1>0, <2>1 DEF Remembered
      <4>1. gen[o] = 1 /\ Tracked(o)
        BY <1>0, <1>2, <3>2 DEF Remembered
      <4>2. Children(o) \subseteq live
        BY DEF NoDangling
      <4> QED BY <1>0, <2>1, <3>1, <3>2, <4>1, <4>2 DEF Tracked
    <3>4. ListsExact'
      BY <1>0, <1>2, <2>0, <2>1, <3>2 DEF ListsExact
    <3>5. NoStaleMarks' /\ NoAbort' /\ Control'
      BY <1>0, <2>1 DEF NoStaleMarks, NoAbort, Control
    <3> QED BY <3>1, <3>3, <3>4, <3>5
  <2>2. CASE /\ gcEnabled /\ pc' = "gc"
             /\ op' = [kind |-> "store", p |-> p, s |-> s, c |-> c]
             /\ UNCHANGED <<gen, check, slot, fullGc>>
    <3>1. NoDangling' /\ ListsExact' /\ NoStaleMarks' /\ NoAbort'
      BY <1>0, <2>2
         DEF NoDangling, ListsExact, NoStaleMarks, NoAbort, Children
    <3>2. Remembered'
      BY <1>0, <2>2 DEF Remembered, Tracked, Children
    <3>3. Control'
      BY <1>0, <1>2, <2>2 DEF Control
    <3> QED BY <3>1, <3>2, <3>3
  <2>3. CASE fullGc' = TRUE /\ Write(p, s, c) /\ UNCHANGED <<gen, check, pc, op>>
    <3>1. NoDangling'
      BY <1>0, <2>3, WriteSafe
    <3>2. Remembered' /\ ListsExact' /\ NoStaleMarks' /\ NoAbort' /\ Control'
      BY <1>0, <2>3
         DEF Remembered, ListsExact, NoStaleMarks, NoAbort, Control
    <3> QED BY <3>1, <3>2
  <2> QED BY <1>2, <2>1, <2>2, <2>3 DEF Set, Unsafe
<1> QED BY <1>1, <1>2 DEF Set, Unsafe

\* replace_struct keeps it too: with mutobj full, the babies that p now refers
\* to are also held by q, which is live or noted, until the collection is over.
LEMMA ReplaceStep ==
  ASSUME IInv, TypeOK', NEW p \in roots, NEW q \in roots, Replace(p, q)
  PROVE  IInv'
<1> USE DEF IInv
<1>0. /\ pc = "run" /\ op = Idle /\ op' = Idle /\ p # q
      /\ p \in live /\ p \in Obj /\ q \in live
      /\ slot' = [slot EXCEPT ![p] = slot[q]]
      /\ UNCHANGED <<heaps, live, flag, fresh, check, gcEnabled, roots, tries>>
  BY DEF Replace, Control, NoDangling, TypeOK
<1>1. /\ slot'[p] = slot[q]
      /\ \A o \in live : o # p => slot'[o] = slot[o]
  BY <1>0 DEF TypeOK, NoDangling
<1>2. /\ Children(p)' = Children(q)
      /\ \A o \in live : o # p => Children(o)' = Children(o)
  BY <1>1 DEF Children
<1>3. NoDangling'
  BY <1>0, <1>2 DEF NoDangling
<1>4. NoStaleMarks' /\ NoAbort'
  BY <1>0, <1>3 DEF NoStaleMarks, NoAbort, Replace
<1>5. CASE (fullGc \/ gen[p] <= 0) /\ UNCHANGED <<gen, mutd, fullGc, pc>>
  <2>1. ListsExact' /\ Control'
    BY <1>0, <1>5 DEF ListsExact, Control
  <2>2. Remembered'
    <3> SUFFICES ASSUME ~fullGc, NEW o \in live, gen[o] = 1 PROVE Tracked(o)'
      BY <1>0, <1>5 DEF Remembered
    <3>1. o # p /\ Tracked(o)
      BY <1>0, <1>5 DEF Remembered
    <3> QED BY <1>0, <1>2, <1>5, <3>1 DEF Tracked
  <2> QED BY <1>3, <1>4, <2>1, <2>2
<1>6. CASE ~fullGc /\ gen[p] = 1
  <2>1. CASE /\ gen' = [gen EXCEPT ![p] = -1] /\ mutd' = mutd \cup {p}
             /\ UNCHANGED <<fullGc, pc>>
    <3>1. gen'[p] = -1 /\ \A o \in live : o # p => gen'[o] = gen[o]
      BY <1>0, <2>1 DEF TypeOK, NoDangling
    <3>2. ListsExact'
      BY <1>0, <1>6, <2>1, <3>1 DEF ListsExact
    <3>3. Control'
      BY <1>0, <2>1 DEF Control
    <3>4. Remembered'
      <4> SUFFICES ASSUME NEW o \in live, gen'[o] = 1 PROVE Tracked(o)'
        BY <1>0, <2>1 DEF Remembered
      <4>1. o # p /\ gen[o] = 1 /\ Tracked(o) /\ Children(o) \subseteq live
        BY <1>0, <1>6, <3>1 DEF Remembered, NoDangling
      <4> QED BY <1>0, <1>2, <2>1, <3>1, <4>1 DEF Tracked
    <3> QED BY <1>3, <1>4, <3>2, <3>3, <3>4
  <2>2. CASE gcEnabled /\ pc' = "gc" /\ UNCHANGED <<gen, mutd, fullGc>>
    <3>1. ListsExact' /\ Control'
      BY <1>0, <2>2 DEF ListsExact, Control, Idle
    <3>2. \A o \in live : o # p => (Tracked(o) => Tracked(o)')
      BY <1>0, <1>2, <2>2 DEF Tracked
    <3>3. gen[q] = 1 => Tracked(q)
      BY <1>0, <1>6 DEF Remembered
    <3>4. gen[q] \in {-1, 0, 1}
      BY <1>0 DEF TypeOK, NoDangling
    <3>5. slot'[q] = slot'[p] /\ (gen'[q] <= 0 \/ Tracked(q)')
      BY <1>0, <1>1, <2>2, <3>2, <3>3, <3>4
    <3>6. Remembered'
      <4> SUFFICES ASSUME NEW o \in live, gen[o] = 1, o # p PROVE Tracked(o)'
        BY <1>0, <2>2, <3>5 DEF Remembered
      <4> QED BY <1>0, <1>6, <3>2 DEF Remembered
    <3> QED BY <1>3, <1>4, <3>1, <3>6
  <2>3. CASE fullGc' = TRUE /\ UNCHANGED <<gen, mutd, pc>>
    BY <1>0, <1>3, <1>4, <2>3 DEF Remembered, ListsExact, Control
  <2>4. ~(fullGc \/ gen[p] <= 0)
    BY <1>6
  <2>5. \/ /\ gen' = [gen EXCEPT ![p] = -1] /\ mutd' = mutd \cup {p}
           /\ UNCHANGED <<fullGc, pc>>
        \/ gcEnabled /\ pc' = "gc" /\ UNCHANGED <<gen, mutd, fullGc>>
        \/ fullGc' = TRUE /\ UNCHANGED <<gen, mutd, pc>>
    BY <2>4 DEF Replace, NeedsNote
  <2> QED BY <2>1, <2>2, <2>3, <2>5
<1>7. gen[p] \in {-1, 0, 1}
  BY <1>0 DEF TypeOK
<1>8. CASE fullGc \/ gen[p] <= 0
  <2>1. UNCHANGED <<gen, mutd, fullGc, pc>>
    BY <1>8 DEF Replace, NeedsNote
  <2> QED BY <1>5, <1>8, <2>1
<1>9. fullGc \in BOOLEAN
  BY DEF TypeOK
<1> QED BY <1>6, <1>7, <1>8, <1>9

-----------------------------------------------------------------------------
(* The remaining steps touch neither cells nor lists.                      *)

\* Steps that touch neither cells nor lists keep the invariant.
LEMMA MutatorStep ==
  ASSUME IInv, TypeOK',
         \/ Malloc
         \/ \E p \in roots, s \in Slot : Load(p, s)
         \/ \E o \in roots : Drop(o)
         \/ \E b \in BOOLEAN : GcState(b) \/ GcWrap(b)
         \/ UNCHANGED vars
  PROVE  IInv'
<1> USE DEF IInv
<1>1. /\ UNCHANGED <<heaps, live, slot, gen, flag, fresh, check, mutd>>
      /\ op' = op /\ tries' = tries
  BY DEF Malloc, Load, Drop, GcState, GcWrap, vars, heapVars, listVars,
         gcVars, ctlVars
<1>10. fullGc' \/ fullGc' = fullGc
  <2>1. \A b \in BOOLEAN : GcWrap(b) => (fullGc' <=> (fullGc \/ b))
    BY DEF GcWrap
  <2>2. fullGc \in BOOLEAN /\ fullGc' \in BOOLEAN
    BY DEF TypeOK
  <2>3. (\E b \in BOOLEAN : GcWrap(b)) \/ fullGc' = fullGc
    BY DEF Malloc, Load, Drop, GcState, vars, gcVars
  <2> QED BY <2>1, <2>2, <2>3
<1>2. roots' \subseteq live
  BY DEF NoDangling, Children, Malloc, Load, Drop, GcState, GcWrap, vars
<1>3. NoDangling' /\ NoStaleMarks'
  BY <1>1, <1>2 DEF NoDangling, NoStaleMarks, Children
<1>4. ListsExact'
  BY <1>1, <1>10 DEF ListsExact
<1>5. \/ UNCHANGED <<pc, roots, gcEnabled>>
      \/ pc = "run" /\ pc' = "run"
      \/ pc = "run" /\ pc' = "gc" /\ gcEnabled'
  BY DEF Malloc, Load, Drop, GcState, GcWrap, vars, heapVars, listVars,
         gcVars, ctlVars
<1>6. NoAbort'
  BY <1>5 DEF NoAbort
<1>7. Remembered'
  <2>1. \A p \in live : Tracked(p)' <=> Tracked(p)
    BY <1>1 DEF Tracked, Children
  <2> SUFFICES ASSUME ~fullGc', NEW p \in live, gen[p] = 1, ~Tracked(p)
               PROVE  /\ pc' = "gc"
                      /\ \E q \in roots' :
                           slot[q] = slot[p] /\ (gen[q] <= 0 \/ Tracked(q))
    BY <1>1, <1>2, <2>1 DEF Remembered, NoDangling
  <2>2. /\ pc = "gc"
        /\ \E q \in roots :
             slot[q] = slot[p] /\ (gen[q] <= 0 \/ Tracked(q))
    BY <1>10 DEF Remembered
  <2> QED BY <1>5, <2>2
<1>8. Control'
  BY <1>1, <1>5 DEF Control, Idle, Free
<1> QED BY <1>3, <1>4, <1>6, <1>7, <1>8

\* Every step preserves the invariant.
LEMMA NextIInv == IInv /\ [Next]_vars => IInv'
<1> SUFFICES ASSUME IInv, [Next]_vars PROVE IInv'
  OBVIOUS
<1>1. TypeOK'
  BY NextTypeOK DEF IInv
<1> QED
  BY <1>1, MakeObjStep, TakeFreeStep, RefillStep, GcStep, FinishSetStep,
     SetStep, ReplaceStep, MutatorStep DEF Next

-----------------------------------------------------------------------------
\* The inductive invariant holds in every reachable state.
THEOREM Invariance == Spec => []IInv
BY InitIInv, NextIInv, PTL DEF Spec

\* No reachable state holds a dangling reference: gc.c never reclaims a cell
\* that the program, or any allocated cell, still refers to.
THEOREM HeapSafe == Spec => []NoDangling
<1>1. IInv => NoDangling
  BY DEF IInv
<1> QED BY <1>1, Invariance, PTL

\* The write barriers are sufficient: every reference from a mature object to
\* a baby is known to the next minor collection.
THEOREM BarrierSufficient == Spec => []Remembered
<1>1. IInv => Remembered
  BY DEF IInv
<1> QED BY <1>1, Invariance, PTL

\* The three lists are exact whenever a minor collection may use them.
THEOREM BookkeepingExact == Spec => [](ListsExact /\ NoStaleMarks)
<1>1. IInv => ListsExact /\ NoStaleMarks
  BY DEF IInv
<1> QED BY <1>1, Invariance, PTL

\* No abort() or assert() of the allocator and the collector is reachable.
THEOREM NeverAborts == Spec => []NoAbort
<1>1. IInv => NoAbort
  BY DEF IInv
<1> QED BY <1>1, Invariance, PTL

\* What gc_assign_check relies on when its collection is over: a collection
\* that does not abort leaves no baby.
THEOREM Promotion == Spec => NoBabiesAfterGc
<1> DEFINE Step == pc = "gc" /\ pc' # "abort" => \A o \in live' : gen'[o] = 1
<1>1. IInv /\ [Next]_vars => [Step]_vars
  <2> SUFFICES ASSUME IInv, Next, pc = "gc" PROVE \A o \in live' : gen'[o] = 1
    OBVIOUS
  <2>1. Gc
    BY DEF Next, MakeObj, TakeFree, Refill, FinishSet, Malloc, Load, Set,
           Replace, Drop, GcState, GcWrap
  <2>2. TypeOK'
    BY NextTypeOK DEF IInv
  <2> QED BY <2>1, <2>2, GcStep
<1> QED BY <1>1, Invariance, PTL DEF Spec, NoBabiesAfterGc

-----------------------------------------------------------------------------
(* The bounds of the three arrays.                                         *)

\* In make_obj's loop, past its first turn, freshobj has room unless a full
\* collection is due, in which case nothing is added to it.
FitInv ==
  /\ ListsFit
  /\ IsFiniteSet(fresh) /\ IsFiniteSet(check) /\ IsFiniteSet(mutd)
  /\ pc = "find" /\ tries > 0 => fullGc \/ Cardinality(fresh) < FreshMax

\* A list with room takes one more cell.
LEMMA RoomForOne ==
  ASSUME NEW S, NEW x, NEW N \in Nat, IsFiniteSet(S), Cardinality(S) < N
  PROVE  IsFiniteSet(S \cup {x}) /\ Cardinality(S \cup {x}) <= N
<1>1. IsFiniteSet(S \cup {x})
  BY FS_AddElement
<1>2. Cardinality(S \cup {x}) \in {Cardinality(S), Cardinality(S) + 1}
  BY FS_AddElement
<1>3. Cardinality(S) \in Nat
  BY FS_CardinalityType
<1> QED BY <1>1, <1>2, <1>3

\* Every step keeps the lists within their arrays.
LEMMA NextFit == TypeOK /\ FitInv /\ [Next]_vars => FitInv'
<1> SUFFICES ASSUME TypeOK, FitInv, [Next]_vars PROVE FitInv'
  OBVIOUS
<1> USE DEF FitInv, ListsFit
<1>0. /\ Cardinality(fresh) \in Nat /\ Cardinality(check) \in Nat
      /\ Cardinality(mutd) \in Nat /\ tries \in 0..3
      /\ FreshMax \in Nat \ {0} /\ CheckMax \in Nat /\ MutMax \in Nat
  BY SizeAssumption, FS_CardinalityType DEF TypeOK
<1>1. CASE MakeObj
  BY <1>1 DEF MakeObj, listVars
<1>2. CASE TakeFree
  <2>1. PICK o : fresh' = IF FullNow THEN fresh ELSE fresh \cup {o}
    BY <1>2 DEF TakeFree
  <2>2. ~FullNow => Cardinality(fresh) < FreshMax
    BY <1>0, <1>2 DEF FullNow, TakeFree
  <2>5. IsFiniteSet(fresh') /\ Cardinality(fresh') <= FreshMax
    BY <1>0, <2>1, <2>2, RoomForOne
  <2> QED BY <1>2, <2>5 DEF TakeFree
<1>3. CASE Refill
  <2>1. /\ pc = "find" /\ (fullGc' <=> FullNow)
        /\ UNCHANGED listVars
    BY <1>3 DEF Refill, FullNow, TypeOK
  <2>2. FullNow \/ Cardinality(fresh) < FreshMax
    BY <1>0, <2>1 DEF FullNow
  <2> QED BY <2>1, <2>2 DEF listVars
<1>4. CASE Gc
  <2>1. CASE pc' = "abort" /\ UNCHANGED listVars
    BY <2>1 DEF listVars
  <2>2. CASE fresh' = {} /\ check' = {} /\ mutd' = {}
    BY <1>0, <2>2, FS_EmptySet
  <2> QED BY <1>4, <2>1, <2>2 DEF Gc, Collect
<1>5. CASE FinishSet
  BY <1>5 DEF FinishSet, listVars
<1>6. ASSUME NEW p \in roots, NEW s \in Slot, NEW c \in roots \cup {Nil},
             Set(p, s, c)
      PROVE  FitInv'
  <2>1. /\ fresh' = fresh /\ mutd' = mutd /\ pc' # "find"
        /\ \/ check' = check
           \/ Cardinality(check) < CheckMax /\ check' = check \cup {c}
    BY <1>6 DEF Set
  <2>4. IsFiniteSet(check') /\ Cardinality(check') <= CheckMax
    BY <1>0, <2>1, RoomForOne
  <2> QED BY <2>1, <2>4
<1>7. ASSUME NEW p \in roots, NEW q \in roots, Replace(p, q) PROVE FitInv'
  <2>1. /\ fresh' = fresh /\ check' = check /\ pc' # "find"
        /\ \/ mutd' = mutd
           \/ Cardinality(mutd) < MutMax /\ mutd' = mutd \cup {p}
    BY <1>7 DEF Replace
  <2>4. IsFiniteSet(mutd') /\ Cardinality(mutd') <= MutMax
    BY <1>0, <2>1, RoomForOne
  <2> QED BY <2>1, <2>4
<1>8. CASE \/ Malloc
           \/ \E p \in roots, s \in Slot : Load(p, s)
           \/ \E o \in roots : Drop(o)
           \/ \E b \in BOOLEAN : GcState(b) \/ GcWrap(b)
  <2>1. pc' # "find" /\ UNCHANGED listVars
    BY <1>8 DEF Malloc, Load, Drop, GcState, GcWrap, ctlVars
  <2> QED BY <2>1 DEF listVars
<1>9. CASE UNCHANGED vars
  BY <1>9 DEF vars, listVars, gcVars, ctlVars
<1> QED
  BY <1>1, <1>2, <1>3, <1>4, <1>5, <1>6, <1>7, <1>8, <1>9 DEF Next

\* freshobj, checkobj and mutobj are never written past their ends.
THEOREM ArraysSafe == Spec => []ListsFit
<1>1. Init => FitInv
  BY SizeAssumption, FS_EmptySet DEF Init, FitInv, ListsFit
<1>2. FitInv => ListsFit
  BY DEF FitInv
<1> QED BY <1>1, <1>2, NextFit, TypeCorrect, PTL DEF Spec

-----------------------------------------------------------------------------
(* The refinement of AbstractHeap.                                         *)

\* The references among these fields, and those of a heap.
Kids(f) == {f[s] : s \in Slot} \ {Nil}
Succ(sl) == [o \in Obj |-> Kids(sl[o])]

Fields == [Obj -> [Slot -> Ref]]

\* The references of a heap are cells.
LEMMA SuccType ==
  ASSUME NEW sl \in Fields
  PROVE  /\ DOMAIN Succ(sl) = Obj
         /\ \A o \in Obj : Succ(sl)[o] = Kids(sl[o])
         /\ \A o \in Obj : Succ(sl)[o] \subseteq Obj
BY DEF Succ, Kids, Fields, Ref

\* What is reached depends on the references of the cells reached, and on no
\* others.
LEMMA SameReach ==
  ASSUME NEW s1, NEW s2, NEW start,
         start \subseteq DOMAIN s1, start \subseteq DOMAIN s2,
         \A o \in DOMAIN s1 : s1[o] \subseteq DOMAIN s1,
         \A o \in DOMAIN s2 : s2[o] \subseteq DOMAIN s2,
         \A o \in ReachedFrom(start, s1) : o \in DOMAIN s2 /\ s2[o] = s1[o]
  PROVE  ReachedFrom(start, s2) = ReachedFrom(start, s1)
<1> DEFINE R1 == ReachedFrom(start, s1)
           R2 == ReachedFrom(start, s2)
<1>1. start \subseteq R1 /\ start \subseteq R2
  BY ReachedStart
<1>2. IsClosed(R1, s1) /\ IsClosed(R2, s2)
  BY ReachedClosed
<1>3. R1 \subseteq DOMAIN s1 /\ R2 \subseteq DOMAIN s2 /\ R1 \subseteq DOMAIN s2
  BY DEF ReachedFrom
<1> HIDE DEF R1, R2
<1>4. \A o \in R1 : s2[o] = s1[o]
  BY DEF R1
<1>5. R2 \subseteq R1
  <2>1. IsClosed(R1, s2)
    BY <1>2, <1>4 DEF IsClosed
  <2> QED BY <1>1, <1>3, <2>1, ReachedLeast DEF R2
<1>6. R1 \subseteq R2
  <2>1. R2 \subseteq DOMAIN s1
    BY <1>3, <1>5
  <2>2. IsClosed(R2, s1)
    BY <1>2, <1>4, <1>5 DEF IsClosed
  <2> QED BY <1>1, <2>1, <2>2, ReachedLeast DEF R1
<1> QED BY <1>5, <1>6 DEF R1, R2

\* The cells that these roots reach in a heap with these fields.
Seen(sl, rs) == ReachedFrom(rs, Succ(sl))
GraphOf(sl, rs) == [o \in Seen(sl, rs) |-> sl[o]]

\* What the roots reach is the least set of cells that holds them and is closed.
LEMMA SeenFacts ==
  ASSUME NEW sl \in Fields, NEW rs \in SUBSET Obj
  PROVE  /\ rs \subseteq Seen(sl, rs) /\ Seen(sl, rs) \subseteq Obj
         /\ \A o \in Seen(sl, rs) : Succ(sl)[o] \subseteq Seen(sl, rs)
         /\ \A S \in SUBSET Obj :
              rs \subseteq S /\ (\A o \in S : Succ(sl)[o] \subseteq S) =>
                Seen(sl, rs) \subseteq S
<1>1. rs \subseteq Seen(sl, rs)
  BY SuccType, ReachedStart DEF Seen
<1>2. Seen(sl, rs) \subseteq Obj
  BY SuccType DEF Seen, ReachedFrom
<1>3. IsClosed(Seen(sl, rs), Succ(sl))
  BY SuccType, ReachedClosed DEF Seen
<1>4. ASSUME NEW S \in SUBSET Obj, rs \subseteq S,
             \A o \in S : Succ(sl)[o] \subseteq S
      PROVE  Seen(sl, rs) \subseteq S
  BY <1>4, SuccType, ReachedLeast DEF Seen, IsClosed
<1> QED BY <1>1, <1>2, <1>3, <1>4 DEF IsClosed

\* The mapping of the refinement, before and after a step.
LEMMA Mapping ==
  /\ Graph = GraphOf(slot, roots)
  /\ Graph' = GraphOf(slot', roots')
  /\ \A o \in Obj : Children(o) = Succ(slot)[o]
  /\ \A o \in Obj : Children(o)' = Succ(slot')[o]
BY DEF Graph, Visible, Seen, GraphOf, Succ, Kids, Children

\* The abstract heap means the same by reachable.
LEMMA HeapReach ==
  ASSUME NEW start, NEW succ
  PROVE  Heap!ReachedFrom(start, succ) = ReachedFrom(start, succ)
BY DEF Heap!ReachedFrom, ReachedFrom, Heap!IsClosed, IsClosed

\* A heap trimmed to what is reached in it.
LEMMA TrimGraph ==
  ASSUME NEW sl \in Fields, NEW rs \in SUBSET Obj, NEW V \in SUBSET Obj,
         rs \subseteq V, \A o \in V : Succ(sl)[o] \subseteq V
  PROVE  Heap!Trim([o \in V |-> sl[o]], rs) = GraphOf(sl, rs)
<1> DEFINE g == [o \in V |-> sl[o]]
           e == Heap!Edges(g)
<1>1. e = [o \in V |-> Kids(g[o])]
  BY DEF Heap!Edges, Kids
<1>2. DOMAIN e = V /\ \A o \in V : e[o] = Succ(sl)[o]
  <2>1. \A o \in V : g[o] = sl[o]
    OBVIOUS
  <2> HIDE DEF e, g
  <2>2. DOMAIN e = V /\ \A o \in V : e[o] = Kids(g[o])
    BY <1>1
  <2> QED BY <2>1, <2>2, SuccType
<1> HIDE DEF e
<1>3. ReachedFrom(rs, e) \subseteq V
  BY <1>2 DEF ReachedFrom
<1>4. Seen(sl, rs) = ReachedFrom(rs, e)
  BY <1>2, <1>3, SuccType, SameReach DEF Seen
<1>5. Heap!Trim(g, rs) = [o \in ReachedFrom(rs, e) |-> g[o]]
  BY HeapReach DEF Heap!Trim, e
<1>6. \A o \in ReachedFrom(rs, e) : g[o] = sl[o]
  BY <1>3
<1> QED BY <1>4, <1>5, <1>6 DEF GraphOf

-----------------------------------------------------------------------------
\* The part of the type invariant that the graph depends on.
LEMMA SlotFields == TypeOK <=> TypeOK /\ slot \in Fields /\ roots \in SUBSET Obj
BY DEF TypeOK, Fields

\* Steps that change no reachable field and no root.
LEMMA StutterStep ==
  ASSUME TypeOK, TypeOK', roots' = roots,
         \A o \in Seen(slot, roots) : slot'[o] = slot[o]
  PROVE  UNCHANGED <<Graph, roots>>
<1> DEFINE V == Seen(slot, roots)
<1>1. slot \in Fields /\ slot' \in Fields /\ roots \in SUBSET Obj
  BY SlotFields DEF TypeOK, Fields
<1>2. V \subseteq Obj
  BY <1>1, SeenFacts
<1>3. \A o \in V : Succ(slot')[o] = Succ(slot)[o]
  BY <1>1, <1>2, SuccType
<1>4. Seen(slot', roots) = V
  BY <1>1, <1>2, <1>3, SuccType, SameReach DEF Seen
<1>5. GraphOf(slot', roots') = GraphOf(slot, roots)
  BY <1>4 DEF GraphOf
<1> QED BY <1>5, Mapping

\* A store into a field of a cell in use.
LEMMA StoreStep ==
  ASSUME TypeOK, TypeOK', roots' = roots,
         NEW p \in roots, NEW s \in Slot, NEW c \in roots \cup {Nil},
         slot' = [slot EXCEPT ![p][s] = c]
  PROVE  Heap!Assign
<1> DEFINE V == Seen(slot, roots)
           g == GraphOf(slot, roots)
<1>1. slot \in Fields /\ slot' \in Fields /\ roots \in SUBSET Obj
  BY SlotFields DEF TypeOK, Fields
<1>2. /\ roots \subseteq V /\ V \subseteq Obj
      /\ \A o \in V : Succ(slot)[o] \subseteq V
  BY <1>1, SeenFacts
<1> HIDE DEF V
<1>3. \A o \in V : Succ(slot')[o] \subseteq V
  <2>0. \A o \in V : Succ(slot')[o] = Kids(slot'[o])
    BY <1>1, <1>2, SuccType
  <2> SUFFICES ASSUME NEW o \in V, NEW x \in Succ(slot')[o] PROVE x \in V
    OBVIOUS
  <2>a. x \in Kids(slot'[o])
    BY <2>0
  <2>1. PICK t \in Slot : x = slot'[o][t] /\ x # Nil
    BY <2>a DEF Kids
  <2>2. slot'[o][t] = slot[o][t] \/ slot'[o][t] = c
    BY <1>1, <1>2 DEF Fields
  <2>3. slot[o][t] # Nil => slot[o][t] \in Succ(slot)[o]
    BY <1>1, <1>2, SuccType DEF Kids
  <2> QED BY <1>2, <2>1, <2>2, <2>3
<1>4. [g EXCEPT ![p][s] = c] = [o \in V |-> slot'[o]]
  BY <1>1, <1>2 DEF GraphOf, Fields, V
<1>5. Heap!Trim([o \in V |-> slot'[o]], roots) = GraphOf(slot', roots)
  BY <1>1, <1>2, <1>3, TrimGraph
<1>6. GraphOf(slot', roots') = Heap!Trim([g EXCEPT ![p][s] = c], roots)
  BY <1>4, <1>5
<1> QED BY <1>6, Mapping DEF Heap!Assign

\* replace_struct.
LEMMA OverwriteStep ==
  ASSUME TypeOK, TypeOK', roots' = roots,
         NEW p \in roots, NEW q \in roots,
         slot' = [slot EXCEPT ![p] = slot[q]]
  PROVE  Heap!Overwrite
<1> DEFINE V == Seen(slot, roots)
           g == GraphOf(slot, roots)
<1>1. slot \in Fields /\ slot' \in Fields /\ roots \in SUBSET Obj
  BY SlotFields DEF TypeOK, Fields
<1>2. /\ roots \subseteq V /\ V \subseteq Obj
      /\ \A o \in V : Succ(slot)[o] \subseteq V
  BY <1>1, SeenFacts
<1>3. \A o \in V : Succ(slot')[o] \subseteq V
  <2> SUFFICES ASSUME NEW o \in V PROVE Succ(slot')[o] \subseteq V
    OBVIOUS
  <2>1. slot'[o] = slot[o] \/ slot'[o] = slot[q]
    BY <1>1, <1>2 DEF Fields
  <2> QED BY <1>1, <1>2, <2>1, SuccType
<1>4. [g EXCEPT ![p] = g[q]] = [o \in V |-> slot'[o]]
  BY <1>1, <1>2 DEF GraphOf, Fields
<1>5. Heap!Trim([o \in V |-> slot'[o]], roots) = GraphOf(slot', roots)
  BY <1>1, <1>2, <1>3, TrimGraph
<1> HIDE DEF V
<1>6. GraphOf(slot', roots') = Heap!Trim([g EXCEPT ![p] = g[q]], roots)
  BY <1>4, <1>5
<1> QED BY <1>6, Mapping DEF Heap!Overwrite

\* A field is read.
LEMMA FetchStep ==
  ASSUME TypeOK, NEW p \in roots, NEW s \in Slot, Load(p, s)
  PROVE  Heap!Fetch
<1> DEFINE V == Seen(slot, roots)
           g == GraphOf(slot, roots)
           c == slot[p][s]
<1>1. slot \in Fields /\ roots \in SUBSET Obj
  BY SlotFields
<1>2. /\ roots \subseteq V /\ V \subseteq Obj
      /\ \A o \in V : Succ(slot)[o] \subseteq V
  BY <1>1, SeenFacts
<1>3. c # Nil /\ roots' = roots \cup {c} /\ slot' = slot
  BY DEF Load, heapVars
<1>4. c \in V
  BY <1>1, <1>2, <1>3, SuccType DEF Kids
<1>5. roots' \in SUBSET Obj /\ roots' \subseteq V
  BY <1>2, <1>3, <1>4
<1>6. Seen(slot, roots') \subseteq V
  BY <1>1, <1>2, <1>5, SeenFacts
<1>7. V \subseteq Seen(slot, roots')
  <2>1. /\ roots \subseteq Seen(slot, roots')
        /\ Seen(slot, roots') \in SUBSET Obj
        /\ \A o \in Seen(slot, roots') :
             Succ(slot)[o] \subseteq Seen(slot, roots')
    BY <1>1, <1>3, <1>5, SeenFacts
  <2> QED BY <1>1, <2>1, SeenFacts
<1>8. GraphOf(slot', roots') = g
  BY <1>3, <1>6, <1>7 DEF GraphOf
<1>9. g[p][s] = c
  BY <1>2 DEF GraphOf
<1> QED BY <1>3, <1>8, <1>9, Mapping DEF Heap!Fetch

\* The last variable that held a cell is gone.
LEMMA ForgetStep ==
  ASSUME TypeOK, NEW o \in roots, Drop(o)
  PROVE  Heap!Forget
<1> DEFINE V == Seen(slot, roots)
<1>1. slot \in Fields /\ roots \in SUBSET Obj
  BY SlotFields
<1>2. /\ roots \subseteq V /\ V \subseteq Obj
      /\ \A x \in V : Succ(slot)[x] \subseteq V
  BY <1>1, SeenFacts
<1>3. roots' = roots \ {o} /\ slot' = slot
  BY DEF Drop, heapVars
<1>4. Heap!Trim([x \in V |-> slot[x]], roots') = GraphOf(slot, roots')
  BY <1>1, <1>2, <1>3, TrimGraph
<1>5. GraphOf(slot, roots) = [x \in V |-> slot[x]]
  BY DEF GraphOf
<1> QED BY <1>3, <1>4, <1>5, Mapping DEF Heap!Forget

\* make_obj takes a cell that the program cannot reach.
LEMMA NewStep ==
  ASSUME TypeOK, TypeOK', NoDangling, TakeFree
  PROVE  Heap!New
<1> DEFINE V == Seen(slot, roots)
           g == GraphOf(slot, roots)
<1> PICK o \in Free, f \in InitialSlots :
      slot' = [slot EXCEPT ![o] = f] /\ roots' = roots \cup {o}
  BY DEF TakeFree
<1>1. /\ slot \in Fields /\ slot' \in Fields
      /\ roots \in SUBSET Obj /\ roots' \in SUBSET Obj
  BY SlotFields DEF TypeOK, Fields
<1>2. /\ roots \subseteq V /\ V \subseteq Obj
      /\ \A x \in V : Succ(slot)[x] \subseteq V
  BY <1>1, SeenFacts
<1>3. V \subseteq live
  <2>1. /\ live \in SUBSET Obj /\ roots \subseteq live
        /\ \A x \in live : Succ(slot)[x] \subseteq live
    BY Mapping DEF TypeOK, NoDangling
  <2> QED BY <1>1, <2>1, SeenFacts
<1>g. DOMAIN g = V /\ \A x \in V : g[x] = slot[x]
  BY DEF GraphOf
<1> HIDE DEF V, g
<1>4. o \in Obj /\ o \notin V
  BY <1>3 DEF Free, TypeOK, Obj
<1>5. slot'[o] = f /\ \A x \in V : slot'[x] = slot[x]
  BY <1>1, <1>2, <1>4 DEF Fields
<1>6. f \in [Slot -> roots \cup {Nil}] \cup {g[q] : q \in roots}
  <2>1. \A q \in roots : g[q] = slot[q]
    BY <1>2, <1>g
  <2> QED BY <2>1 DEF InitialSlots
<1>7. Kids(f) \subseteq V
  <2>1. \A q \in roots : Kids(slot[q]) \subseteq V
    BY <1>1, <1>2, SuccType
  <2> QED BY <1>2, <2>1 DEF InitialSlots, Kids
<1> DEFINE W == Seen(slot', roots')
<1>8. W \subseteq V \cup {o}
  <2>0. Succ(slot')[o] = Kids(f) /\ \A x \in V : Succ(slot')[x] = Succ(slot)[x]
    <3>1. Succ(slot')[o] = Kids(f)
      BY <1>1, <1>4, <1>5, SuccType
    <3>2. \A x \in V : /\ Succ(slot')[x] = Kids(slot'[x])
                      /\ Succ(slot)[x] = Kids(slot[x])
      BY <1>1, <1>2, SuccType
    <3> QED BY <1>5, <3>1, <3>2
  <2>1. \A x \in V \cup {o} : Succ(slot')[x] \subseteq V \cup {o}
    BY <1>2, <1>7, <2>0
  <2> DEFINE S == V \cup {o}
  <2>2. S \in SUBSET Obj /\ roots' \subseteq S
    BY <1>2, <1>4
  <2>3. \A x \in S : Succ(slot')[x] \subseteq S
    BY <2>1
  <2> HIDE DEF S
  <2>4. Seen(slot', roots') \subseteq S
    <3>1. ASSUME NEW sl \in Fields, NEW rs \in SUBSET Obj, rs \subseteq S,
                 \A x \in S : Succ(sl)[x] \subseteq S
          PROVE  Seen(sl, rs) \subseteq S
      BY <2>2, <3>1, SeenFacts
    <3> QED BY <1>1, <2>2, <2>3, <3>1
  <2> QED BY <2>4 DEF S
<1>9. V \cup {o} \subseteq W
  <2>1. /\ roots' \subseteq W /\ W \subseteq Obj
        /\ \A x \in W : Succ(slot')[x] \subseteq W
    BY <1>1, SeenFacts
  <2> DEFINE S == W \ {o}
  <2>2. S \in SUBSET Obj /\ roots \subseteq S
    BY <1>2, <1>4, <2>1
  <2>3. \A x \in S : Succ(slot)[x] \subseteq S
    <3> SUFFICES ASSUME NEW x \in S PROVE Succ(slot)[x] \subseteq S
      OBVIOUS
    <3>0. x \in V
      BY <1>8
    <3>1. x \in V /\ Succ(slot)[x] = Succ(slot')[x]
      <4>1. Succ(slot')[x] = Kids(slot'[x]) /\ Succ(slot)[x] = Kids(slot[x])
        BY <1>1, <1>2, <3>0, SuccType
      <4> QED BY <1>5, <3>0, <4>1
    <3>2. Succ(slot)[x] \subseteq V /\ Succ(slot')[x] \subseteq W
      BY <1>2, <2>1, <3>1
    <3> QED BY <1>4, <3>1, <3>2
  <2>4. V \subseteq S
    <3> HIDE DEF S
    <3> QED BY <1>1, <2>2, <2>3, SeenFacts DEF V
  <2> QED BY <2>1, <2>4
<1>10. W = V \cup {o}
  BY <1>8, <1>9
<1>11. GraphOf(slot', roots') =
         [x \in DOMAIN g \cup {o} |-> IF x = o THEN f ELSE g[x]]
  <2>1. GraphOf(slot', roots') = [x \in V \cup {o} |-> slot'[x]]
    BY <1>10 DEF GraphOf
  <2>2. \A x \in V \cup {o} : slot'[x] = IF x = o THEN f ELSE g[x]
    BY <1>4, <1>5, <1>g
  <2> QED BY <1>g, <2>1, <2>2
<1>12. o \in Obj \ DOMAIN g
  BY <1>4, <1>g
<1>13. g = Graph
  BY Mapping DEF g
<1>14. Graph' =
         [x \in DOMAIN g \cup {o} |-> IF x = o THEN f ELSE g[x]]
  BY <1>11, Mapping
<1> QED BY <1>6, <1>12, <1>13, <1>14 DEF Heap!New

\* A collection leaves what the program can reach as it was.
LEMMA CollectionInvisible ==
  ASSUME IInv, TypeOK', Gc
  PROVE  UNCHANGED <<Graph, roots>>
<1> USE DEF IInv
<1>1. NoDangling'
  BY GcStep
<1>2. roots' = roots /\ slot \in Fields
  BY SlotFields DEF Gc
<1>3. slot' = slot \/ slot' = [o \in Obj |-> IF o \in live' THEN slot[o]
                                             ELSE [s \in Slot |-> Nil]]
  BY DEF Gc, Collect, heapVars
<1>4. slot' = slot \/ (\A o \in live' : slot'[o] = slot[o])
  BY <1>3 DEF TypeOK
<1>5. slot' # slot => Seen(slot, roots) \subseteq live'
  <2> SUFFICES ASSUME slot' # slot PROVE Seen(slot, roots) \subseteq live'
    OBVIOUS
  <2>1. live' \in SUBSET Obj /\ roots \subseteq live'
    BY <1>1, <1>2 DEF TypeOK, NoDangling
  <2>2. \A o \in live' : Children(o)' = Children(o)
    BY <1>4, <2>1 DEF Children
  <2>3. \A o \in live' : Succ(slot)[o] \subseteq live'
    BY <1>1, <2>1, <2>2, Mapping DEF NoDangling
  <2> QED BY <1>2, <2>1, <2>3, SeenFacts, SlotFields
<1>6. \A o \in Seen(slot, roots) : slot'[o] = slot[o]
  BY <1>4, <1>5
<1> QED BY <1>2, <1>6, StutterStep

\* Every step of the heap is a step of the abstract one, or invisible.
LEMMA StepSimulation ==
  IInv /\ IInv' /\ [Next]_vars => [Heap!Next]_(Heap!avars)
<1> SUFFICES ASSUME IInv, IInv', [Next]_vars
             PROVE  Heap!Next \/ UNCHANGED <<Graph, roots>>
  BY DEF Heap!avars
<1> USE DEF IInv
<1>0. UNCHANGED <<slot, roots>> =>
        UNCHANGED <<Graph, roots>>
  BY StutterStep
<1>1. CASE MakeObj \/ Refill \/ Malloc
           \/ \E b \in BOOLEAN : GcState(b) \/ GcWrap(b)
  BY <1>0, <1>1 DEF MakeObj, Refill, Malloc, GcState, GcWrap, heapVars
<1>2. CASE TakeFree
  BY <1>2, NewStep DEF Heap!Next
<1>3. CASE Gc
  BY <1>3, CollectionInvisible
<1>4. CASE FinishSet
  <2>1. op.p \in roots /\ op.s \in Slot /\ op.c \in roots
    BY <1>4 DEF FinishSet, Control
  <2>2. roots' = roots /\ slot' = [slot EXCEPT ![op.p][op.s] = op.c]
    BY <1>4 DEF FinishSet, Write
  <2> QED BY <2>1, <2>2, StoreStep DEF Heap!Next
<1>5. ASSUME NEW p \in roots, NEW s \in Slot, Load(p, s)
      PROVE  Heap!Next
  BY <1>5, FetchStep DEF Heap!Next
<1>6. ASSUME NEW p \in roots, NEW s \in Slot, NEW c \in roots \cup {Nil},
             Set(p, s, c)
      PROVE  Heap!Next \/ UNCHANGED <<Graph, roots>>
  <2>1. /\ roots' = roots
        /\ slot' = slot \/ slot' = [slot EXCEPT ![p][s] = c]
    BY <1>6 DEF Set, Write
  <2> QED BY <1>0, <2>1, StoreStep DEF Heap!Next
<1>7. ASSUME NEW p \in roots, NEW q \in roots, Replace(p, q)
      PROVE  Heap!Next
  <2>1. roots' = roots /\ slot' = [slot EXCEPT ![p] = slot[q]]
    BY <1>7 DEF Replace
  <2> QED BY <2>1, OverwriteStep DEF Heap!Next
<1>8. ASSUME NEW o \in roots, Drop(o) PROVE Heap!Next
  BY <1>8, ForgetStep DEF Heap!Next
<1>9. CASE UNCHANGED vars
  BY <1>0, <1>9 DEF vars, heapVars
<1> QED
  BY <1>1, <1>2, <1>3, <1>4, <1>5, <1>6, <1>7, <1>8, <1>9 DEF Next

\* The empty heap is the empty graph.
LEMMA InitSimulation == Init => Heap!Init
<1> SUFFICES ASSUME Init PROVE Heap!Init
  OBVIOUS
<1>1. roots = {} /\ TypeOK
  BY InitIInv DEF Init, IInv
<1>2. Seen(slot, roots) = {}
  BY <1>1, SeenFacts, SlotFields
<1>3. GraphOf(slot, roots) = [o \in {} |-> [s \in Slot |-> Nil]]
  BY <1>2 DEF GraphOf
<1> QED BY <1>1, <1>3, Mapping DEF Heap!Init

\* The collector, with its generations, its barriers and the reuse of cells,
\* cannot be told from a heap that reclaims nothing: whatever gc.c does
\* between two steps of the program, the cells it can reach and their fields
\* are those it would see without it.
THEOREM CollectorInvisible == Spec => Implements
BY InitSimulation, StepSimulation, Invariance, PTL
   DEF Spec, Implements, Heap!Spec

-----------------------------------------------------------------------------
(* A full collection reclaims all of the garbage.                          *)

\* A full collection marks what is reachable and nothing else, keeps what it
\* marked, and leaves in heap_list only blocks in use and at most a new one.
LEMMA FullCollection ==
  ASSUME IInv, Gc, fullGc \/ pressure, pc' # "abort"
  PROVE  /\ \E junk \in SUBSET live :
              /\ Cardinality(junk) <= JunkMax
              /\ live' = ReachedFrom(roots \cup junk,
                                     [o \in Obj |-> Children(o)])
         /\ \E h : {k \in heaps' : k \cap live' = {}} \subseteq {h}
<1> USE DEF IInv
<1>1. flag = {} /\ fullGc \in BOOLEAN /\ pressure \in BOOLEAN
  BY DEF NoStaleMarks, TypeOK
<1>2. \A S : Entered(S, TRUE) = S
  BY <1>1 DEF Entered, Enters
<1> PICK junk \in SUBSET live :
      /\ Cardinality(junk) <= JunkMax
      /\ Collect(TRUE, Marked(TRUE, junk), Resume(op))
  BY <1>1 DEF Gc
<1> DEFINE marked == Marked(TRUE, junk)
<1>3. marked = ReachedFrom(roots \cup junk, [o \in Obj |-> Children(o)])
  BY <1>2 DEF Marked
<1>4. marked \subseteq live
  BY MarkedFacts DEF Entered
<1> HIDE DEF marked
<1>5. Kept(TRUE, marked) = marked
  BY <1>1, <1>4 DEF Kept, SweepSet, NoDangling
<1>6. live' = marked
  BY <1>5 DEF Collect, marked
<1>7. \E h : heaps' \subseteq InUse(TRUE, marked) \cup {h}
  <2>1. heaps' = InUse(TRUE, Kept(TRUE, marked))
        \/ \E h : heaps' = InUse(TRUE, Kept(TRUE, marked)) \cup {h}
    BY DEF Collect, marked
  <2> QED BY <1>5, <2>1
<1>8. \A h \in InUse(TRUE, marked) : h \cap marked # {}
  BY DEF InUse
<1>9. \E h : {k \in heaps' : k \cap live' = {}} \subseteq {h}
  BY <1>6, <1>7, <1>8
<1> QED BY <1>3, <1>6, <1>9

\* After a full collection the heap is exact: an allocated cell is reachable
\* from the roots or from one of the stray words on the stack, and every block
\* without one has been given back, but for the one the heap may grow by.
THEOREM FullCollectionExact == Spec => FullGcExact
<1> DEFINE Step ==
      pc = "gc" /\ (fullGc \/ pressure) /\ pc' # "abort" =>
        /\ \E junk \in SUBSET live :
             /\ Cardinality(junk) <= JunkMax
             /\ live' = ReachedFrom(roots \cup junk,
                                    [o \in Obj |-> Children(o)])
        /\ Cardinality({h \in heaps' : h \cap live' = {}}) <= 1
<1>1. IInv /\ [Next]_vars => [Step]_vars
  <2> SUFFICES ASSUME IInv, Next, pc = "gc", fullGc \/ pressure, pc' # "abort"
               PROVE  Step
    OBVIOUS
  <2>1. Gc
    BY DEF Next, MakeObj, TakeFree, Refill, FinishSet, Malloc, Load, Set,
           Replace, Drop, GcState, GcWrap
  <2> DEFINE empty == {h \in heaps' : h \cap live' = {}}
  <2>2. \E h : empty \subseteq {h}
    BY <2>1, FullCollection
  <2>3. Cardinality(empty) <= 1
    <3> HIDE DEF empty
    <3>1. PICK h : empty = {} \/ empty = {h}
      BY <2>2
    <3> QED BY <3>1, FS_EmptySet, FS_Singleton
  <2> QED BY <2>1, <2>3, FullCollection
<1> QED BY <1>1, Invariance, PTL DEF Spec, FullGcExact
=============================================================================

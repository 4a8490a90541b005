------------------------------- MODULE GcHeap -------------------------------
(***************************************************************************)
(* The generational heap of gc.c: the allocator make_obj, the write        *)
(* barriers gc_assign_check (under gc_set) and gc_mutated, and the         *)
(* collector gc(), over a heap of cells that the interpreter (the mutator) *)
(* allocates, links together and drops.                                    *)
(*                                                                         *)
(* The program is single threaded, so gc() runs to the end once entered;   *)
(* but it is entered from inside an allocation or a store, and returns     *)
(* into the middle of it.  pc and op say what is in progress.              *)
(*                                                                         *)
(* Left to other modules: finalizers (GcFinal), recycled conses            *)
(* (GcRecycle), stores made behind the barrier's back (GcRawStore).        *)
(***************************************************************************)
EXTENDS Naturals, Integers, FiniteSets, Reachability

CONSTANTS
  Heaps,      \* the heap blocks the system can hand out: disjoint sets of cells
  HeapSize,   \* HEAP_SIZE: the number of cells of a block
  Slot,       \* the reference fields of a cell (car, cdr, ...)
  Nil,        \* the empty reference
  FreshMax,   \* FRESHOBJ_VEC_SIZE
  CheckMax,   \* CHECKOBJ_VEC_SIZE
  MutMax,     \* MUTOBJ_VEC_SIZE
  Interval,   \* FULL_GC_INTERVAL
  GcDebug,    \* opt_gc_debug: collect at every allocation
  JunkMax     \* bound: stray stack words that look like cell addresses

Obj == UNION Heaps

ASSUME HeapsAssumption ==
  /\ \A h \in Heaps : IsFiniteSet(h) /\ Cardinality(h) = HeapSize
  /\ \A h, k \in Heaps : h # k => h \cap k = {}
ASSUME NilAssumption == Nil \notin Obj
ASSUME SizeAssumption ==
  /\ HeapSize \in Nat \ {0} /\ FreshMax \in Nat \ {0} /\ Interval \in Nat \ {0}
  /\ CheckMax \in Nat /\ MutMax \in Nat /\ JunkMax \in Nat
  /\ GcDebug \in BOOLEAN

VARIABLES
  heaps,      \* heap_list: the blocks in use
  live,       \* the cells of them that are allocated (type without FREE)
  slot,       \* the reference fields of the cells
  gen,        \* t.gen: 0 baby, 1 mature, -1 noted in checkobj or mutobj
  flag,       \* the cells with the REACHABLE bit set
  fresh,      \* freshobj[0..freshobj_idx-1]
  check,      \* checkobj[0..checkobj_idx-1]
  mutd,       \* mutobj[0..mutobj_idx-1]
  fullGc,     \* full_gc
  gcEnabled,  \* gc_enabled
  gcCounter,  \* gc_counter
  pressure,   \* malloc_bytes - prev_malloc_bytes >= opt_gc_delta
  roots,      \* cells held by protected locations and live local variables
  pc,         \* what is in progress
  op,         \* the operation that gc() returns into
  tries       \* make_obj's loop counter

heapVars  == <<heaps, live, slot, gen, flag>>
listVars  == <<fresh, check, mutd>>
gcVars    == <<fullGc, gcEnabled, gcCounter, pressure>>
ctlVars   == <<pc, op, tries>>
vars      == <<heapVars, listVars, gcVars, roots, ctlVars>>

-----------------------------------------------------------------------------
(* State predicates and helpers.                                           *)

Ref      == Obj \cup {Nil}
Free     == (UNION heaps) \ live
Idle     == [kind |-> "none", p |-> Nil, s |-> Nil, c |-> Nil]
Op       == [kind : {"none", "find", "store"},
             p : Ref, s : Slot \cup {Nil}, c : Ref]

\* The references held by cell o, without the empty ones.
Children(o) == {slot[o][s] : s \in Slot} \ {Nil}

Enters_MinorAlways(o, full) == o \notin flag /\ gen[o] <= 0

\* mark_obj goes into a cell unless it is marked already or, in a minor
\* collection, mature.
Enters(o, full) == o \notin flag /\ (full \/ gen[o] <= 0)

Entered(S, full) == {o \in S : Enters(o, full)}

Marked_UnnotedOnly(full, junk) ==
  ReachedFrom(Entered(roots \cup junk, full),
              [o \in Obj |-> Entered(Children(o), full)])

\* What mark() marks: from the registered roots, in a minor collection from
\* the noted objects too, and from whatever on the stack looks like an
\* allocated cell.
Marked(full, junk) ==
  ReachedFrom(Entered(roots \cup junk \cup
                      (IF full THEN {} ELSE check \cup mutd), full),
              [o \in Obj |-> Entered(Children(o), full)])

SweepSet_FreshOnly(full) == IF full THEN UNION heaps ELSE fresh

\* sweep visits every cell in a full collection; in a minor one the fresh
\* cells and then the noted mature ones.
SweepSet(full) == IF full THEN UNION heaps ELSE fresh \cup mutd

\* The two ways gc() dies on a broken heap: mark_obj meets a FREE cell, or a
\* minor sweep_one meets a mature cell (one listed twice was just promoted).
GcAborts(full, marked) ==
  \/ ~ marked \subseteq live
  \/ ~full /\ (\/ \E o \in fresh \cup mutd : gen[o] = 1
               \/ fresh \cap mutd \cap marked # {})

TypeOK ==
  /\ heaps \subseteq Heaps
  /\ live \subseteq Obj
  /\ slot \in [Obj -> [Slot -> Ref]]
  /\ gen \in [Obj -> {-1, 0, 1}]
  /\ flag \subseteq Obj
  /\ fresh \subseteq Obj /\ check \subseteq Obj /\ mutd \subseteq Obj
  /\ fullGc \in BOOLEAN /\ gcEnabled \in BOOLEAN /\ pressure \in BOOLEAN
  /\ gcCounter \in 0..Interval
  /\ roots \subseteq Obj
  /\ pc \in {"run", "gc", "find", "store", "abort", "oom"}
  /\ op \in Op
  /\ tries \in 0..3

Init ==
  /\ heaps = {} /\ live = {} /\ flag = {} /\ roots = {}
  /\ slot = [o \in Obj |-> [s \in Slot |-> Nil]]
  /\ gen = [o \in Obj |-> 0]
  /\ fresh = {} /\ check = {} /\ mutd = {}
  /\ fullGc = FALSE /\ gcEnabled = TRUE /\ pressure = FALSE
  /\ gcCounter = 0
  /\ pc = "run" /\ op = Idle /\ tries = 0

-----------------------------------------------------------------------------
(* The allocator: make_obj.                                                *)

\* make_obj's head: collect first when asked to, when freshobj is full or
\* when malloc has handed out opt_gc_delta bytes since the last collection.
MakeObj ==
  /\ pc = "run"
  /\ tries' = 0
  /\ IF /\ GcDebug \/ Cardinality(fresh) >= FreshMax \/ pressure
        /\ gcEnabled
       THEN pc' = "gc" /\ op' = [Idle EXCEPT !.kind = "find"]
       ELSE pc' = "find" /\ op' = Idle
  /\ UNCHANGED <<heapVars, listVars, gcVars, roots>>

FullNow_Forgotten == fullGc

\* Past the head of make_obj a freshobj that is still full (collection is
\* disabled) schedules a full collection.
FullNow == fullGc \/ (tries = 0 /\ Cardinality(fresh) >= FreshMax)

\* The fields a new cell starts with: values the mutator holds, or those of a
\* cell it copies (copy_obj).
InitialSlots == [Slot -> roots \cup {Nil}] \cup {slot[q] : q \in roots}

\* The free list is not empty: its head becomes a baby object.
TakeFree ==
  /\ pc = "find" /\ Free # {}
  /\ \E o \in Free, f \in InitialSlots :
       /\ live' = live \cup {o}
       /\ slot' = [slot EXCEPT ![o] = f]
       /\ gen' = [gen EXCEPT ![o] = 0]
       /\ fresh' = IF FullNow THEN fresh ELSE fresh \cup {o}
       /\ roots' = roots \cup {o}
  /\ fullGc' = FullNow
  /\ pc' = "run" /\ tries' = 0
  /\ UNCHANGED <<heaps, flag, check, mutd, gcEnabled, gcCounter, pressure, op>>

\* more(): one more block, or the end of the program when there is none.
More(next) ==
  IF heaps = Heaps
    THEN heaps' = heaps /\ pc' = "oom"
    ELSE /\ \E h \in Heaps \ heaps : heaps' = heaps \cup {h}
         /\ pc' = next

\* The free list is empty: the body of make_obj's retry loop.  The last case
\* is the loop running out of tries, where make_obj calls abort().
Refill ==
  /\ pc = "find" /\ Free = {} /\ tries < 3
  /\ fullGc' = FullNow
  /\ tries' = tries + 1
  /\ LET next == IF tries + 1 < 3 THEN "find" ELSE "abort" IN
       IF \/ ~FullNow /\ Cardinality(fresh) < FreshMax
          \/ tries = 0 /\ ~gcEnabled
          \/ tries = 1
         THEN More(next) /\ op' = op
         ELSE /\ IF tries = 0
                   THEN pc' = "gc" /\ op' = [Idle EXCEPT !.kind = "find"]
                   ELSE pc' = next /\ op' = op
              /\ heaps' = heaps
  /\ UNCHANGED <<live, slot, gen, flag, listVars, gcEnabled, gcCounter,
                 pressure, roots>>

-----------------------------------------------------------------------------
(* The collector: gc().                                                    *)

InUse_NeverFreed(full, kept) == heaps

FullDue_Late == gcCounter > Interval \/ Cardinality(fresh) >= FreshMax

\* The blocks that a sweep leaves in heap_list: a full one frees those in which
\* no cell was kept.
InUse(full, kept) == {h \in heaps : ~full \/ h \cap kept # {}}

\* Whether gc() schedules the next collection as a full one.
FullDue == gcCounter + 1 >= Interval \/ Cardinality(fresh) >= FreshMax

\* The cells that survive sweep.
Kept(full, marked) == live \ (SweepSet(full) \ (marked \cup flag))

\* The sweep after mark() has marked these cells, and the preparations for the
\* next collection: a survivor is mature, the lists are empty, and a heap that
\* was full and of which less than three quarters of a block came free grows
\* (HEAP_SIZE is a multiple of 4).
Collect(full, marked, next) ==
  LET swept     == SweepSet(full)
      kept      == Kept(full, marked)
      freeCount == Cardinality(swept \ kept)
      inUse     == InUse(full, kept)
  IN  /\ live' = kept
      /\ slot' = [o \in Obj |-> IF o \in kept THEN slot[o]
                                ELSE [s \in Slot |-> Nil]]
      /\ gen' = [o \in Obj |-> IF o \notin kept THEN 0
                               ELSE IF o \in swept THEN 1
                               ELSE IF o \in marked /\ gen[o] = -1 THEN 0
                               ELSE gen[o]]
      /\ flag' = (flag \cup marked) \ swept
      /\ IF Free = {} /\ full /\ 4 * freeCount < 3 * HeapSize
           THEN IF inUse = Heaps
                  THEN heaps' = inUse /\ pc' = "oom"
                  ELSE /\ \E h \in Heaps \ inUse : heaps' = inUse \cup {h}
                       /\ pc' = next
           ELSE heaps' = inUse /\ pc' = next
      /\ fresh' = {} /\ check' = {} /\ mutd' = {}
      /\ gcCounter' = IF FullDue THEN 0 ELSE gcCounter + 1
      /\ fullGc' = FullDue
      /\ pressure' = FALSE

\* Where gc() returns to.
Resume(o) == IF o.kind = "none" THEN "run" ELSE o.kind

\* What is left of the interrupted operation: make_obj starts its loop afresh.
Resumed(o) == IF o.kind = "store" THEN o ELSE Idle

\* gc(), whole: the mark phase is given junk, the words on the stack and in the
\* registers that look like allocated cells and are not references.
Gc ==
  /\ pc = "gc"
  /\ \E junk \in {j \in SUBSET live : Cardinality(j) <= JunkMax} :
       LET full   == fullGc \/ pressure
           marked == Marked(full, junk)
       IN  IF GcAborts(full, marked) \/ ~gcEnabled
             THEN /\ pc' = "abort"
                  /\ UNCHANGED <<heapVars, listVars, gcVars, op>>
             ELSE /\ Collect(full, marked, Resume(op))
                  /\ op' = Resumed(op)
                  /\ gcEnabled' = gcEnabled
  /\ UNCHANGED <<roots, tries>>

-----------------------------------------------------------------------------
(* The write barriers.                                                     *)

Write(p, s, c) == slot' = [slot EXCEPT ![p][s] = c]

Unsafe_Swapped(p, c) == c # Nil /\ gen[p] = 0 /\ gen[c] = 1 /\ ~fullGc

Unsafe_AnyChild(p, c) == c # Nil /\ gen[p] = 1 /\ ~fullGc

NeedsNote_AnyAge(p) == ~fullGc

\* The store would leave a mature object with a baby that no list names.
Unsafe(p, c) == c # Nil /\ gen[p] = 1 /\ gen[c] = 0 /\ ~fullGc

\* p is mature and not noted.
NeedsNote(p) == ~(fullGc \/ gen[p] <= 0)

\* gc_set: gc_assign_check notes a baby that a mature object is about to
\* refer to; with checkobj full it collects, which promotes the baby, or
\* schedules a full collection.  Then the reference is stored.
Set(p, s, c) ==
  /\ pc = "run"
  /\ IF Unsafe(p, c)
       THEN \/ /\ Cardinality(check) < CheckMax
               /\ gen' = [gen EXCEPT ![c] = -1]
               /\ check' = check \cup {c}
               /\ Write(p, s, c)
               /\ UNCHANGED <<fullGc, pc, op>>
            \/ /\ Cardinality(check) >= CheckMax /\ gcEnabled
               /\ pc' = "gc"
               /\ op' = [kind |-> "store", p |-> p, s |-> s, c |-> c]
               /\ UNCHANGED <<gen, check, slot, fullGc>>
            \/ /\ Cardinality(check) >= CheckMax /\ ~gcEnabled
               /\ fullGc' = TRUE
               /\ Write(p, s, c)
               /\ UNCHANGED <<gen, check, pc, op>>
       ELSE Write(p, s, c) /\ UNCHANGED <<gen, check, fullGc, pc, op>>
  /\ UNCHANGED <<heaps, live, flag, fresh, mutd, gcEnabled, gcCounter,
                 pressure, roots, tries>>

\* The store of a gc_set whose barrier collected.
FinishSet ==
  /\ pc = "store"
  /\ Write(op.p, op.s, op.c)
  /\ pc' = "run" /\ op' = Idle
  /\ UNCHANGED <<heaps, live, gen, flag, listVars, gcVars, roots, tries>>

\* replace_struct: all the fields of q are copied into p, and then
\* gc_mutated(p) notes that p may refer to babies.
Replace(p, q) ==
  /\ pc = "run" /\ p # q
  /\ slot' = [slot EXCEPT ![p] = slot[q]]
  /\ IF NeedsNote(p)
       THEN \/ /\ Cardinality(mutd) < MutMax
               /\ gen' = [gen EXCEPT ![p] = -1]
               /\ mutd' = mutd \cup {p}
               /\ UNCHANGED <<fullGc, pc>>
            \/ /\ Cardinality(mutd) >= MutMax /\ gcEnabled
               /\ pc' = "gc"
               /\ UNCHANGED <<gen, mutd, fullGc>>
            \/ /\ Cardinality(mutd) >= MutMax /\ ~gcEnabled
               /\ fullGc' = TRUE
               /\ UNCHANGED <<gen, mutd, pc>>
       ELSE UNCHANGED <<gen, mutd, fullGc, pc>>
  /\ UNCHANGED <<heaps, live, flag, fresh, check, gcEnabled, gcCounter,
                 pressure, roots, op, tries>>

-----------------------------------------------------------------------------
(* The mutator's other steps.                                              *)

\* A field is read into a local variable.
Load(p, s) ==
  /\ pc = "run" /\ slot[p][s] # Nil
  /\ roots' = roots \cup {slot[p][s]}
  /\ UNCHANGED <<heapVars, listVars, gcVars, ctlVars>>

\* The last variable that held o is overwritten or goes out of scope.
Drop(o) ==
  /\ pc = "run"
  /\ roots' = roots \ {o}
  /\ UNCHANGED <<heapVars, listVars, gcVars, ctlVars>>

\* chk_malloc and friends push malloc_bytes over the threshold.
Malloc ==
  /\ pc = "run" /\ ~pressure
  /\ pressure' = TRUE
  /\ UNCHANGED <<heapVars, listVars, fullGc, gcEnabled, gcCounter, roots,
                 ctlVars>>

\* gc_state: collection is switched off around code that holds unregistered
\* references, and back on.
GcState(enabled) ==
  /\ pc = "run" /\ gcEnabled # enabled
  /\ gcEnabled' = enabled
  /\ UNCHANGED <<heapVars, listVars, fullGc, gcCounter, pressure, roots,
                 ctlVars>>

\* gc_wrap: the program's own request for a collection, full or not.
GcWrap(full) ==
  /\ pc = "run" /\ gcEnabled
  /\ fullGc' = (fullGc \/ full)
  /\ pc' = "gc"
  /\ UNCHANGED <<heapVars, listVars, gcEnabled, gcCounter, pressure, roots,
                 op, tries>>

-----------------------------------------------------------------------------
Next ==
  \/ MakeObj \/ TakeFree \/ Refill \/ Gc \/ FinishSet \/ Malloc
  \/ \E p \in roots, s \in Slot : Load(p, s)
  \/ \E p \in roots, s \in Slot, c \in roots \cup {Nil} : Set(p, s, c)
  \/ \E p, q \in roots : Replace(p, q)
  \/ \E o \in roots : Drop(o)
  \/ \E b \in BOOLEAN : GcState(b) \/ GcWrap(b)

Spec == Init /\ [][Next]_vars

-----------------------------------------------------------------------------
(* Properties.                                                             *)

\* The heap holds no dangling reference: what the program can use is
\* allocated, an allocated cell refers to allocated cells only (garbage
\* included: any word on the stack may revive it), and no block is given back
\* while a cell of it is in use.
NoDangling ==
  /\ roots \subseteq live
  /\ live \subseteq UNION heaps
  /\ \A o \in live : Children(o) \subseteq live

\* make_obj never runs out of tries and gc() never meets a cell it does not
\* expect: none of the abort() and assert() calls of gc.c is reached.
NoAbort == pc # "abort"

\* The children of o that a minor collection could reclaim are noted.
Tracked(o) == \A c \in Children(o) : gen[c] = 1 \/ c \in check \cup mutd

\* Unless a full collection is due, a minor one finds every baby that a mature
\* object refers to; the only exception is the object whose gc_mutated found
\* mutobj full, and whose babies are held by the object they were copied from.
Remembered ==
  ~fullGc => \A p \in live :
    gen[p] = 1 =>
      \/ Tracked(p)
      \/ /\ pc = "gc"
         /\ \E q \in roots : slot[q] = slot[p] /\ (gen[q] <= 0 \/ Tracked(q))

\* Unless a full collection is due, the lists a minor collection sweeps name
\* every cell that is not mature, each once, and no other cell.
ListsExact ==
  ~fullGc =>
    /\ fresh \cap mutd = {}
    /\ fresh \cup mutd = {o \in live : gen[o] <= 0}
    /\ check \cup mutd = {o \in live : gen[o] = -1}

\* The three lists stay within their arrays.  FullNow is what protects freshobj:
\* with collection disabled, allocation goes on when the array is full.
ListsFit ==
  /\ Cardinality(fresh) <= FreshMax
  /\ Cardinality(check) <= CheckMax
  /\ Cardinality(mutd) <= MutMax

\* No REACHABLE bit survives a collection: a cell with a stale bit would be
\* skipped by the next mark_obj and its children reclaimed.
NoStaleMarks == flag = {}

\* gc_assign_check relies on it: "there are no baby objects after gc".
NoBabiesAfterGc ==
  [][pc = "gc" /\ pc' # "abort" => \A o \in live' : gen'[o] = 1]_vars

\* A full collection is exact: it keeps what is reachable from the roots and
\* from at most JunkMax stray words, and gives back every empty block (one
\* fresh block may be added after it).
FullGcExact ==
  [][pc = "gc" /\ (fullGc \/ pressure) /\ pc' # "abort" =>
       /\ \E junk \in SUBSET live :
            /\ Cardinality(junk) <= JunkMax
            /\ live' = ReachedFrom(roots \cup junk,
                                   [o \in Obj |-> Children(o)])
       /\ Cardinality({h \in heaps' : h \cap live' = {}}) <= 1]_vars

\* What the program sees of the heap: the cells it can reach, with their
\* fields.
Visible == ReachedFrom(roots, [o \in Obj |-> Children(o)])
Graph == [o \in Visible |-> slot[o]]

\* The collector is invisible: the heap implements one that never reclaims.
Heap == INSTANCE AbstractHeap WITH graph <- Graph, held <- roots
Implements == Heap!Spec
=============================================================================

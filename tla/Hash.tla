-------------------------------- MODULE Hash --------------------------------
(***************************************************************************)
(* Hash tables (hash.c): open addressing with linear probing, deletion     *)
(* with back shift, growth, iterators that keep old tables alive, and the  *)
(* processing of weak tables and of iterators by the garbage collector.    *)
(*                                                                         *)
(* One hash table is modelled; others appear as what an iterator may be    *)
(* reset to.  A cell is an entry's cons: its key, and a number that tells  *)
(* it from earlier entries for that key.                                   *)
(***************************************************************************)
EXTENDS Integers, FiniteSets, Sequences

CONSTANTS
  Key,         \* the keys
  Hcode,       \* the hash code of each key
  FirstMask,   \* the mask of a new table (255 in the code)
  Iter,        \* the iterators
  Stacked,     \* those that live on the C stack (maphash, dohash)
  TableMax,    \* bound: tables the hash has had
  UseMax,      \* bound: the size of a use count, right or wrong
  Instances,   \* bound: cells that exist for one key
  Weak,        \* whether entries lapse when the collector says so
  Programs     \* bound: what is explored: sets of "get", "remove", "clear",
               \* "iterate", "reset", "dissociate", "gc", "copy"

ASSUME HashAssumption ==
  /\ Hcode \in [Key -> Nat]
  /\ FirstMask \in Nat \ {0} /\ TableMax \in Nat /\ UseMax \in Nat
  /\ Instances \in Nat
  /\ IsFiniteSet(Iter) /\ Stacked \subseteq Iter /\ Weak \in BOOLEAN

VARIABLES
  tabs,        \* every table the hash has had; the last is h->table
  old,         \* h->tblstack, as a set of positions in tabs
  count,       \* h->count
  usecount,    \* h->usecount
  iter,        \* the iterators
  copy,        \* copy_hash
  answer,      \* what the last operation on an entry returned
  crashed,     \* a null pointer was used
  program      \* what this behaviour explores, one of Programs

table == <<tabs, old, count>>
vars == <<tabs, old, count, usecount, iter, copy, answer, crashed, program>>

None == <<>>
Cell == Key \X (1 .. Instances)

Cur == Len(tabs)
Vec == tabs[Cur]
Mask(vec) == Len(vec) - 1

\* Vectors are numbered from 1 here, slots from 0 in the code.
At(vec, i) == vec[i + 1]
Occupied(vec) == {i \in 0 .. Mask(vec) : At(vec, i) # None}
CellsOf(vec) == {At(vec, i) : i \in Occupied(vec)}
Empty(mask) == [i \in 1 .. mask + 1 |-> None]

Probe(vec, k, n) == (Hcode[k] + n) % (Mask(vec) + 1)

-----------------------------------------------------------------------------
(* The table.                                                              *)

\* The first probe that meets the key or an empty slot.  There is always an
\* empty slot, so the search never comes round to where it began.
Stop(vec, k) ==
  LET stops(n) == LET c == At(vec, Probe(vec, k, n)) IN c = None \/ c[1] = k
      n == CHOOSE n \in 0 .. Mask(vec) :
             stops(n) /\ \A m \in 0 .. n - 1 : ~stops(m)
  IN Probe(vec, k, n)

Found(vec, k) == At(vec, Stop(vec, k)) # None

MoveInto_BeforeOnly(i, wipe, home) == home <= wipe

\* Whether the cell at i may move back into the hole at wipe: whether its
\* home is not cyclically between them.
MoveInto(i, wipe, home) == ((i < wipe) # (home <= wipe)) # (home > i)

\* The loop of hash_remove looks at slot i, with a hole at a.wipe: the cell
\* there moves into the hole and leaves one behind, or stays; an empty slot
\* ends the loop.
Shift(a, i) ==
  LET c == At(a.vec, i)
  IN IF a.done \/ c = None
     THEN [vec |-> a.vec, wipe |-> a.wipe, done |-> TRUE]
     ELSE IF MoveInto(i, a.wipe, Hcode[c[1]] % Len(a.vec))
     THEN [vec |-> [a.vec EXCEPT ![a.wipe + 1] = c],
           wipe |-> i, done |-> FALSE]
     ELSE a

Shifts(vec, victim) ==
  LET after[n \in 0 .. Mask(vec)] ==
        IF n = 0 THEN [vec |-> vec, wipe |-> victim, done |-> FALSE]
        ELSE Shift(after[n - 1], (victim + n) % Len(vec))
  IN after

\* hash_remove: close the hole, one slot after another up to an empty one.
Without(vec, victim) ==
  LET end == Shifts(vec, victim)[Mask(vec)]
  IN [end.vec EXCEPT ![end.wipe + 1] = None]

\* hash_grow_reinsert of one slot
Moved(t, c) == IF c = None THEN t ELSE [t EXCEPT ![Stop(t, c[1]) + 1] = c]

Growth(vec) ==
  LET new[j \in 0 .. Len(vec)] ==
        IF j = 0 THEN Empty(2 * Mask(vec) + 1) ELSE Moved(new[j - 1], vec[j])
  IN new

\* hash_grow: the cells go into a table twice the size, in slot order.
Grown(vec) == Growth(vec)[Len(vec)]

\* ++h->count > h->mask >> 1
Full(n, vec) == n > Mask(vec) \div 2

\* A cell that is in no table, and that no traversal remembers.
NewCells(k) ==
  {c \in {k} \X (1 .. Instances) :
     /\ \A t \in 1 .. Cur : c \notin CellsOf(tabs[t])
     /\ \A i \in Iter : c \notin iter[i].begun \cup iter[i].seen}

NewCell(k) == CHOOSE c \in NewCells(k) : TRUE

Idle == copy.at = -1 /\ ~crashed

Active(i) == iter[i].of = "hash"

\* push(table, &h->tblstack), done before h->table changes.
HeldTable == Cur

\* gethash-c of a key that is absent, as sethash and the others call it.
Insert(k) ==
  /\ Idle /\ ~Found(Vec, k) /\ NewCells(k) # {}
  /\ LET vec == [Vec EXCEPT ![Stop(Vec, k) + 1] = NewCell(k)]
         put == [tabs EXCEPT ![Cur] = vec]
     IN IF Full(count + 1, vec)
        THEN /\ Cur < TableMax
             /\ tabs' = Append(put, Grown(vec))
             /\ old' = IF usecount > 0 THEN old \cup {HeldTable} ELSE {}
        ELSE tabs' = put /\ old' = old
  /\ count' = count + 1
  /\ answer' = <<"new", 0>>
  /\ UNCHANGED <<usecount, iter, copy, crashed, program>>

\* gethash-c of a key that is present.
Reinsert(k) ==
  /\ Idle /\ Found(Vec, k)
  /\ answer' = <<"old", 0>>
  /\ UNCHANGED <<table, usecount, iter, copy, crashed, program>>

Gethash(k) ==
  /\ "get" \in program
  /\ Idle
  /\ answer' = IF Found(Vec, k) THEN <<"found", 0>> ELSE <<"absent", 0>>
  /\ UNCHANGED <<table, usecount, iter, copy, crashed, program>>

\* An old table without the cell c.  The search starts where the cell was in
\* the new table, and stops one slot short of coming round.
Cleaned(vec, c, victim) ==
  LET size == Mask(vec) + 1
      hits == {n \in 0 .. Mask(vec) - 1 : At(vec, (victim + n) % size) = c}
  IN [i \in 1 .. size |->
        IF \E n \in hits : i - 1 = (victim + n) % size THEN None ELSE vec[i]]

Remhash(k) ==
  /\ "remove" \in program
  /\ Idle /\ Found(Vec, k)
  /\ LET victim == Stop(Vec, k)
         cleaned(t) == Cleaned(tabs[t], At(Vec, victim), victim)
     IN tabs' = [t \in 1 .. Cur |->
                   IF t = Cur THEN Without(Vec, victim)
                   ELSE IF t \in old /\ usecount # 0 THEN cleaned(t)
                   ELSE tabs[t]]
  /\ old' = IF usecount # 0 THEN old ELSE {}
  /\ count' = count - 1
  /\ iter' = [i \in Iter |-> [iter[i] EXCEPT !.removal = @ \/ Active(i)]]
  /\ answer' = <<"found", 0>>
  /\ UNCHANGED <<usecount, copy, crashed, program>>

RemhashAbsent(k) ==
  /\ "remove" \in program
  /\ Idle /\ ~Found(Vec, k)
  /\ answer' = <<"absent", 0>>
  /\ UNCHANGED <<table, usecount, iter, copy, crashed, program>>

\* clearhash.  tblstack stays as it is.
Clearhash ==
  /\ "clear" \in program
  /\ Idle /\ Cur < TableMax
  /\ tabs' = Append(tabs, Empty(FirstMask))
  /\ count' = 0
  /\ answer' = <<"cleared", count>>
  /\ UNCHANGED <<old, usecount, iter, copy, crashed, program>>

-----------------------------------------------------------------------------
(* Iterators.  The last three fields are not in the code: the cells that    *)
(* were present when the traversal began, those it has visited, whether it  *)
(* has met one again, and whether an entry has been removed meanwhile.     *)

NoIter == [of |-> "nothing", tab |-> 0, index |-> 0, begun |-> {},
           seen |-> {}, twice |-> FALSE, removal |-> FALSE]

\* hash_iter_init
Started == [of |-> "hash", tab |-> Cur, index |-> 0, begun |-> CellsOf(Vec),
            seen |-> {}, twice |-> FALSE, removal |-> FALSE]

UseInBound == usecount' \in -UseMax .. UseMax

Begin(i) ==
  /\ "iterate" \in program
  /\ Idle /\ iter[i].of = "nothing"
  /\ iter' = [iter EXCEPT ![i] = Started]
  /\ usecount' = usecount + 1 /\ UseInBound
  /\ UNCHANGED <<table, copy, answer, crashed, program>>

\* --h->usecount <= 0
OldAfter(n) == IF n <= 0 THEN {} ELSE old

IterVec_Current(i) == Vec

\* hi->table
IterVec(i) == tabs[iter[i].tab]

\* The slots still to come that hold a cell.
Ahead(i) == {j \in Occupied(IterVec(i)) : j >= iter[i].index}

NextSlot(i) == CHOOSE j \in Ahead(i) : \A k \in Ahead(i) : j <= k

\* The iterator after it has met the cell in slot j.
Visited(it, j, cell) ==
  [it EXCEPT !.index = j + 1, !.seen = @ \cup {cell},
             !.twice = @ \/ cell \in it.seen]

\* hash-next
Visit(i) ==
  /\ Idle /\ Active(i) /\ Ahead(i) # {}
  /\ iter' = [iter EXCEPT ![i] =
                Visited(iter[i], NextSlot(i), At(IterVec(i), NextSlot(i)))]
  /\ UNCHANGED <<table, usecount, copy, answer, crashed, program>>

Uncount_Not(n) == n
Uncount(n) == n - 1

\* hash-next with nothing left: the iterator lets go of the hash.
Exhaust(i) ==
  /\ Idle /\ Active(i) /\ Ahead(i) = {}
  /\ iter' = [iter EXCEPT ![i] = NoIter]
  /\ usecount' = Uncount(usecount) /\ UseInBound
  /\ old' = OldAfter(usecount')
  /\ UNCHANGED <<tabs, count, copy, answer, crashed, program>>

\* hash-reset of an iterator of this hash to another one: the count it takes
\* back is the other hash's.
ResetAway(i) ==
  /\ "reset" \in program
  /\ Idle /\ Active(i) /\ i \notin Stacked
  /\ iter' = [iter EXCEPT ![i] = [NoIter EXCEPT !.of = "other"]]
  /\ UNCHANGED <<table, usecount, copy, answer, crashed, program>>

\* hash-reset of an iterator to this hash, which is counted down, whatever
\* hash the iterator was on, and up.
ResetHere(i) ==
  /\ "reset" \in program
  /\ Idle /\ i \notin Stacked /\ iter[i].of # "nothing"
  /\ iter' = [iter EXCEPT ![i] = Started]
  /\ old' = OldAfter(usecount - 1)
  /\ UNCHANGED <<tabs, count, usecount, copy, answer, crashed, program>>

\* hash-reset to nil, of an iterator that is on a hash, reads a use count
\* through the new hash, nil.
Dissociate(i) ==
  /\ "dissociate" \in program
  /\ Idle /\ i \notin Stacked /\ iter[i].of # "nothing"
  /\ crashed' = TRUE
  /\ UNCHANGED <<table, usecount, iter, copy, answer, program>>

\* copy-hash-iter; of an iterator without a hash it throws.
CopyIter(i, j) ==
  /\ "copy" \in program
  /\ Idle /\ Active(i) /\ i \notin Stacked
  /\ j \notin Stacked /\ iter[j].of = "nothing"
  /\ iter' = [iter EXCEPT ![j] = iter[i]]
  /\ usecount' = usecount + 1 /\ UseInBound
  /\ UNCHANGED <<table, copy, answer, crashed, program>>

-----------------------------------------------------------------------------
(* The collector: hash_mark, do_weak_tables and do_iters.                  *)

Again_Next(i) == i + 1

\* hash_remove(h, i--) and the i++ of the loop
Again(i) == i

\* The weak sweep looks at a slot: the entry of a dead key is removed and the
\* slot looked at again, and another one is counted.
Sweep(a, dead) ==
  LET c == At(a.vec, a.i)
  IN IF a.i > Mask(a.vec) THEN a
     ELSE IF c = None THEN [vec |-> a.vec, i |-> a.i + 1, c |-> a.c]
     ELSE IF c[1] \in dead
     THEN [vec |-> Without(a.vec, a.i), i |-> Again(a.i), c |-> a.c]
     ELSE [vec |-> a.vec, i |-> a.i + 1, c |-> a.c + 1]

Sweeps(vec, dead) ==
  LET after[n \in 0 .. 2 * Len(vec)] ==
        IF n = 0 THEN [vec |-> vec, i |-> 0, c |-> 0]
        ELSE Sweep(after[n - 1], dead)
  IN after

\* The weak sweep over a whole table.
Swept(vec, dead) == Sweeps(vec, dead)[2 * Len(vec)]

\* Marked as a whole, and the use count left alone.
MarkedStrongly == count = 0 \/ old # {}

\* The cells that copy_hash has made.  Its new table is on the stack, so that
\* the keys in it are reached.
Copied == IF copy.at = -1 THEN {} ELSE CellsOf(copy.vec)

\* A collection that marks the table.  The iterators in kept survive, and so
\* do those on the stack.  The keys in dead have become garbage, which
\* concerns a weak table that nothing but the hash refers to.
Gc(kept, dead) ==
  LET survivors == {i \in kept : Active(i)}
      seen == survivors \cup {i \in Stacked : Active(i)}
      weak == /\ Weak /\ ~MarkedStrongly
              /\ \A i \in seen : iter[i].tab # Cur
      sweep == Swept(Vec, dead)
  IN /\ "gc" \in program /\ ~crashed
     /\ dead # {} => weak
     /\ \A c \in Copied : c[1] \notin dead
     /\ tabs' = IF weak THEN [tabs EXCEPT ![Cur] = sweep.vec] ELSE tabs
     /\ count' = IF weak THEN sweep.c ELSE count
     /\ usecount' = (IF MarkedStrongly THEN usecount ELSE 0)
                    + Cardinality(survivors)
     /\ UseInBound
     /\ iter' = [i \in Iter |->
                   IF i \in kept \cup Stacked THEN iter[i] ELSE NoIter]
     /\ UNCHANGED <<old, copy, answer, crashed, program>>

\* A minor collection, when the table is tenured: it is not marked, so that
\* its use count stays as it is, whatever iterators go.
GcMinor(kept) ==
  /\ "gc" \in program /\ ~crashed
  /\ iter' = [i \in Iter |->
                IF i \in kept \cup Stacked THEN iter[i] ELSE NoIter]
  /\ UNCHANGED <<table, usecount, copy, answer, crashed, program>>

-----------------------------------------------------------------------------
(* copy-hash.  It allocates a cell for each entry, so that the collector   *)
(* may run between any two.                                                *)

NoCopy == [at |-> -1, n |-> 0, vec |-> <<>>, must |-> {}]

BeginCopy ==
  /\ "copy" \in program
  /\ Idle
  /\ copy' = [at |-> 0, n |-> count, vec |-> Empty(Mask(Vec)),
              must |-> CellsOf(Vec)]
  /\ UNCHANGED <<table, usecount, iter, answer, crashed, program>>

CopyNext ==
  /\ copy.at >= 0 /\ copy.at <= Mask(Vec)
  /\ copy' = [copy EXCEPT !.at = @ + 1,
                          !.vec[copy.at + 1] = At(Vec, copy.at)]
  /\ UNCHANGED <<table, usecount, iter, answer, crashed, program>>

EndCopy ==
  /\ copy.at > Mask(Vec)
  /\ copy' = NoCopy
  /\ UNCHANGED <<table, usecount, iter, answer, crashed, program>>

-----------------------------------------------------------------------------
Init ==
  /\ tabs = <<Empty(FirstMask)>>
  /\ old = {} /\ count = 0 /\ usecount = 0
  /\ iter = [i \in Iter |-> NoIter]
  /\ copy = NoCopy /\ answer = <<"none", 0>> /\ crashed = FALSE
  /\ program \in Programs

Next ==
  \/ \E k \in Key : \/ Insert(k) \/ Reinsert(k) \/ Gethash(k)
                    \/ Remhash(k) \/ RemhashAbsent(k)
  \/ Clearhash
  \/ \E i \in Iter : \/ Begin(i) \/ Visit(i) \/ Exhaust(i)
                     \/ ResetAway(i) \/ ResetHere(i) \/ Dissociate(i)
  \/ \E i, j \in Iter : CopyIter(i, j)
  \/ \E kept \in SUBSET (Iter \ Stacked) :
       GcMinor(kept) \/ \E dead \in SUBSET Key : Gc(kept, dead)
  \/ BeginCopy \/ CopyNext \/ EndCopy

Spec == Init /\ [][Next]_vars

-----------------------------------------------------------------------------
(* Properties.                                                             *)

TypeOK ==
  /\ \A t \in 1 .. Cur : \A i \in DOMAIN tabs[t] :
       tabs[t][i] \in Cell \cup {None}
  /\ old \subseteq 1 .. Cur - 1
  /\ count \in Nat /\ usecount \in Int

\* Every entry is where a search for its key ends, whatever was removed, by
\* the program or by the collector, and wherever the cluster wraps round.
Findable(vec) ==
  \A i \in Occupied(vec) : Stop(vec, At(vec, i)[1]) = i

TableSound == Findable(Vec)

\* The count kept is at least the number of entries, so that the table grows
\* in time, whatever a weak sweep has made of it.
CountCovers == count >= Cardinality(Occupied(Vec))

\* hash-count is the number of entries.
CountExact == count = Cardinality(Occupied(Vec))

\* A weak sweep removes the entries of dead keys, all of them, and no others.
SweepExact ==
  \A dead \in SUBSET Key :
    CellsOf(Swept(Vec, dead).vec) = {c \in CellsOf(Vec) : c[1] \notin dead}

\* The traversal is over without one that was there all the time.
Missed(i) ==
  /\ Ahead(i) = {}
  /\ ~(iter[i].begun \cap CellsOf(Vec) \subseteq iter[i].seen)

\* "Insertion of a new key during traversal will not cause any existing key
\* to be visited twice or to be skipped", nor does growth, clearhash, a reset
\* or a collection; removal does.
VisitsOnce == \A i \in Iter :
  Active(i) /\ ~iter[i].removal => ~iter[i].twice /\ ~Missed(i)

\* "If unvisited entries remain in hash, then hash-next returns the next one."
NoneMissed == \A i \in Iter : Active(i) => ~Missed(i)

\* While nothing is collected and no iterator reset, the use count is the
\* number of iterators, and old tables are held only for iterators.
UsesCounted == program \cap {"gc", "reset"} = {} =>
  /\ usecount = Cardinality({i \in Iter : Active(i)})
  /\ old # {} => usecount > 0

\* After a collection that has found no iterator, the use count is zero,
\* and so the old tables are let go, and the table can be weak again.
Released ==
  [][\A kept \in SUBSET (Iter \ Stacked) :
       /\ Gc(kept, {}) /\ old # {}
       /\ \A i \in Iter : iter'[i].of # "hash"
       => usecount' = 0]_vars

NoCrash == ~crashed

\* A copy has all the entries that are still in the table, each where it can
\* be found, and their number as its count.
CopyComplete ==
  copy.at > Mask(Vec) =>
    /\ CellsOf(Vec) \subseteq CellsOf(copy.vec)
    /\ copy.n = Cardinality(Occupied(copy.vec))

\* The table is a set of keys, as far as its answers tell.
Map == INSTANCE AbstractMap WITH dict <- {c[1] : c \in CellsOf(Vec)}
Implements == Map!Spec
=============================================================================

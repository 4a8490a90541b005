----------------------------- MODULE HashProofs -----------------------------
(***************************************************************************)
(* Hash tables, for any keys, hash codes and iterators: that every entry   *)
(* is found, that the weak sweep removes the right entries, that a         *)
(* traversal visits each entry once, that uses are counted, and that the   *)
(* table is a set of keys.                                                 *)
(*                                                                         *)
(* The first part has facts about one table, whatever its size, its keys   *)
(* and their hash codes: where a search ends, and what putting an entry    *)
(* in, growing the table, removing an entry with back shift and the weak   *)
(* sweep make of a table in which every entry is found.  A table is sound  *)
(* when no search for an entry's key ends before the entry (Sound).  The   *)
(* three loops are recursive functions of the number of turns; what holds  *)
(* after each turn is shown from a first turn after which it does not      *)
(* (LeastNat).                                                             *)
(*                                                                         *)
(* In the second part each operation that changes the tables has a lemma   *)
(* that says what it makes of them.  The theorems on entries, the sweep    *)
(* and the set of keys rest on TabInv, the others on IterInv as well.      *)
(***************************************************************************)
EXTENDS Hash, LeastNumber, FiniteSetTheorems, SequenceTheorems

\* The slots of a table.
Slots(vec) == 0 .. Mask(vec)

\* A vector of cells and empty slots.
IsTable(vec) == vec \in Seq(Cell \cup {None}) /\ Len(vec) > 0

\* Some slot is empty, so that every search ends.
HasRoom(vec) == \E i \in Slots(vec) : At(vec, i) = None

\* How many slots on from slot i slot j is, in a table of n slots.
Gap(n, i, j) == IF i <= j THEN j - i ELSE j - i + n

\* Where a search for k begins.
Home(vec, k) == Hcode[k] % Len(vec)

\* A search for k meets slot m before slot i, and ends at slot m.
Before(vec, k, m, i) ==
  Gap(Len(vec), Home(vec, k), m) < Gap(Len(vec), Home(vec, k), i)
EndsAt(vec, k, m) == At(vec, m) = None \/ At(vec, m)[1] = k

Clear(vec, k, i) ==
  \A m \in Slots(vec) : Before(vec, k, m, i) => ~EndsAt(vec, k, m)

\* No search for an entry's key ends before the entry.
Sound(vec) == \A i \in Occupied(vec) : Clear(vec, At(vec, i)[1], i)

-----------------------------------------------------------------------------
\* Quotient and remainder.
LEMMA DivMod ==
  ASSUME NEW a \in Nat, NEW s \in Nat \ {0}
  PROVE  /\ a = s * (a \div s) + (a % s)
         /\ a \div s \in Nat /\ a % s \in 0 .. s - 1
OBVIOUS

\* The remainder of what is given by quotient and remainder.
LEMMA ModOf ==
  ASSUME NEW q \in Nat, NEW s \in Nat \ {0}, NEW r \in 0 .. s - 1
  PROVE  (s * q + r) % s = r
OBVIOUS

\* Going n slots on wraps round the end at most once.
LEMMA ModPlus ==
  ASSUME NEW a \in Nat, NEW s \in Nat \ {0}, NEW n \in 0 .. s - 1
  PROVE  (a + n) % s = IF (a % s) + n < s THEN (a % s) + n ELSE (a % s) + n - s
<1> DEFINE q == a \div s
           r == a % s
<1>1. a = s * q + r /\ q \in Nat /\ r \in 0 .. s - 1
  BY DivMod
<1> HIDE DEF q, r
<1>2. CASE r + n < s
  <2>1. a + n = s * q + (r + n) /\ r + n \in 0 .. s - 1
    BY <1>1, <1>2
  <2>2. (s * q + (r + n)) % s = r + n
    BY <1>1, <2>1, ModOf
  <2> QED BY <1>2, <2>1, <2>2 DEF r
<1>3. CASE r + n >= s
  <2>1. s * (q + 1) = s * q + s
    BY <1>1
  <2>2. /\ a + n = s * (q + 1) + (r + n - s)
        /\ r + n - s \in 0 .. s - 1 /\ q + 1 \in Nat
    BY <1>1, <1>3, <2>1
  <2>3. (s * (q + 1) + (r + n - s)) % s = r + n - s
    BY <1>1, <2>2, ModOf
  <2> QED BY <1>1, <1>3, <2>2, <2>3 DEF r
<1> QED BY <1>1, <1>2, <1>3

\* A slot lies less than the size of the table on from another.
LEMMA GapType ==
  ASSUME NEW n \in Nat, NEW i \in 0 .. n - 1, NEW j \in 0 .. n - 1
  PROVE  /\ Gap(n, i, j) \in 0 .. n - 1
         /\ i + Gap(n, i, j) = j \/ i + Gap(n, i, j) = j + n
         /\ \A m \in 0 .. n - 1 : Gap(n, i, m) = Gap(n, i, j) => m = j
BY DEF Gap

-----------------------------------------------------------------------------
\* A table has slots, and its cells are cells.
LEMMA TableFacts ==
  ASSUME NEW vec, IsTable(vec)
  PROVE  /\ Len(vec) \in Nat \ {0} /\ Mask(vec) = Len(vec) - 1
         /\ DOMAIN vec = 1 .. Len(vec)
         /\ Slots(vec) = 0 .. Len(vec) - 1
         /\ Occupied(vec) = {i \in Slots(vec) : At(vec, i) # None}
         /\ \A i \in Occupied(vec) : At(vec, i) \in Cell
         /\ CellsOf(vec) \subseteq Cell
BY DEF IsTable, Mask, Slots, Occupied, At, CellsOf

\* A cell is not an empty slot, and has a key.
LEMMA CellFacts ==
  ASSUME NEW c \in Cell
  PROVE  c # None /\ c[1] \in Key
BY DEF Cell, None

\* Probe n looks at the slot n on from the key's home.
LEMMA HomeFacts ==
  ASSUME NEW vec, IsTable(vec), NEW k \in Key
  PROVE  /\ Home(vec, k) \in Slots(vec)
         /\ \A n \in Slots(vec) :
              /\ Probe(vec, k, n) \in Slots(vec)
              /\ Gap(Len(vec), Home(vec, k), Probe(vec, k, n)) = n
<1>1. Hcode[k] \in Nat /\ Len(vec) \in Nat \ {0}
  BY HashAssumption, TableFacts
<1>2. Home(vec, k) \in 0 .. Len(vec) - 1
  BY <1>1, DivMod DEF Home
<1>3. ASSUME NEW n \in 0 .. Len(vec) - 1
      PROVE  Probe(vec, k, n) = IF Home(vec, k) + n < Len(vec)
                                THEN Home(vec, k) + n
                                ELSE Home(vec, k) + n - Len(vec)
  <2>1. Mask(vec) + 1 = Len(vec)
    BY <1>1, TableFacts
  <2> QED BY <1>1, <2>1, ModPlus DEF Home, Probe
<1> QED BY <1>1, <1>2, <1>3, TableFacts DEF Gap

\* The table with x in slot i.
Put(vec, i, x) == [vec EXCEPT ![i + 1] = x]

\* Putting something in a slot leaves the other slots as they are.
LEMMA PutFacts ==
  ASSUME NEW vec, IsTable(vec), NEW i \in Slots(vec),
         NEW x \in Cell \cup {None}
  PROVE  /\ IsTable(Put(vec, i, x)) /\ Len(Put(vec, i, x)) = Len(vec)
         /\ Slots(Put(vec, i, x)) = Slots(vec)
         /\ At(Put(vec, i, x), i) = x
         /\ \A j \in Slots(vec) : j # i => At(Put(vec, i, x), j) = At(vec, j)
         /\ \A k : Home(Put(vec, i, x), k) = Home(vec, k)
<1> DEFINE new == Put(vec, i, x)
<1>1. i \in 0 .. Len(vec) - 1 /\ Len(vec) \in Nat
  BY TableFacts
<1>2. /\ new \in Seq(Cell \cup {None}) /\ Len(new) = Len(vec)
      /\ \A m \in 1 .. Len(vec) : new[m] = IF m = i + 1 THEN x ELSE vec[m]
  BY <1>1 DEF IsTable, Put
<1> HIDE DEF new
<1>3. IsTable(new)
  BY <1>2 DEF IsTable
<1>4. Slots(new) = Slots(vec)
  BY <1>2 DEF Slots, Mask
<1>5. \A j \in Slots(vec) : j + 1 \in 1 .. Len(vec) /\ (j # i => j + 1 # i + 1)
  BY TableFacts
<1> QED BY <1>2, <1>3, <1>4, <1>5 DEF At, Home, new

\* A search ends at the first slot that ends it.
LEMMA StopIs ==
  ASSUME NEW vec, IsTable(vec), NEW k \in Key, NEW j \in Slots(vec),
         EndsAt(vec, k, j), Clear(vec, k, j)
  PROVE  Stop(vec, k) = j
<1> DEFINE stops(n) == EndsAt(vec, k, Probe(vec, k, n))
           first(n) == stops(n) /\ \A m \in 0 .. n - 1 : ~stops(m)
           n0 == CHOOSE n \in 0 .. Mask(vec) : first(n)
           g == Gap(Len(vec), Home(vec, k), j)
<1>0. /\ Slots(vec) = 0 .. Mask(vec) /\ Mask(vec) \in Nat
      /\ Len(vec) \in Nat /\ Slots(vec) = 0 .. Len(vec) - 1
  BY TableFacts
<1>1. Home(vec, k) \in Slots(vec)
  BY HomeFacts
<1>2. g \in 0 .. Mask(vec) /\ Probe(vec, k, g) = j
  <2>1. g \in Slots(vec)
    BY <1>0, <1>1, GapType
  <2>2. /\ Probe(vec, k, g) \in Slots(vec)
        /\ Gap(Len(vec), Home(vec, k), Probe(vec, k, g)) = g
    BY <2>1, HomeFacts
  <2> QED BY <1>0, <1>1, <2>1, <2>2, GapType
<1>3. first(g)
  <2> SUFFICES ASSUME NEW m \in 0 .. g - 1 PROVE ~stops(m)
    BY <1>2
  <2>1. m \in Slots(vec) /\ m < g
    BY <1>0, <1>2
  <2>2. Probe(vec, k, m) \in Slots(vec) /\ Before(vec, k, Probe(vec, k, m), j)
    BY <2>1, HomeFacts DEF Before
  <2> QED BY <2>2 DEF Clear
<1>4. \A n \in 0 .. Mask(vec) : first(n) => n = g
  <2> SUFFICES ASSUME NEW n \in 0 .. Mask(vec), first(n) PROVE n = g
    OBVIOUS
  <2>1. ~(n < g)
    BY <1>0, <1>2, <1>3
  <2>2. ~(g < n)
    BY <1>0, <1>2, <1>3
  <2> QED BY <1>0, <1>2, <2>1, <2>2
<1>5. n0 = g
  <2> HIDE DEF first, g
  <2> QED BY <1>2, <1>3, <1>4
<1>6. Stop(vec, k) = Probe(vec, k, n0)
  BY DEF Stop, EndsAt
<1> QED BY <1>2, <1>5, <1>6

\* There is such a slot in a table with room.
LEMMA StopFacts ==
  ASSUME NEW vec, IsTable(vec), NEW k \in Key, HasRoom(vec)
  PROVE  /\ Stop(vec, k) \in Slots(vec)
         /\ EndsAt(vec, k, Stop(vec, k))
         /\ Clear(vec, k, Stop(vec, k))
<1> DEFINE gap(j) == Gap(Len(vec), Home(vec, k), j)
           T == {n \in Nat : \E j \in Slots(vec) :
                    n = gap(j) /\ EndsAt(vec, k, j)}
<1>0. /\ Len(vec) \in Nat /\ Slots(vec) = 0 .. Len(vec) - 1
      /\ Home(vec, k) \in Slots(vec)
  BY TableFacts, HomeFacts
<1>1. \A j \in Slots(vec) : gap(j) \in Nat
  BY <1>0, GapType
<1>2. T # {}
  <2> PICK j \in Slots(vec) : At(vec, j) = None
    BY DEF HasRoom
  <2>1. gap(j) \in T
    BY <1>1 DEF EndsAt
  <2> QED BY <2>1
<1>3. PICK n \in T : \A y \in T : n <= y
  <2> HIDE DEF T
  <2>1. T \subseteq Nat
    BY DEF T
  <2> QED BY <1>2, <2>1, LeastNat
<1>4. PICK j \in Slots(vec) : n = gap(j) /\ EndsAt(vec, k, j)
  BY <1>3
<1>5. Clear(vec, k, j)
  <2> SUFFICES ASSUME NEW m \in Slots(vec), gap(m) < gap(j), EndsAt(vec, k, m)
               PROVE  FALSE
    BY DEF Clear, Before
  <2>1. gap(m) \in T /\ gap(m) \in Nat /\ gap(j) \in Nat
    BY <1>1
  <2> QED BY <1>3, <1>4, <2>1
<1> QED BY <1>4, <1>5, StopIs

\* In a sound table every entry is found.
LEMMA SoundFindable ==
  ASSUME NEW vec, IsTable(vec), Sound(vec)
  PROVE  Findable(vec)
<1> SUFFICES ASSUME NEW i \in Occupied(vec)
             PROVE  Stop(vec, At(vec, i)[1]) = i
  BY DEF Findable
<1>1. i \in Slots(vec) /\ At(vec, i)[1] \in Key
  BY TableFacts, CellFacts
<1>2. EndsAt(vec, At(vec, i)[1], i) /\ Clear(vec, At(vec, i)[1], i)
  BY DEF EndsAt, Sound
<1> QED BY <1>1, <1>2, StopIs

\* In a sound table no key has two entries.
LEMMA SoundDistinct ==
  ASSUME NEW vec, IsTable(vec), Sound(vec),
         NEW i \in Occupied(vec), NEW j \in Occupied(vec),
         At(vec, i)[1] = At(vec, j)[1]
  PROVE  i = j
BY SoundFindable DEF Findable

\* An entry may go where a search for its key ends.
LEMMA PutSound ==
  ASSUME NEW vec, IsTable(vec), Sound(vec), HasRoom(vec), NEW c \in Cell,
         At(vec, Stop(vec, c[1])) = None
  PROVE  LET new == Put(vec, Stop(vec, c[1]), c)
         IN  /\ IsTable(new) /\ Len(new) = Len(vec) /\ Sound(new)
             /\ CellsOf(new) = CellsOf(vec) \cup {c}
             /\ Occupied(new) = Occupied(vec) \cup {Stop(vec, c[1])}
             /\ \A j \in Occupied(vec) : At(new, j) = At(vec, j)
<1> DEFINE k == c[1]
           s == Stop(vec, k)
           new == Put(vec, s, c)
<1>1. k \in Key /\ c # None
  BY CellFacts
<1>2. s \in Slots(vec) /\ Clear(vec, k, s)
  BY <1>1, StopFacts
<1>3. /\ IsTable(new) /\ Len(new) = Len(vec) /\ Slots(new) = Slots(vec)
      /\ At(new, s) = c
      /\ \A j \in Slots(vec) : j # s => At(new, j) = At(vec, j)
      /\ \A x : Home(new, x) = Home(vec, x)
  <2> HIDE DEF s
  <2> QED BY <1>2, PutFacts
<1>4. At(vec, s) = None
  OBVIOUS
<1> HIDE DEF new, s, k
<1>5. Occupied(new) = Occupied(vec) \cup {s}
  BY <1>1, <1>2, <1>3, TableFacts
<1>6. \A j \in Occupied(vec) :
        j # s /\ j \in Slots(vec) /\ At(new, j) = At(vec, j)
  BY <1>3, <1>4, TableFacts
<1>7. CellsOf(new) = CellsOf(vec) \cup {c}
  BY <1>3, <1>5, <1>6 DEF CellsOf
<1>8. \A x, m, i : Before(new, x, m, i) <=> Before(vec, x, m, i)
  BY <1>3 DEF Before
<1>9. Clear(new, k, s)
  <2> SUFFICES ASSUME NEW m \in Slots(vec), Before(vec, k, m, s)
               PROVE  ~EndsAt(new, k, m)
    BY <1>3, <1>8 DEF Clear
  <2>1. ~EndsAt(vec, k, m)
    BY <1>2 DEF Clear
  <2>2. m # s
    BY <1>4, <2>1 DEF EndsAt
  <2> QED BY <1>3, <2>1, <2>2 DEF EndsAt
<1>10. ASSUME NEW i \in Occupied(vec) PROVE Clear(new, At(vec, i)[1], i)
  <2> SUFFICES ASSUME NEW m \in Slots(vec), Before(vec, At(vec, i)[1], m, i)
               PROVE  ~EndsAt(new, At(vec, i)[1], m)
    BY <1>3, <1>8 DEF Clear
  <2>1. ~EndsAt(vec, At(vec, i)[1], m)
    BY DEF Sound, Clear
  <2>2. m # s
    BY <1>4, <2>1 DEF EndsAt
  <2> QED BY <1>3, <2>1, <2>2 DEF EndsAt
<1>11. Sound(new)
  BY <1>3, <1>5, <1>6, <1>9, <1>10 DEF Sound, k
<1> QED BY <1>3, <1>5, <1>6, <1>7, <1>11 DEF new, s, k

-----------------------------------------------------------------------------
\* A new table is sound, and has room.
LEMMA EmptyFacts ==
  ASSUME NEW mask \in Nat
  PROVE  /\ IsTable(Empty(mask)) /\ Sound(Empty(mask)) /\ HasRoom(Empty(mask))
         /\ Occupied(Empty(mask)) = {} /\ CellsOf(Empty(mask)) = {}
<1> DEFINE v == Empty(mask)
<1>1. /\ v \in Seq(Cell \cup {None}) /\ Len(v) = mask + 1
      /\ \A i \in 1 .. mask + 1 : v[i] = None
  BY DEF Empty
<1> HIDE DEF v
<1>2. IsTable(v)
  BY <1>1 DEF IsTable
<1>3. Slots(v) = 0 .. mask /\ \A i \in Slots(v) : At(v, i) = None
  BY <1>1 DEF Slots, Mask, At
<1>4. Occupied(v) = {}
  BY <1>2, <1>3, TableFacts
<1>5. 0 \in Slots(v)
  BY <1>3
<1> QED BY <1>2, <1>3, <1>4, <1>5 DEF Sound, HasRoom, CellsOf, v

\* Sets of slots are finite.
LEMMA SlotSets ==
  ASSUME NEW vec, IsTable(vec), NEW S \in SUBSET Slots(vec)
  PROVE  /\ IsFiniteSet(S) /\ Cardinality(S) \in Nat
         /\ Cardinality(S) <= Len(vec)
<1> DEFINE L == Len(vec)
<1>1. L \in Nat /\ Slots(vec) = 0 .. L - 1
  BY TableFacts
<1> HIDE DEF L
<1>2. 0 \in Int /\ L - 1 \in Int
  BY <1>1
<1>3. /\ IsFiniteSet(0 .. L - 1)
      /\ Cardinality(0 .. L - 1) = IF 0 > L - 1 THEN 0 ELSE (L - 1) - 0 + 1
  BY <1>2, FS_Interval
<1>4. IsFiniteSet(S) /\ Cardinality(S) <= Cardinality(0 .. L - 1)
  BY <1>1, <1>3, FS_Subset
<1>5. Cardinality(S) \in Nat
  BY <1>4, FS_CardinalityType
<1> QED BY <1>1, <1>3, <1>4, <1>5 DEF L

\* A table with fewer entries than slots has room.
LEMMA RoomBelow ==
  ASSUME NEW v, IsTable(v), Cardinality(Occupied(v)) < Len(v)
  PROVE  HasRoom(v)
<1> SUFFICES ASSUME ~HasRoom(v) PROVE FALSE
  OBVIOUS
<1> DEFINE L == Len(v)
<1>1. L \in Nat \ {0} /\ Occupied(v) = 0 .. L - 1
  BY TableFacts DEF HasRoom
<1> HIDE DEF L
<1>2. 0 \in Int /\ L - 1 \in Int /\ ~(0 > L - 1)
  BY <1>1
<1>3. Cardinality(0 .. L - 1) = (L - 1) - 0 + 1
  BY <1>2, FS_Interval
<1> QED BY <1>1, <1>3 DEF L

\* A sound table has as many entries, as many cells and as many keys.
LEMMA EntryCount ==
  ASSUME NEW v, IsTable(v), Sound(v)
  PROVE  /\ IsFiniteSet(Occupied(v)) /\ Cardinality(Occupied(v)) \in Nat
         /\ IsFiniteSet(CellsOf(v))
         /\ Cardinality(CellsOf(v)) = Cardinality(Occupied(v))
         /\ Cardinality({c[1] : c \in CellsOf(v)}) = Cardinality(Occupied(v))
<1> DEFINE occ == Occupied(v)
           keys == {c[1] : c \in CellsOf(v)}
<1>1. IsFiniteSet(occ) /\ Cardinality(occ) \in Nat
  <2>1. occ \in SUBSET Slots(v)
    BY TableFacts
  <2> QED BY <2>1, SlotSets
<1>2. \A i, j \in occ : At(v, i)[1] = At(v, j)[1] => i = j
  BY SoundDistinct
<1>3. ExistsBijection(occ, CellsOf(v))
  <2> DEFINE f == [i \in occ |-> At(v, i)]
  <2>1. f \in Bijection(occ, CellsOf(v))
    BY <1>2 DEF Bijection, Injection, Surjection, CellsOf, IsInjective
  <2> QED BY <2>1 DEF ExistsBijection
<1>4. ExistsBijection(occ, keys)
  <2> DEFINE f == [i \in occ |-> At(v, i)[1]]
  <2>0. keys = {At(v, i)[1] : i \in occ}
    BY DEF CellsOf
  <2>1. f \in Bijection(occ, keys)
    BY <1>2, <2>0 DEF Bijection, Injection, Surjection, IsInjective
  <2> QED BY <2>1 DEF ExistsBijection
<1>5. IsFiniteSet(CellsOf(v)) /\ Cardinality(CellsOf(v)) = Cardinality(occ)
  <2> HIDE DEF occ
  <2> QED BY <1>1, <1>3, FS_Bijection
<1>6. Cardinality(keys) = Cardinality(occ)
  <2> HIDE DEF occ, keys
  <2> QED BY <1>1, <1>4, FS_Bijection
<1> QED BY <1>1, <1>5, <1>6

\* A table that a removed cell has been purged from is a table.
LEMMA CleanedTable ==
  ASSUME NEW vec, IsTable(vec), NEW c, NEW victim
  PROVE  IsTable(Cleaned(vec, c, victim))
<1> DEFINE new == Cleaned(vec, c, victim)
           hit(i) == \E n \in {n \in 0 .. Mask(vec) - 1 :
                                At(vec, (victim + n) % (Mask(vec) + 1)) = c} :
                       i - 1 = (victim + n) % (Mask(vec) + 1)
<1>1. Mask(vec) + 1 = Len(vec) /\ Len(vec) \in Nat \ {0}
  BY TableFacts
<1>2. new = [i \in 1 .. Mask(vec) + 1 |-> IF hit(i) THEN None ELSE vec[i]]
  BY DEF Cleaned
<1> HIDE DEF new, hit
<1>3. \A i \in 1 .. Len(vec) : vec[i] \in Cell \cup {None}
  BY DEF IsTable
<1>4. new \in [1 .. Len(vec) -> Cell \cup {None}]
  BY <1>1, <1>2, <1>3
<1>5. new \in Seq(Cell \cup {None}) /\ Len(new) = Len(vec)
  BY <1>1, <1>4
<1> QED BY <1>1, <1>5 DEF IsTable, new

-----------------------------------------------------------------------------
(* hash_grow                                                               *)

\* The growth of a table, slot by slot, up to slot m.
GrowthFn(vec, m, f) ==
  f = [j \in 0 .. m |-> IF j = 0 THEN Empty(2 * Mask(vec) + 1)
                        ELSE Moved(f[j - 1], vec[j])]

\* There is a function defined by that recursion
LEMMA GrowthExists ==
  ASSUME NEW vec, NEW m \in Nat
  PROVE  \E f : GrowthFn(vec, m, f)
<1> DEFINE T == {n \in Nat : ~\E f : GrowthFn(vec, n, f)}
<1> SUFFICES ASSUME T # {} PROVE FALSE
  OBVIOUS
<1>1. PICK n \in T : \A y \in T : n <= y
  <2> T \subseteq Nat
    OBVIOUS
  <2> HIDE DEF T
  <2> QED BY LeastNat
<1>2. n # 0
  <2> DEFINE f == [j \in 0 .. 0 |-> Empty(2 * Mask(vec) + 1)]
  <2>1. GrowthFn(vec, 0, f)
    BY DEF GrowthFn
  <2> QED BY <2>1
<1>3. n - 1 \in Nat /\ n \in Nat
  BY <1>2
<1>4. PICK g : GrowthFn(vec, n - 1, g)
  <2>1. n - 1 \notin T
    BY <1>1, <1>3
  <2> QED BY <1>3, <2>1
<1> DEFINE f == [j \in 0 .. n |->
                   IF j = n THEN Moved(g[n - 1], vec[n]) ELSE g[j]]
           next(j) == IF j = 0 THEN Empty(2 * Mask(vec) + 1)
                      ELSE Moved(f[j - 1], vec[j])
<1>5. GrowthFn(vec, n, f)
  <2>1. \A j \in 0 .. n - 1 : f[j] = next(j)
    <3>1. \A j \in 0 .. n - 1 : g[j] = IF j = 0 THEN Empty(2 * Mask(vec) + 1)
                                      ELSE Moved(g[j - 1], vec[j])
      BY <1>3, <1>4 DEF GrowthFn
    <3>2. \A j \in 0 .. n - 1 : f[j] = g[j] /\ (j # 0 => f[j - 1] = g[j - 1])
      BY <1>3
    <3> HIDE DEF f
    <3> QED BY <3>1, <3>2
  <2>2. f[n] = next(n)
    BY <1>2, <1>3
  <2>3. \A j \in 0 .. n : f[j] = next(j)
    <3> HIDE DEF f, next
    <3> QED BY <1>3, <2>1, <2>2
  <2> QED BY <2>3 DEF GrowthFn
<1> QED BY <1>5

\* So Growth is it.
LEMMA GrowthIs ==
  ASSUME NEW vec, Len(vec) \in Nat
  PROVE  GrowthFn(vec, Len(vec), Growth(vec))
<1>1. Growth(vec) = CHOOSE f : GrowthFn(vec, Len(vec), f)
  BY DEF Growth, GrowthFn
<1> QED BY <1>1, GrowthExists


\* A table that has only cells of one half its size has room for another.
LEMMA HalfHasRoom ==
  ASSUME NEW vec, IsTable(vec), NEW t, IsTable(t), Sound(t),
         Len(t) = 2 * Len(vec),
         \A i \in Occupied(t) : \E m \in 1 .. Len(vec) : vec[m] = At(t, i)
  PROVE  HasRoom(t)
<1> SUFFICES ASSUME ~HasRoom(t) PROVE FALSE
  OBVIOUS
<1> DEFINE L == Len(vec)
           f == [i \in Slots(t) |-> CHOOSE m \in 1 .. L : vec[m] = At(t, i)]
<1>1. L \in Nat \ {0} /\ Slots(t) = 0 .. 2 * L - 1 /\ Occupied(t) = Slots(t)
  BY TableFacts DEF HasRoom
<1>2. \A i \in Slots(t) : f[i] \in 1 .. L /\ vec[f[i]] = At(t, i)
  <2>1. \A i \in Slots(t) : \E m \in 1 .. L : vec[m] = At(t, i)
    BY <1>1
  <2> QED BY <2>1
<1>3. f \in [Slots(t) -> 1 .. L]
  BY <1>2
<1>4. /\ IsFiniteSet(Slots(t)) /\ Cardinality(Slots(t)) = 2 * L
      /\ IsFiniteSet(1 .. L) /\ Cardinality(1 .. L) = L
  <2> HIDE DEF L
  <2>1. 2 * L - 1 \in Int /\ L \in Int /\ 0 <= 2 * L - 1 /\ 1 <= L
    BY <1>1
  <2>2. IsFiniteSet(0 .. 2 * L - 1) /\ Cardinality(0 .. 2 * L - 1) = 2 * L
    BY <2>1, FS_Interval
  <2>3. IsFiniteSet(1 .. L) /\ Cardinality(1 .. L) = L
    BY <2>1, FS_Interval
  <2> QED BY <1>1, <2>2, <2>3
<1> HIDE DEF f
<1>5. PICK i, j \in Slots(t) : i # j /\ f[i] = f[j]
  <2>1. Cardinality(1 .. L) < Cardinality(Slots(t))
    BY <1>1, <1>4
  <2> QED BY <1>3, <1>4, <2>1, FS_PigeonHole
<1>6. At(t, i) = At(t, j)
  BY <1>2, <1>5
<1> QED BY <1>1, <1>5, <1>6, SoundDistinct

\* hash_grow moves every entry, and puts each where it is found.
LEMMA GrownSound ==
  ASSUME NEW vec, IsTable(vec), Sound(vec)
  PROVE  /\ IsTable(Grown(vec)) /\ Sound(Grown(vec)) /\ HasRoom(Grown(vec))
         /\ Len(Grown(vec)) = 2 * Len(vec)
         /\ CellsOf(Grown(vec)) = CellsOf(vec)
<1> DEFINE L == Len(vec)
           g == Growth(vec)
           done(j) == {vec[m] : m \in 1 .. j} \ {None}
           P(j) == /\ IsTable(g[j]) /\ Sound(g[j]) /\ Len(g[j]) = 2 * L
                   /\ CellsOf(g[j]) = done(j)
           T == {j \in 0 .. L : ~P(j)}
<1>1. L \in Nat \ {0} /\ Mask(vec) = L - 1
  BY TableFacts
<1>2. \A j \in 0 .. L : g[j] = IF j = 0 THEN Empty(2 * Mask(vec) + 1)
                               ELSE Moved(g[j - 1], vec[j])
  <2>1. GrowthFn(vec, L, g)
    BY <1>1, GrowthIs
  <2> HIDE DEF g, L
  <2> QED BY <2>1 DEF GrowthFn
<1> HIDE DEF g
<1>3. \A m \in 1 .. L : m - 1 \in Slots(vec) /\ vec[m] = At(vec, m - 1)
  BY <1>1, TableFacts DEF At
<1>4. P(0)
  <2>1. g[0] = [i \in 1 .. 2 * L |-> None]
    BY <1>1, <1>2 DEF Empty
  <2>2. g[0] \in Seq(Cell \cup {None}) /\ Len(g[0]) = 2 * L
    BY <1>1, <2>1
  <2>3. IsTable(g[0])
    BY <1>1, <2>2 DEF IsTable
  <2>4. \A i \in Slots(g[0]) : At(g[0], i) = None
    BY <1>1, <2>1, <2>2, <2>3, TableFacts DEF At
  <2>5. Occupied(g[0]) = {}
    BY <2>3, <2>4, TableFacts
  <2> QED BY <2>2, <2>3, <2>5 DEF Sound, CellsOf
<1>5. ASSUME NEW j \in 1 .. L, P(j - 1) PROVE HasRoom(g[j - 1]) /\ P(j)
  <2> DEFINE t == g[j - 1]
             c == vec[j]
  <2>1. IsTable(t) /\ Sound(t) /\ Len(t) = 2 * L /\ CellsOf(t) = done(j - 1)
    BY <1>5
  <2>2. g[j] = Moved(t, c)
    BY <1>2
  <2> HIDE DEF t, L
  <2>3. \A i \in Occupied(t) : \E m \in 1 .. j - 1 : vec[m] = At(t, i)
    BY <2>1 DEF CellsOf
  <2>4. HasRoom(t)
    <3>1. \A i \in Occupied(t) : \E m \in 1 .. L : vec[m] = At(t, i)
      BY <1>1, <2>3
    <3> QED BY <2>1, <3>1, HalfHasRoom DEF L
  <2>5. done(j) = done(j - 1) \cup ({c} \ {None})
    BY <1>1
  <2>6. CASE c = None
    BY <2>1, <2>2, <2>4, <2>5, <2>6 DEF Moved, t
  <2>7. CASE c # None
    <3>1. j - 1 \in Occupied(vec) /\ c = At(vec, j - 1)
      BY <1>3, <2>7, TableFacts
    <3>2. c \in Cell /\ c[1] \in Key
      BY <3>1, TableFacts, CellFacts
    <3>3. Stop(t, c[1]) \in Slots(t) /\ EndsAt(t, c[1], Stop(t, c[1]))
      BY <2>1, <2>4, <3>2, StopFacts
    <3>4. At(t, Stop(t, c[1])) = None
      <4> SUFFICES ASSUME At(t, Stop(t, c[1])) # None PROVE FALSE
        OBVIOUS
      <4>1. Stop(t, c[1]) \in Occupied(t)
        BY <2>1, <3>3, TableFacts
      <4>2. PICK m \in 1 .. j - 1 : vec[m] = At(t, Stop(t, c[1]))
        BY <2>3, <4>1
      <4>3. vec[m][1] = c[1] /\ vec[m] # None
        BY <3>3, <4>2 DEF EndsAt
      <4>4. m \in 1 .. L
        BY <1>1
      <4>5. m - 1 \in Occupied(vec) /\ vec[m] = At(vec, m - 1)
        BY <1>3, <4>3, <4>4, TableFacts
      <4>6. m - 1 = j - 1
        BY <3>1, <4>3, <4>5, SoundDistinct
      <4> QED BY <1>1, <4>6
    <3>5. g[j] = Put(t, Stop(t, c[1]), c)
      BY <2>2, <2>7 DEF Moved, Put
    <3>6. /\ IsTable(g[j]) /\ Len(g[j]) = Len(t) /\ Sound(g[j])
          /\ CellsOf(g[j]) = CellsOf(t) \cup {c}
      <4> DEFINE new == Put(t, Stop(t, c[1]), c)
      <4> HIDE DEF c
      <4>1. /\ IsTable(new) /\ Len(new) = Len(t) /\ Sound(new)
            /\ CellsOf(new) = CellsOf(t) \cup {c}
        BY <2>1, <2>4, <3>2, <3>4, PutSound
      <4> QED BY <3>5, <4>1
    <3> HIDE DEF c
    <3> QED BY <2>1, <2>4, <2>5, <2>7, <3>6 DEF t
  <2> QED BY <2>4, <2>6, <2>7 DEF t
<1>6. \A j \in 0 .. L : P(j)
  <2> SUFFICES ASSUME T # {} PROVE FALSE
    OBVIOUS
  <2>1. PICK j \in T : \A y \in T : j <= y
    <3> T \subseteq Nat
      OBVIOUS
    <3> HIDE DEF T
    <3> QED BY LeastNat
  <2>2. j \in 1 .. L /\ j - 1 \in 0 .. L /\ j - 1 \notin T
    <3> HIDE DEF P
    <3> QED BY <1>1, <1>4, <2>1
  <2> HIDE DEF P
  <2>3. P(j - 1)
    BY <2>2
  <2> QED BY <1>5, <2>1, <2>2, <2>3
<1>7. P(L)
  <2> HIDE DEF P
  <2> QED BY <1>1, <1>6
<1>8. g[L] = Grown(vec)
  BY DEF g, Grown
<1>9. done(L) = CellsOf(vec)
  <2>1. \A c : c \in done(L) => c \in CellsOf(vec)
    BY <1>3, TableFacts DEF CellsOf
  <2>2. \A c : c \in CellsOf(vec) => c \in done(L)
    <3> SUFFICES ASSUME NEW i \in Occupied(vec) PROVE At(vec, i) \in done(L)
      BY DEF CellsOf
    <3>1. i + 1 \in 1 .. L /\ At(vec, i) = vec[i + 1] /\ At(vec, i) # None
      BY <1>1, TableFacts DEF At
    <3> QED BY <3>1
  <2> QED BY <2>1, <2>2
<1>10. HasRoom(g[L])
  <2>1. \A i \in Occupied(g[L]) : \E m \in 1 .. L : vec[m] = At(g[L], i)
    BY <1>7 DEF CellsOf
  <2> QED BY <1>7, <2>1, HalfHasRoom
<1> QED BY <1>7, <1>8, <1>9, <1>10

-----------------------------------------------------------------------------
(* hash_remove                                                             *)

\* The loop of hash_remove, up to its turn m.
ShiftsFn(vec, victim, m, f) ==
  f = [j \in 0 .. m |->
         IF j = 0 THEN [vec |-> vec, wipe |-> victim, done |-> FALSE]
         ELSE Shift(f[j - 1], (victim + j) % Len(vec))]

\* There is a function defined by that recursion
LEMMA ShiftsExists ==
  ASSUME NEW vec, NEW victim, NEW m \in Nat
  PROVE  \E f : ShiftsFn(vec, victim, m, f)
<1> DEFINE T == {n \in Nat : ~\E f : ShiftsFn(vec, victim, n, f)}
<1> SUFFICES ASSUME T # {} PROVE FALSE
  OBVIOUS
<1>1. PICK n \in T : \A y \in T : n <= y
  <2> T \subseteq Nat
    OBVIOUS
  <2> HIDE DEF T
  <2> QED BY LeastNat
<1>2. n # 0
  <2> DEFINE f == [j \in 0 .. 0 |->
                     [vec |-> vec, wipe |-> victim, done |-> FALSE]]
  <2>1. ShiftsFn(vec, victim, 0, f)
    BY DEF ShiftsFn
  <2> QED BY <2>1
<1>3. n - 1 \in Nat /\ n \in Nat
  BY <1>2
<1>4. PICK g : ShiftsFn(vec, victim, n - 1, g)
  <2>1. n - 1 \notin T
    BY <1>1, <1>3
  <2> QED BY <1>3, <2>1
<1> DEFINE f == [j \in 0 .. n |->
                   IF j = n THEN Shift(g[n - 1], (victim + n) % Len(vec))
                   ELSE g[j]]
           next(j) == IF j = 0
                      THEN [vec |-> vec, wipe |-> victim, done |-> FALSE]
                      ELSE Shift(f[j - 1], (victim + j) % Len(vec))
<1>5. ShiftsFn(vec, victim, n, f)
  <2>1. \A j \in 0 .. n - 1 : f[j] = next(j)
    <3>1. \A j \in 0 .. n - 1 : g[j] =
            IF j = 0 THEN [vec |-> vec, wipe |-> victim, done |-> FALSE]
            ELSE Shift(g[j - 1], (victim + j) % Len(vec))
      BY <1>3, <1>4 DEF ShiftsFn
    <3>2. \A j \in 0 .. n - 1 : f[j] = g[j] /\ (j # 0 => f[j - 1] = g[j - 1])
      BY <1>3
    <3> HIDE DEF f
    <3> QED BY <3>1, <3>2
  <2>2. f[n] = next(n)
    BY <1>2, <1>3
  <2>3. \A j \in 0 .. n : f[j] = next(j)
    <3> HIDE DEF f, next
    <3> QED BY <1>3, <2>1, <2>2
  <2> QED BY <2>3 DEF ShiftsFn
<1> QED BY <1>5

\* So Shifts is it.
LEMMA ShiftsIs ==
  ASSUME NEW vec, NEW victim, Mask(vec) \in Nat
  PROVE  ShiftsFn(vec, victim, Mask(vec), Shifts(vec, victim))
<1>1. Shifts(vec, victim) = CHOOSE f : ShiftsFn(vec, victim, Mask(vec), f)
  BY DEF Shifts, ShiftsFn
<1> QED BY <1>1, ShiftsExists


\* Slots are told apart by how far on they are.
LEMMA Gaps ==
  ASSUME NEW n \in Nat, NEW v \in 0 .. n - 1
  PROVE  \A j, m \in 0 .. n - 1 :
           /\ Gap(n, v, j) \in Nat
           /\ j # m => Gap(n, v, j) # Gap(n, v, m)
BY GapType

\* The three-way exclusive or of hash_remove asks whether a search from home
\* meets the hole before slot i.
LEMMA MoveIntoIs ==
  ASSUME NEW n \in Nat, NEW i \in 0 .. n - 1, NEW wipe \in 0 .. n - 1,
         NEW home \in 0 .. n - 1, i # wipe
  PROVE  MoveInto(i, wipe, home) <=> Gap(n, home, wipe) < Gap(n, home, i)
BY DEF MoveInto, Gap

\* Of a search that meets slot i before slot p: when p and the hole w lie
\* between the victim v and i, and i between v and the end e of the cluster,
\* it meets w or e before p.
LEMMA AcrossHole ==
  ASSUME NEW n \in Nat, NEW v \in 0 .. n - 1, NEW w \in 0 .. n - 1,
         NEW i \in 0 .. n - 1, NEW p \in 0 .. n - 1, NEW h \in 0 .. n - 1,
         NEW e \in 0 .. n - 1, p # w,
         Gap(n, v, w) < Gap(n, v, i), Gap(n, v, p) < Gap(n, v, i),
         Gap(n, v, i) < Gap(n, v, e), Gap(n, h, i) < Gap(n, h, p)
  PROVE  Gap(n, h, w) < Gap(n, h, p) \/ Gap(n, h, e) < Gap(n, h, p)
BY DEF Gap

\* A search that meets the hole w before a slot p past the end e of the
\* cluster meets e before p.
LEMMA AcrossEnd ==
  ASSUME NEW n \in Nat, NEW v \in 0 .. n - 1, NEW w \in 0 .. n - 1,
         NEW p \in 0 .. n - 1, NEW h \in 0 .. n - 1, NEW e \in 0 .. n - 1,
         Gap(n, v, w) < Gap(n, v, e), Gap(n, v, e) < Gap(n, v, p),
         Gap(n, h, w) < Gap(n, h, p)
  PROVE  Gap(n, h, e) < Gap(n, h, p)
BY DEF Gap

\* What lies further on from v than a slot before v lies before v.
LEMMA WrapsRound ==
  ASSUME NEW n \in Nat, NEW v \in 0 .. n - 1, NEW w \in 0 .. n - 1,
         NEW i \in 0 .. n - 1, Gap(n, v, w) < Gap(n, v, i), w < v
  PROVE  i < v
BY DEF Gap

-----------------------------------------------------------------------------
\* The state of hash_remove's loop after n turns: new is the table with a hole
\* at wipe, in which the entry last moved, or the victim, still lies.  e is
\* the end of the cluster.  Searches may meet the hole, but not on the way to
\* an entry that the loop has looked at.
Closing(vec, victim, e, n, new, wipe) ==
  /\ IsTable(new) /\ Len(new) = Len(vec) /\ Occupied(new) = Occupied(vec)
  /\ wipe \in Occupied(vec)
  /\ Gap(Len(vec), victim, wipe) <= n
  /\ Gap(Len(vec), victim, wipe) < Gap(Len(vec), victim, e)
  /\ {At(new, p) : p \in Occupied(vec) \ {wipe}}
       = {At(vec, p) : p \in Occupied(vec) \ {victim}}
  /\ \A p \in Occupied(vec) \ {wipe}, m \in Slots(vec) \ {wipe} :
       Before(vec, At(new, p)[1], m, p) => ~EndsAt(new, At(new, p)[1], m)
  /\ \A p \in Occupied(vec) \ {wipe} :
       Gap(Len(vec), victim, p) <= n
         /\ Gap(Len(vec), victim, p) < Gap(Len(vec), victim, e)
       => ~Before(vec, At(new, p)[1], wipe, p)
  /\ \A p \in Occupied(vec) \ {wipe} :
       p < victim =>
         \E m \in Occupied(vec) : m < victim /\ At(new, p) = At(vec, m)

\* e is the first empty slot on from the victim.
ClusterEnd(vec, victim, e) ==
  /\ e \in Slots(vec) /\ At(vec, e) = None
  /\ \A m \in Slots(vec) :
       Gap(Len(vec), victim, m) < Gap(Len(vec), victim, e) => At(vec, m) # None

\* The state before the first turn of the loop of hash_remove.
LEMMA ClosingStart ==
  ASSUME NEW vec, IsTable(vec), Sound(vec), NEW victim \in Occupied(vec),
         NEW e, ClusterEnd(vec, victim, e)
  PROVE  Closing(vec, victim, e, 0, vec, victim)
<1>1. /\ Len(vec) \in Nat /\ Slots(vec) = 0 .. Len(vec) - 1
      /\ Occupied(vec) \subseteq Slots(vec) /\ At(vec, victim) # None
  BY TableFacts
<1>2. e \in Slots(vec) /\ e # victim
  BY <1>1 DEF ClusterEnd
<1>3. Gap(Len(vec), victim, victim) = 0 /\ Gap(Len(vec), victim, e) > 0
  BY <1>1, <1>2 DEF Gap
<1>4. \A p \in Occupied(vec) \ {victim} : Gap(Len(vec), victim, p) > 0
  BY <1>1 DEF Gap
<1>5. \A p \in Occupied(vec), m \in Slots(vec) :
        Before(vec, At(vec, p)[1], m, p) => ~EndsAt(vec, At(vec, p)[1], m)
  BY DEF Sound, Clear
<1>6. \A p \in Occupied(vec) \ {victim} :
        p < victim =>
          \E m \in Occupied(vec) : m < victim /\ At(vec, p) = At(vec, m)
  OBVIOUS
<1>7. \A p \in Occupied(vec) \ {victim} : ~(Gap(Len(vec), victim, p) <= 0)
  <2>1. \A p \in Occupied(vec) : Gap(Len(vec), victim, p) \in Nat
    BY <1>1, Gaps
  <2> QED BY <1>4, <2>1
<1>8. \A p \in Occupied(vec) \ {victim}, m \in Slots(vec) \ {victim} :
        Before(vec, At(vec, p)[1], m, p) => ~EndsAt(vec, At(vec, p)[1], m)
  BY <1>5
<1>9. 0 <= 0
  OBVIOUS
<1> QED BY <1>3, <1>6, <1>7, <1>8, <1>9 DEF Closing

\* Entries other than the one in the hole have different keys.
LEMMA ClosingDistinct ==
  ASSUME NEW vec, IsTable(vec), NEW victim \in Occupied(vec), NEW e, NEW n,
         NEW new, NEW wipe, Closing(vec, victim, e, n, new, wipe),
         NEW p \in Occupied(vec) \ {wipe}, NEW q \in Occupied(vec) \ {wipe},
         At(new, p)[1] = At(new, q)[1]
  PROVE  p = q
<1> DEFINE k == At(new, p)[1]
<1>1. /\ Len(vec) \in Nat /\ Slots(vec) = 0 .. Len(vec) - 1
      /\ p \in Slots(vec) /\ q \in Slots(vec)
  BY TableFacts
<1>2. k \in Key /\ Home(vec, k) \in Slots(vec)
  BY TableFacts, CellFacts, HomeFacts DEF Closing
<1>3. EndsAt(new, k, p) /\ EndsAt(new, k, q)
  BY DEF EndsAt
<1>4. ~Before(vec, k, p, q) /\ ~Before(vec, k, q, p)
  BY <1>1, <1>3 DEF Closing
<1>5. Gap(Len(vec), Home(vec, k), p) \in Nat
      /\ Gap(Len(vec), Home(vec, k), q) \in Nat
      /\ (p # q => Gap(Len(vec), Home(vec, k), p)
                     # Gap(Len(vec), Home(vec, k), q))
  BY <1>1, <1>2, Gaps
<1> QED BY <1>4, <1>5 DEF Before

\* A turn that moves an entry into the hole.
LEMMA ClosingMove ==
  ASSUME NEW vec, IsTable(vec), NEW victim \in Occupied(vec), NEW e,
         ClusterEnd(vec, victim, e), NEW n \in Nat, NEW new, NEW wipe,
         Closing(vec, victim, e, n, new, wipe),
         NEW i \in Occupied(vec), Gap(Len(vec), victim, i) = n + 1,
         n + 1 < Gap(Len(vec), victim, e),
         Before(vec, At(new, i)[1], wipe, i)
  PROVE  Closing(vec, victim, e, n + 1, Put(new, wipe, At(new, i)), i)
<1> DEFINE N == Len(vec)
           occ == Occupied(vec)
           gap(j) == Gap(N, victim, j)
           c == At(new, i)
           k == c[1]
           moved == Put(new, wipe, c)
<1>1. /\ N \in Nat /\ Slots(vec) = 0 .. N - 1 /\ occ \subseteq Slots(vec)
      /\ e \in Slots(vec) /\ e \notin occ
  BY TableFacts DEF ClusterEnd
<1>2. /\ IsTable(new) /\ Len(new) = N /\ Slots(new) = Slots(vec)
      /\ Occupied(new) = occ /\ wipe \in occ /\ gap(wipe) <= n
  BY TableFacts DEF Closing
<1>3. i # wipe /\ gap(i) = n + 1 /\ gap(wipe) \in Nat
  BY <1>1, <1>2, GapType
<1>4. c \in Cell /\ c # None /\ k \in Key
  BY <1>2, TableFacts, CellFacts
<1>5. /\ IsTable(moved) /\ Len(moved) = N /\ Slots(moved) = Slots(vec)
      /\ At(moved, wipe) = c
      /\ \A j \in Slots(vec) : j # wipe => At(moved, j) = At(new, j)
  <2> HIDE DEF c, occ
  <2>1. wipe \in Slots(new)
    BY <1>1, <1>2
  <2> QED BY <1>2, <1>4, <2>1, PutFacts
<1> HIDE DEF moved, c, occ
<1>6. Occupied(moved) = occ
  <2>1. occ = {j \in Slots(vec) : At(new, j) # None}
    BY <1>2, TableFacts
  <2>2. Occupied(moved) = {j \in Slots(vec) : At(moved, j) # None}
    BY <1>5, TableFacts
  <2>3. \A j \in Slots(vec) : At(moved, j) # None <=> At(new, j) # None
    BY <1>2, <1>4, <1>5, <2>1
  <2> QED BY <2>1, <2>2, <2>3
<1>7. \A p \in occ \ {wipe} : At(moved, p) = At(new, p)
  BY <1>1, <1>5
\* The entries are those outside the old hole.
<1>8. {At(moved, p) : p \in occ \ {i}} = {At(new, p) : p \in occ \ {wipe}}
  <2>1. ASSUME NEW p \in occ \ {i}
        PROVE  \E q \in occ \ {wipe} : At(moved, p) = At(new, q)
    BY <1>3, <1>5, <1>7 DEF c, occ
  <2>2. ASSUME NEW q \in occ \ {wipe}
        PROVE  \E p \in occ \ {i} : At(new, q) = At(moved, p)
    BY <1>2, <1>3, <1>5, <1>7 DEF c
  <2> QED BY <2>1, <2>2
\* Searches for them.
<1>9. ASSUME NEW p \in occ \ {wipe}, NEW m \in Slots(vec) \ {wipe},
             Before(vec, At(new, p)[1], m, p)
      PROVE  ~EndsAt(new, At(new, p)[1], m)
  BY <1>9 DEF Closing, occ
<1>10. \A m \in Slots(vec) :
         Before(vec, k, m, wipe) => m # wipe /\ Before(vec, k, m, i)
  <2>1. Home(vec, k) \in Slots(vec)
    BY <1>4, HomeFacts
  <2>2. Before(vec, k, wipe, i)
    BY DEF c
  <2>3. \A m \in Slots(vec) : Gap(N, Home(vec, k), m) \in Nat
    BY <1>1, <2>1, Gaps
  <2> QED BY <1>1, <1>2, <2>2, <2>3 DEF Before, occ
<1>11. ASSUME NEW p \in occ \ {i}, NEW m \in Slots(vec) \ {i},
              Before(vec, At(moved, p)[1], m, p)
       PROVE  ~EndsAt(moved, At(moved, p)[1], m)
  <2>1. CASE p = wipe
    <3>1. m # wipe /\ Before(vec, k, m, i)
      BY <1>5, <1>10, <1>11, <2>1
    <3>2. ~EndsAt(new, k, m)
      BY <1>3, <1>9, <3>1 DEF c, occ
    <3> QED BY <1>5, <2>1, <3>1, <3>2 DEF EndsAt
  <2>2. CASE p # wipe /\ m # wipe
    <3>1. ~EndsAt(new, At(new, p)[1], m)
      BY <1>7, <1>9, <1>11, <2>2
    <3> QED BY <1>5, <1>7, <2>2, <3>1 DEF EndsAt
  <2>3. CASE p # wipe /\ m = wipe
    <3>1. At(new, p)[1] # k
      BY <1>3, <2>3, ClosingDistinct DEF c, occ
    <3> QED BY <1>4, <1>5, <1>7, <2>3, <3>1 DEF EndsAt
  <2> QED BY <2>1, <2>2, <2>3
\* The new hole is not on the way to the entries looked at.
<1>12. ASSUME NEW p \in occ \ {i}, gap(p) <= n + 1
       PROVE  ~Before(vec, At(moved, p)[1], i, p)
  <2>1. CASE p = wipe
    <3>1. i \in Slots(vec) /\ Home(vec, k) \in Slots(vec)
      BY <1>1, <1>4, HomeFacts DEF occ
    <3>2. Gap(N, Home(vec, k), i) \in Nat
      BY <1>1, <3>1, Gaps
    <3>3. ~Before(vec, k, i, i)
      BY <3>2 DEF Before
    <3> QED BY <1>5, <1>10, <2>1, <3>1, <3>3
  <2>2. CASE p # wipe
    <3> DEFINE h == Home(vec, At(new, p)[1])
    <3>0. p \in Slots(vec) /\ i \in Slots(vec) /\ wipe \in Slots(vec)
          /\ victim \in Slots(vec)
      BY <1>1, <1>2 DEF occ
    <3>1. gap(p) < gap(i) /\ gap(wipe) < gap(i) /\ gap(i) < gap(e)
      <4>1. gap(p) \in Nat /\ gap(p) # gap(i)
        BY <1>1, <1>12, <3>0, Gaps
      <4> QED BY <1>2, <1>3, <1>12, <4>1
    <3>2. At(new, p)[1] \in Key /\ h \in Slots(vec)
      BY <1>2, TableFacts, CellFacts, HomeFacts
    <3>3. ~(Gap(N, h, wipe) < Gap(N, h, p))
      <4>1. gap(p) <= n /\ gap(p) < gap(e)
        <5>1. gap(p) \in Nat /\ gap(e) \in Nat
          BY <1>1, <3>0, Gaps
        <5> QED BY <1>3, <3>1, <5>1
      <4> QED BY <2>2, <4>1 DEF Closing, Before, occ
    <3>4. ~(Gap(N, h, e) < Gap(N, h, p))
      <4>1. EndsAt(new, At(new, p)[1], e) /\ e # wipe
        BY <1>1, <1>2, TableFacts DEF EndsAt
      <4> QED BY <1>1, <1>9, <2>2, <4>1 DEF Before
    <3> HIDE DEF h
    <3>5. ~(Gap(N, h, i) < Gap(N, h, p))
      BY <1>1, <2>2, <3>0, <3>1, <3>2, <3>3, <3>4, AcrossHole
    <3> QED BY <1>7, <2>2, <3>5 DEF Before, h
  <2> QED BY <2>1, <2>2
<1>13. ASSUME NEW p \in occ \ {i}, p < victim
       PROVE  \E m \in occ : m < victim /\ At(moved, p) = At(vec, m)
  <2>1. \A q \in occ \ {wipe} :
          q < victim => \E m \in occ : m < victim /\ At(new, q) = At(vec, m)
    BY DEF Closing, occ
  <2>2. CASE p = wipe
    <3>1. i < victim
      <4>1. gap(wipe) < gap(i)
        BY <1>2, <1>3
      <4> QED BY <1>1, <1>2, <1>13, <2>2, <4>1, WrapsRound DEF occ
    <3> QED BY <1>3, <1>5, <2>1, <2>2, <3>1 DEF c, occ
  <2> QED BY <1>7, <1>13, <2>1, <2>2
<1>14. {At(new, p) : p \in occ \ {wipe}} = {At(vec, p) : p \in occ \ {victim}}
  BY DEF Closing, occ
<1>15. i \in occ /\ gap(i) <= n + 1 /\ gap(i) < gap(e)
  BY <1>3 DEF occ
<1>16. Closing(vec, victim, e, n + 1, moved, i)
  <2> HIDE DEF N, gap
  <2> QED BY <1>5, <1>6, <1>8, <1>11, <1>12, <1>13, <1>14, <1>15
          DEF Closing, occ, gap, N
<1> QED BY <1>16 DEF moved, c

\* A turn that leaves the table as it is.
LEMMA ClosingStay ==
  ASSUME NEW vec, IsTable(vec), NEW victim \in Occupied(vec), NEW e,
         NEW n \in Nat, NEW new, NEW wipe,
         Closing(vec, victim, e, n, new, wipe),
         \A p \in Occupied(vec) \ {wipe} :
           Gap(Len(vec), victim, p) = n + 1
             /\ Gap(Len(vec), victim, p) < Gap(Len(vec), victim, e)
           => ~Before(vec, At(new, p)[1], wipe, p)
  PROVE  Closing(vec, victim, e, n + 1, new, wipe)
<1>1. /\ Len(vec) \in Nat /\ Slots(vec) = 0 .. Len(vec) - 1
      /\ Occupied(vec) \subseteq Slots(vec) /\ wipe \in Occupied(vec)
  BY TableFacts DEF Closing
<1>2. \A p \in Occupied(vec) : Gap(Len(vec), victim, p) \in Nat
  BY <1>1, Gaps
<1>3. Gap(Len(vec), victim, wipe) <= n + 1
  BY <1>1, <1>2 DEF Closing
<1>4. \A p \in Occupied(vec) \ {wipe} :
        Gap(Len(vec), victim, p) <= n + 1
          /\ Gap(Len(vec), victim, p) < Gap(Len(vec), victim, e)
        => ~Before(vec, At(new, p)[1], wipe, p)
  <2> SUFFICES ASSUME NEW p \in Occupied(vec) \ {wipe},
                      Gap(Len(vec), victim, p) <= n + 1,
                      Gap(Len(vec), victim, p) < Gap(Len(vec), victim, e)
               PROVE  ~Before(vec, At(new, p)[1], wipe, p)
    OBVIOUS
  <2>1. CASE Gap(Len(vec), victim, p) <= n
    BY <2>1 DEF Closing
  <2>2. CASE Gap(Len(vec), victim, p) = n + 1
    BY <2>2
  <2> QED BY <1>2, <2>1, <2>2
<1> QED BY <1>3, <1>4 DEF Closing

\* A table with room has an end to each cluster.
LEMMA ClusterEnds ==
  ASSUME NEW vec, IsTable(vec), HasRoom(vec), NEW victim \in Slots(vec)
  PROVE  \E e : ClusterEnd(vec, victim, e)
<1> DEFINE gap(j) == Gap(Len(vec), victim, j)
           T == {n \in Nat : \E j \in Slots(vec) :
                    n = gap(j) /\ At(vec, j) = None}
<1>1. \A j \in Slots(vec) : gap(j) \in Nat
  BY TableFacts, Gaps
<1>2. PICK n \in T : \A y \in T : n <= y
  <2>1. PICK j \in Slots(vec) : At(vec, j) = None
    BY DEF HasRoom
  <2>2. gap(j) \in T /\ T \subseteq Nat
    BY <1>1, <2>1
  <2> HIDE DEF T
  <2> QED BY <2>2, LeastNat
<1>3. PICK e \in Slots(vec) : n = gap(e) /\ At(vec, e) = None
  BY <1>2
<1>4. ASSUME NEW m \in Slots(vec), gap(m) < gap(e), At(vec, m) = None
      PROVE  FALSE
  <2>1. gap(m) \in T /\ gap(m) \in Nat /\ gap(e) \in Nat
    BY <1>1, <1>4
  <2> QED BY <1>2, <1>3, <1>4, <2>1
<1> QED BY <1>3, <1>4 DEF ClusterEnd

\* The slot that the loop looks at in its turn n.
LEMMA TurnSlot ==
  ASSUME NEW vec, IsTable(vec), NEW victim \in Slots(vec),
         NEW n \in 0 .. Mask(vec)
  PROVE  /\ (victim + n) % Len(vec) \in Slots(vec)
         /\ Gap(Len(vec), victim, (victim + n) % Len(vec)) = n
<1>1. /\ Len(vec) \in Nat \ {0} /\ victim \in 0 .. Len(vec) - 1
      /\ n \in 0 .. Len(vec) - 1 /\ Slots(vec) = 0 .. Len(vec) - 1
  BY TableFacts
<1> DEFINE L == Len(vec)
<1> HIDE DEF L
<1>0. /\ L \in Nat \ {0} /\ n \in 0 .. L - 1
      /\ victim \in 0 .. L - 1 /\ victim \in Nat
  BY <1>1 DEF L
<1>2. victim % L = victim
  BY <1>0
<1>3. (victim + n) % L = IF victim + n < L THEN victim + n
                                ELSE victim + n - L
  BY <1>0, <1>2, ModPlus
<1> QED BY <1>1, <1>3 DEF Gap, L

\* The loop of hash_remove, turn by turn.
LEMMA ShiftsClosing ==
  ASSUME NEW vec, IsTable(vec), Sound(vec), NEW victim \in Occupied(vec),
         NEW e, ClusterEnd(vec, victim, e), NEW n \in 0 .. Mask(vec)
  PROVE  LET a == Shifts(vec, victim)[n]
         IN  Closing(vec, victim, e, n, a.vec, a.wipe)
<1> DEFINE s == Shifts(vec, victim)
           E == Gap(Len(vec), victim, e)
           P(m) == /\ s[m].done <=> m >= E
                   /\ s[m].done \in BOOLEAN
                   /\ Closing(vec, victim, e, m, s[m].vec, s[m].wipe)
           T == {m \in 0 .. Mask(vec) : ~P(m)}
<1>1. /\ Len(vec) \in Nat \ {0} /\ Mask(vec) = Len(vec) - 1
      /\ Slots(vec) = 0 .. Len(vec) - 1
      /\ victim \in Slots(vec) /\ At(vec, victim) # None
      /\ e \in Slots(vec) /\ At(vec, e) = None
  BY TableFacts DEF ClusterEnd
<1>2. E \in Nat /\ E # 0
  BY <1>1 DEF Gap
<1>3. \A m \in 0 .. Mask(vec) :
        s[m] = IF m = 0 THEN [vec |-> vec, wipe |-> victim, done |-> FALSE]
               ELSE Shift(s[m - 1], (victim + m) % Len(vec))
  <2>1. ShiftsFn(vec, victim, Mask(vec), s)
    BY <1>1, ShiftsIs
  <2> HIDE DEF s
  <2> QED BY <2>1 DEF ShiftsFn
<1> HIDE DEF s, E
<1>4. P(0)
  <2>0. 0 \in 0 .. Mask(vec)
    BY <1>1
  <2>1. s[0] = [vec |-> vec, wipe |-> victim, done |-> FALSE]
    BY <1>3, <2>0
  <2>2. s[0].vec = vec /\ s[0].wipe = victim /\ s[0].done = FALSE
    BY <2>1
  <2> QED BY <1>2, <2>1, <2>2, ClosingStart
<1>5. ASSUME NEW m \in 1 .. Mask(vec), P(m - 1) PROVE P(m)
  <2> DEFINE a == s[m - 1]
             i == (victim + m) % Len(vec)
             c == At(a.vec, i)
             b == s[m]
  <2>1. b = Shift(a, i)
    BY <1>3
  <2>2. i \in Slots(vec) /\ Gap(Len(vec), victim, i) = m
    <3>1. m \in 0 .. Mask(vec)
      BY <1>1
    <3> QED BY <1>1, <3>1, TurnSlot
  <2>3. /\ a.done <=> m - 1 >= E
        /\ a.done \in BOOLEAN
        /\ Closing(vec, victim, e, m - 1, a.vec, a.wipe)
    BY <1>5
  <2>4. m - 1 \in Nat /\ m - 1 + 1 = m
    BY <1>1
  <2>5. /\ IsTable(a.vec) /\ Len(a.vec) = Len(vec)
        /\ Occupied(a.vec) = Occupied(vec)
    BY <2>3 DEF Closing
  <2>6. c = None <=> i \notin Occupied(vec)
    BY <2>2, <2>5, <1>1, TableFacts
  <2> HIDE DEF a, i, b
  <2>7. CASE m >= E
    <3>1. a.done \/ c = None
      <4>1. m = E => i = e
        BY <1>1, <2>2, Gaps DEF E
      <4>2. e \notin Occupied(vec)
        BY <1>1, TableFacts
      <4> QED BY <1>2, <2>3, <2>6, <2>7, <4>1, <4>2
    <3>3. b = [vec |-> a.vec, wipe |-> a.wipe, done |-> TRUE]
      BY <2>1, <3>1 DEF Shift
    <3>4. b.vec = a.vec /\ b.wipe = a.wipe /\ b.done = TRUE
      BY <3>3
    <3>5. Closing(vec, victim, e, m, a.vec, a.wipe)
      <4>1. \A p : ~(/\ Gap(Len(vec), victim, p) = m
                     /\ Gap(Len(vec), victim, p) < E)
        BY <1>2, <2>7
      <4> QED BY <2>3, <2>4, <4>1, ClosingStay DEF E
    <3> QED BY <2>7, <3>3, <3>4, <3>5 DEF b
  <2>8. CASE m < E
    <3>1. i \in Occupied(vec)
      <4>1. At(vec, i) # None
        BY <2>2, <2>8 DEF ClusterEnd, E
      <4> QED BY <2>2, <4>1, TableFacts
    <3>2. ~a.done /\ c # None
      BY <1>2, <2>3, <2>6, <2>8, <3>1
    <3>3. c \in Cell /\ c[1] \in Key
      BY <2>5, <3>1, TableFacts, CellFacts
    <3>4. /\ a.wipe \in Slots(vec) /\ a.wipe # i
          /\ Gap(Len(vec), victim, a.wipe) <= m - 1
      BY <1>1, <2>2, <2>3, <2>4, TableFacts DEF Closing
    <3>5. MoveInto(i, a.wipe, Hcode[c[1]] % Len(a.vec))
            <=> Before(vec, c[1], a.wipe, i)
      <4>1. Home(vec, c[1]) \in Slots(vec)
        BY <3>3, HomeFacts
      <4>2. Hcode[c[1]] % Len(a.vec) = Home(vec, c[1])
        BY <2>5 DEF Home
      <4> QED BY <1>1, <2>2, <3>4, <4>1, <4>2, MoveIntoIs DEF Before
    <3>6. CASE Before(vec, c[1], a.wipe, i)
      <4>1. b = [vec |-> Put(a.vec, a.wipe, c), wipe |-> i, done |-> FALSE]
        BY <2>1, <3>2, <3>5, <3>6 DEF Shift, Put
      <4>2. b.vec = Put(a.vec, a.wipe, c) /\ b.wipe = i /\ b.done = FALSE
        BY <4>1
      <4>3. Closing(vec, victim, e, m, Put(a.vec, a.wipe, c), i)
        BY <2>2, <2>3, <2>4, <2>8, <3>1, <3>6, ClosingMove DEF E
      <4> QED BY <1>2, <2>8, <4>1, <4>2, <4>3 DEF b
    <3>7. CASE ~Before(vec, c[1], a.wipe, i)
      <4>1. b = a
        BY <2>1, <3>2, <3>5, <3>7 DEF Shift
      <4>2. Closing(vec, victim, e, m, a.vec, a.wipe)
        <5>1. \A p \in Occupied(vec) : Gap(Len(vec), victim, p) = m => p = i
          BY <1>1, <2>2, Gaps, TableFacts
        <5> QED BY <2>3, <2>4, <3>7, <5>1, ClosingStay
      <4>3. ~b.done /\ ~(m >= E)
        BY <1>2, <2>8, <3>2, <4>1
      <4> QED BY <2>3, <4>1, <4>2, <4>3 DEF b
    <3> QED BY <3>6, <3>7
  <2> QED BY <1>2, <2>7, <2>8
<1> HIDE DEF P
<1>6. T = {}
  <2> SUFFICES ASSUME T # {} PROVE FALSE
    OBVIOUS
  <2>1. PICK m \in T : \A y \in T : m <= y
    <3> T \subseteq Nat
      BY <1>1
    <3> HIDE DEF T
    <3> QED BY LeastNat
  <2>2. m \in 1 .. Mask(vec) /\ m - 1 \in 0 .. Mask(vec) /\ m - 1 \notin T
    BY <1>1, <1>4, <2>1
  <2> QED BY <1>5, <2>1, <2>2
<1>7. P(n)
  BY <1>6
<1> QED BY <1>7 DEF P, s

\* hash_remove closes the hole: every other entry stays, and is found; entries
\* before the victim come from before it.
LEMMA WithoutSound ==
  ASSUME NEW vec, IsTable(vec), Sound(vec), HasRoom(vec),
         NEW victim \in Occupied(vec)
  PROVE  /\ IsTable(Without(vec, victim))
         /\ Len(Without(vec, victim)) = Len(vec)
         /\ Sound(Without(vec, victim)) /\ HasRoom(Without(vec, victim))
         /\ CellsOf(Without(vec, victim)) = CellsOf(vec) \ {At(vec, victim)}
         /\ \E wipe \in Occupied(vec) :
              Occupied(Without(vec, victim)) = Occupied(vec) \ {wipe}
         /\ \A p \in Occupied(Without(vec, victim)) :
              p < victim =>
                \E m \in Occupied(vec) :
                  m < victim /\ At(Without(vec, victim), p) = At(vec, m)
<1> DEFINE N == Len(vec)
           occ == Occupied(vec)
           gap(j) == Gap(N, victim, j)
           a == Shifts(vec, victim)[Mask(vec)]
           new == a.vec
           wipe == a.wipe
           res == Without(vec, victim)
<1>1. /\ N \in Nat \ {0} /\ Mask(vec) = N - 1 /\ Slots(vec) = 0 .. N - 1
      /\ occ \subseteq Slots(vec) /\ victim \in Slots(vec)
  BY TableFacts
<1>2. PICK e : ClusterEnd(vec, victim, e)
  BY <1>1, ClusterEnds
<1>3. Closing(vec, victim, e, Mask(vec), new, wipe)
  <2>1. Mask(vec) \in 0 .. Mask(vec)
    BY <1>1
  <2> QED BY <1>2, <2>1, ShiftsClosing
<1>4. res = Put(new, wipe, None)
  BY DEF Without, Put
<1> HIDE DEF N, occ, new, wipe, res
<1>5. /\ IsTable(new) /\ Len(new) = N /\ Occupied(new) = occ
      /\ wipe \in occ /\ gap(wipe) < gap(e)
      /\ Slots(new) = Slots(vec)
  BY <1>1, <1>3, TableFacts DEF Closing, N, occ
<1>6. e \in Slots(vec) /\ e \notin occ
  BY <1>2, TableFacts DEF ClusterEnd, occ
<1>7. \A p \in occ \ {wipe} : At(new, p)[1] \in Key
  BY <1>5, TableFacts, CellFacts
<1>8. ASSUME NEW p \in occ \ {wipe}, Before(vec, At(new, p)[1], wipe, p)
      PROVE  FALSE
  <2> DEFINE k == At(new, p)[1]
             h == Home(vec, k)
  <2>1. p \in Slots(vec) /\ wipe \in Slots(vec) /\ h \in Slots(vec)
    BY <1>1, <1>5, <1>7, HomeFacts
  <2>2. gap(p) \in 0 .. N - 1 /\ gap(e) \in 0 .. N - 1 /\ gap(p) # gap(e)
    <3> HIDE DEF h, k
    <3> QED BY <1>1, <1>6, <2>1, GapType DEF N
  <2>3. ~(gap(p) < gap(e))
    <3>1. gap(p) <= Mask(vec)
      BY <1>1, <2>2
    <3> QED BY <1>3, <1>8, <3>1 DEF Closing, occ, N
  <2>4. gap(e) < gap(p)
    BY <2>2, <2>3
  <2>5. Gap(N, h, wipe) < Gap(N, h, p)
    BY <1>8 DEF Before, N
  <2>6. Gap(N, h, e) < Gap(N, h, p)
    <3> HIDE DEF h, k
    <3> QED BY <1>1, <1>5, <1>6, <2>1, <2>4, <2>5, AcrossEnd DEF N
  <2>7. Before(vec, k, e, p) /\ e # wipe
    BY <1>5, <1>6, <2>6 DEF Before, N
  <2>8. EndsAt(new, k, e)
    BY <1>5, <1>6, TableFacts DEF EndsAt
  <2> QED BY <1>3, <1>6, <2>7, <2>8 DEF Closing, occ
<1>9. /\ IsTable(res) /\ Len(res) = N /\ Slots(res) = Slots(vec)
      /\ At(res, wipe) = None
      /\ \A j \in Slots(vec) : j # wipe => At(res, j) = At(new, j)
      /\ \A k : Home(res, k) = Home(vec, k)
  <2>1. wipe \in Slots(new)
    BY <1>1, <1>5
  <2>2. \A k : Home(new, k) = Home(vec, k)
    BY <1>5 DEF Home, N
  <2> QED BY <1>4, <1>5, <2>1, <2>2, PutFacts
<1>10. Occupied(res) = occ \ {wipe}
  <2>1. occ = {j \in Slots(vec) : At(new, j) # None}
    BY <1>5, TableFacts
  <2>2. Occupied(res) = {j \in Slots(vec) : At(res, j) # None}
    BY <1>9, TableFacts
  <2> QED BY <1>9, <2>1, <2>2
<1>11. \A p \in occ \ {wipe} : At(res, p) = At(new, p)
  BY <1>1, <1>9
<1>12. CellsOf(res) = CellsOf(vec) \ {At(vec, victim)}
  <2>1. CellsOf(res) = {At(new, p) : p \in occ \ {wipe}}
    BY <1>10, <1>11 DEF CellsOf
  <2>2. CellsOf(res) = {At(vec, p) : p \in occ \ {victim}}
    BY <1>3, <2>1 DEF Closing, occ
  <2>3. \A p \in occ \ {victim} : At(vec, p) # At(vec, victim)
    BY SoundDistinct DEF occ
  <2> QED BY <2>2, <2>3 DEF CellsOf, occ
<1>13. Sound(res)
  <2> SUFFICES ASSUME NEW p \in occ \ {wipe}, NEW m \in Slots(vec),
                      Before(vec, At(new, p)[1], m, p)
               PROVE  ~EndsAt(res, At(new, p)[1], m)
    BY <1>9, <1>10, <1>11 DEF Sound, Clear, Before, N
  <2>1. m # wipe
    BY <1>8
  <2>2. ~EndsAt(new, At(new, p)[1], m)
    BY <1>3, <2>1 DEF Closing, occ
  <2> QED BY <1>9, <2>1, <2>2 DEF EndsAt
<1>14. HasRoom(res)
  BY <1>1, <1>5, <1>9 DEF HasRoom
<1>15. \A p \in Occupied(res) :
         p < victim => \E m \in occ : m < victim /\ At(res, p) = At(vec, m)
  BY <1>3, <1>10, <1>11 DEF Closing, occ
<1> QED BY <1>5, <1>9, <1>10, <1>12, <1>13, <1>14, <1>15 DEF res, N, occ

-----------------------------------------------------------------------------
(* The loop of do_weak_tables                                              *)

\* The loop of the weak sweep, up to its turn m.
SweepsFn(vec, dead, m, f) ==
  f = [j \in 0 .. m |-> IF j = 0 THEN [vec |-> vec, i |-> 0, c |-> 0]
                        ELSE Sweep(f[j - 1], dead)]

\* There is a function defined by that recursion
LEMMA SweepsExists ==
  ASSUME NEW vec, NEW dead, NEW m \in Nat
  PROVE  \E f : SweepsFn(vec, dead, m, f)
<1> DEFINE T == {n \in Nat : ~\E f : SweepsFn(vec, dead, n, f)}
<1> SUFFICES ASSUME T # {} PROVE FALSE
  OBVIOUS
<1>1. PICK n \in T : \A y \in T : n <= y
  <2> T \subseteq Nat
    OBVIOUS
  <2> HIDE DEF T
  <2> QED BY LeastNat
<1>2. n # 0
  <2> DEFINE f == [j \in 0 .. 0 |-> [vec |-> vec, i |-> 0, c |-> 0]]
  <2>1. SweepsFn(vec, dead, 0, f)
    BY DEF SweepsFn
  <2> QED BY <2>1
<1>3. n - 1 \in Nat /\ n \in Nat
  BY <1>2
<1>4. PICK g : SweepsFn(vec, dead, n - 1, g)
  <2>1. n - 1 \notin T
    BY <1>1, <1>3
  <2> QED BY <1>3, <2>1
<1> DEFINE f == [j \in 0 .. n |->
                   IF j = n THEN Sweep(g[n - 1], dead) ELSE g[j]]
           next(j) == IF j = 0 THEN [vec |-> vec, i |-> 0, c |-> 0]
                      ELSE Sweep(f[j - 1], dead)
<1>5. SweepsFn(vec, dead, n, f)
  <2>1. \A j \in 0 .. n - 1 : f[j] = next(j)
    <3>1. \A j \in 0 .. n - 1 : g[j] =
            IF j = 0 THEN [vec |-> vec, i |-> 0, c |-> 0]
            ELSE Sweep(g[j - 1], dead)
      BY <1>3, <1>4 DEF SweepsFn
    <3>2. \A j \in 0 .. n - 1 : f[j] = g[j] /\ (j # 0 => f[j - 1] = g[j - 1])
      BY <1>3
    <3> HIDE DEF f
    <3> QED BY <3>1, <3>2
  <2>2. f[n] = next(n)
    BY <1>2, <1>3
  <2>3. \A j \in 0 .. n : f[j] = next(j)
    <3> HIDE DEF f, next
    <3> QED BY <1>3, <2>1, <2>2
  <2> QED BY <2>3 DEF SweepsFn
<1> QED BY <1>5

\* So Sweeps is it.
LEMMA SweepsIs ==
  ASSUME NEW vec, NEW dead, 2 * Len(vec) \in Nat
  PROVE  SweepsFn(vec, dead, 2 * Len(vec), Sweeps(vec, dead))
<1>1. Sweeps(vec, dead) = CHOOSE f : SweepsFn(vec, dead, 2 * Len(vec), f)
  BY DEF Sweeps, SweepsFn
<1> QED BY <1>1, SweepsExists

\* The state of the weak sweep after n turns, at slot i of the table v.
Sweeping(vec, dead, n, v, i, c) ==
  /\ IsTable(v) /\ Len(v) = Len(vec) /\ Sound(v) /\ HasRoom(v)
  /\ i \in 0 .. Len(vec) /\ c \in Nat
  /\ CellsOf(v) \subseteq CellsOf(vec)
  /\ \A x \in CellsOf(vec) : x[1] \notin dead => x \in CellsOf(v)
  /\ \A j \in Occupied(v) : j < i => At(v, j)[1] \notin dead
  /\ Cardinality({j \in Occupied(v) : j < i}) <= c
  /\ i < Len(vec) => n <= i + Cardinality(Slots(vec) \ Occupied(v))

\* A turn of the loop of do_weak_tables.
LEMMA SweepTurn ==
  ASSUME NEW vec, IsTable(vec), NEW dead, NEW n \in Nat, NEW a,
         Sweeping(vec, dead, n, a.vec, a.i, a.c), NEW b, b = Sweep(a, dead)
  PROVE  Sweeping(vec, dead, n + 1, b.vec, b.i, b.c)
<1> DEFINE v == a.vec
           i == a.i
           c == a.c
           x == At(v, i)
           seen(t, j) == {m \in Occupied(t) : m < j}
           free(t) == Slots(vec) \ Occupied(t)
<1>1. /\ IsTable(v) /\ Len(v) = Len(vec) /\ Sound(v) /\ HasRoom(v)
      /\ i \in 0 .. Len(vec) /\ c \in Nat
      /\ CellsOf(v) \subseteq CellsOf(vec)
      /\ \A y \in CellsOf(vec) : y[1] \notin dead => y \in CellsOf(v)
      /\ \A j \in Occupied(v) : j < i => At(v, j)[1] \notin dead
      /\ Cardinality(seen(v, i)) <= c
      /\ i < Len(vec) => n <= i + Cardinality(free(v))
  BY DEF Sweeping
<1>2. /\ Len(vec) \in Nat \ {0} /\ Slots(v) = Slots(vec)
      /\ Slots(vec) = 0 .. Len(vec) - 1 /\ Mask(v) = Len(vec) - 1
      /\ Occupied(v) = {j \in Slots(vec) : At(v, j) # None}
      /\ i <= Mask(v) => i \in Slots(vec)
  BY <1>1, TableFacts
<1>3. /\ seen(v, i) \in SUBSET Slots(vec) /\ free(v) \in SUBSET Slots(vec)
      /\ IsFiniteSet(seen(v, i)) /\ Cardinality(seen(v, i)) \in Nat
      /\ IsFiniteSet(free(v)) /\ Cardinality(free(v)) \in Nat
  <2>1. seen(v, i) \in SUBSET Slots(vec) /\ free(v) \in SUBSET Slots(vec)
    BY <1>2
  <2> HIDE DEF seen, free
  <2> QED BY <2>1, SlotSets
<1> HIDE DEF v, i, c
<1>4. CASE i > Mask(v)
  <2>1. b = a
    BY <1>4 DEF Sweep, v, i
  <2>2. ~(i < Len(vec))
    BY <1>1, <1>2, <1>4
  <2> QED BY <1>1, <2>1, <2>2 DEF Sweeping, v, i, c
<1>5. CASE i <= Mask(v) /\ x = None
  <2>1. b = [vec |-> v, i |-> i + 1, c |-> c]
    BY <1>1, <1>2, <1>5 DEF Sweep, v, i, c
  <2>2. b.vec = v /\ b.i = i + 1 /\ b.c = c
    BY <2>1
  <2>3. i \in Slots(vec) /\ i \notin Occupied(v)
    BY <1>2, <1>5
  <2>4. seen(v, i + 1) = seen(v, i)
    BY <1>1, <1>2, <2>3
  <2>5. \A j \in Occupied(v) : j < i + 1 => j < i
    BY <1>1, <1>2, <2>3
  <2>6. i + 1 \in 0 .. Len(vec)
        /\ (i + 1 < Len(vec) => n + 1 <= i + 1 + Cardinality(free(v)))
    BY <1>1, <1>2, <1>3, <2>3
  <2> QED BY <1>1, <2>2, <2>4, <2>5, <2>6 DEF Sweeping
<1>6. CASE i <= Mask(v) /\ x # None /\ x[1] \in dead
  <2> DEFINE w == Without(v, i)
  <2>1. b = [vec |-> w, i |-> i, c |-> c]
    BY <1>1, <1>2, <1>6 DEF Sweep, Again, v, i, c
  <2>2. b.vec = w /\ b.i = i /\ b.c = c
    BY <2>1
  <2>3. i \in Occupied(v)
    BY <1>2, <1>6
  <2>4. /\ IsTable(w) /\ Len(w) = Len(v) /\ Sound(w) /\ HasRoom(w)
        /\ CellsOf(w) = CellsOf(v) \ {x}
        /\ \E wipe \in Occupied(v) : Occupied(w) = Occupied(v) \ {wipe}
        /\ \A p \in Occupied(w) :
             p < i => \E m \in Occupied(v) : m < i /\ At(w, p) = At(v, m)
    BY <1>1, <2>3, WithoutSound
  <2> HIDE DEF w
  <2>5. PICK wipe \in Occupied(v) : Occupied(w) = Occupied(v) \ {wipe}
    BY <2>4
  <2>6. Cardinality(seen(w, i)) <= c
    <3>1. seen(w, i) \subseteq seen(v, i)
      BY <2>5
    <3> HIDE DEF seen
    <3>2. Cardinality(seen(w, i)) <= Cardinality(seen(v, i))
      BY <1>3, <3>1, FS_Subset
    <3>3. Cardinality(seen(w, i)) \in Nat
      BY <1>3, <3>1, FS_Subset, FS_CardinalityType
    <3> QED BY <1>1, <1>3, <3>2, <3>3
  <2>7. Cardinality(free(w)) = Cardinality(free(v)) + 1
    <3>1. free(w) = free(v) \cup {wipe} /\ wipe \notin free(v)
      BY <1>2, <2>5
    <3> HIDE DEF free
    <3> QED BY <1>3, <3>1, FS_AddElement
  <2>8. i < Len(vec) => n + 1 <= i + Cardinality(free(w))
    BY <1>1, <1>3, <2>7
  <2>9. \A y \in CellsOf(vec) : y[1] \notin dead => y \in CellsOf(w)
    BY <1>1, <1>6, <2>4
  <2>10. \A j \in Occupied(w) : j < i => At(w, j)[1] \notin dead
    BY <1>1, <2>4
  <2> QED BY <1>1, <2>2, <2>4, <2>6, <2>8, <2>9, <2>10 DEF Sweeping
<1>7. CASE i <= Mask(v) /\ x # None /\ x[1] \notin dead
  <2>1. b = [vec |-> v, i |-> i + 1, c |-> c + 1]
    BY <1>1, <1>2, <1>7 DEF Sweep, v, i, c
  <2>2. b.vec = v /\ b.i = i + 1 /\ b.c = c + 1
    BY <2>1
  <2>3. i \in Occupied(v)
    BY <1>2, <1>7
  <2>4. seen(v, i + 1) = seen(v, i) \cup {i} /\ i \notin seen(v, i)
    BY <1>1, <1>2, <2>3
  <2>5. Cardinality(seen(v, i + 1)) <= c + 1
    <3> HIDE DEF seen
    <3>1. Cardinality(seen(v, i + 1)) = Cardinality(seen(v, i)) + 1
      BY <1>3, <2>4, FS_AddElement
    <3> QED BY <1>1, <1>3, <3>1
  <2>6. \A j \in Occupied(v) : j < i + 1 => At(v, j)[1] \notin dead
    <3>1. \A j \in Occupied(v) : j < i + 1 => j < i \/ j = i
      BY <1>1, <1>2
    <3> QED BY <1>1, <1>7, <3>1
  <2>7. i + 1 \in 0 .. Len(vec) /\ c + 1 \in Nat
        /\ (i + 1 < Len(vec) => n + 1 <= i + 1 + Cardinality(free(v)))
    BY <1>1, <1>2, <1>3, <1>7
  <2> QED BY <1>1, <2>2, <2>5, <2>6, <2>7 DEF Sweeping
<1>8. i <= Mask(v) \/ i > Mask(v)
  BY <1>1, <1>2
<1> QED BY <1>4, <1>5, <1>6, <1>7, <1>8

\* A weak sweep removes the entries of dead keys, and no others; the table
\* stays sound, and the count is at least the number of entries that remain.
LEMMA SweptFacts ==
  ASSUME NEW vec, IsTable(vec), Sound(vec), HasRoom(vec), NEW dead
  PROVE  /\ IsTable(Swept(vec, dead).vec)
         /\ Len(Swept(vec, dead).vec) = Len(vec)
         /\ Sound(Swept(vec, dead).vec) /\ HasRoom(Swept(vec, dead).vec)
         /\ CellsOf(Swept(vec, dead).vec)
              = {x \in CellsOf(vec) : x[1] \notin dead}
         /\ Swept(vec, dead).c \in Nat
         /\ Cardinality(Occupied(Swept(vec, dead).vec)) <= Swept(vec, dead).c
<1> DEFINE L == Len(vec)
           s == Sweeps(vec, dead)
           P(n) == Sweeping(vec, dead, n, s[n].vec, s[n].i, s[n].c)
           T == {n \in 0 .. 2 * L : ~P(n)}
           end == s[2 * L]
<1>1. L \in Nat \ {0} /\ 2 * L \in Nat /\ Slots(vec) = 0 .. L - 1
  BY TableFacts
<1>2. \A n \in 0 .. 2 * L : s[n] =
        IF n = 0 THEN [vec |-> vec, i |-> 0, c |-> 0]
        ELSE Sweep(s[n - 1], dead)
  <2>1. SweepsFn(vec, dead, 2 * L, s)
    BY <1>1, SweepsIs
  <2> HIDE DEF s, L
  <2> QED BY <2>1 DEF SweepsFn
<1> HIDE DEF s
<1>3. P(0)
  <2>1. 0 \in 0 .. 2 * L
    BY <1>1
  <2>2. s[0] = [vec |-> vec, i |-> 0, c |-> 0]
    BY <1>2, <2>1
  <2>3. s[0].vec = vec /\ s[0].i = 0 /\ s[0].c = 0
    BY <2>2
  <2>4. Occupied(vec) \subseteq Slots(vec)
    BY TableFacts
  <2>5. \A j \in Occupied(vec) : ~(j < 0)
    BY <1>1, <2>4
  <2>6. {j \in Occupied(vec) : j < 0} = {} /\ Cardinality({}) = 0
    BY <2>5, FS_EmptySet
  <2>7. Cardinality(Slots(vec) \ Occupied(vec)) \in Nat
    BY SlotSets
  <2>8. 0 <= 0 + Cardinality(Slots(vec) \ Occupied(vec))
    BY <2>7
  <2>9. Cardinality({j \in Occupied(vec) : j < 0}) <= 0
    <3>1. Cardinality({}) <= 0
      BY <2>6
    <3> QED BY <2>6, <3>1
  <2>10. 0 \in 0 .. L
    BY <1>1
  <2> QED BY <2>3, <2>5, <2>8, <2>9, <2>10 DEF Sweeping
<1>4. ASSUME NEW n \in 1 .. 2 * L, P(n - 1) PROVE P(n)
  <2>1. n - 1 \in Nat /\ (n - 1) + 1 = n /\ n \in 0 .. 2 * L /\ n # 0
    BY <1>1
  <2>2. s[n] = Sweep(s[n - 1], dead)
    BY <1>2, <2>1
  <2>3. Sweeping(vec, dead, n - 1, s[n - 1].vec, s[n - 1].i, s[n - 1].c)
    BY <1>4
  <2>4. Sweeping(vec, dead, (n - 1) + 1, s[n].vec, s[n].i, s[n].c)
    BY <2>1, <2>2, <2>3, SweepTurn
  <2> QED BY <2>1, <2>4
<1> HIDE DEF P
<1>5. T = {}
  <2> SUFFICES ASSUME T # {} PROVE FALSE
    OBVIOUS
  <2>1. PICK n \in T : \A y \in T : n <= y
    <3> T \subseteq Nat
      BY <1>1
    <3> HIDE DEF T
    <3> QED BY LeastNat
  <2>2. n \in 1 .. 2 * L /\ n - 1 \in 0 .. 2 * L /\ n - 1 \notin T
    BY <1>1, <1>3, <2>1
  <2> QED BY <1>4, <2>1, <2>2
<1>6. Sweeping(vec, dead, 2 * L, end.vec, end.i, end.c)
  <2>1. 2 * L \in 0 .. 2 * L
    BY <1>1
  <2> QED BY <1>5, <2>1 DEF P
<1>7. end = Swept(vec, dead)
  BY DEF Swept, s
<1> HIDE DEF end
<1>8. /\ IsTable(end.vec) /\ Len(end.vec) = L
      /\ Slots(end.vec) = Slots(vec)
      /\ Occupied(end.vec) \subseteq Slots(vec)
  BY <1>1, <1>6, TableFacts DEF Sweeping
<1>9. end.i = L
  <2> DEFINE rest == Slots(vec) \ Occupied(end.vec)
  <2>1. Cardinality(rest) \in Nat /\ Cardinality(rest) <= L
    <3> rest \in SUBSET Slots(vec)
      OBVIOUS
    <3> HIDE DEF rest
    <3> QED BY SlotSets
  <2>2. end.i \in 0 .. L /\ (end.i < L => 2 * L <= end.i + Cardinality(rest))
    BY <1>6 DEF Sweeping
  <2> HIDE DEF rest
  <2> QED BY <1>1, <2>1, <2>2
<1>10. \A j \in Occupied(end.vec) : j < end.i
  BY <1>1, <1>8, <1>9
<1>11. \A x \in CellsOf(end.vec) : x[1] \notin dead
  BY <1>6, <1>10 DEF Sweeping, CellsOf
<1>12. CellsOf(end.vec) = {x \in CellsOf(vec) : x[1] \notin dead}
  BY <1>6, <1>11 DEF Sweeping
<1>13. Cardinality(Occupied(end.vec)) <= end.c
  <2>1. {j \in Occupied(end.vec) : j < end.i} = Occupied(end.vec)
    BY <1>10
  <2> QED BY <1>6, <2>1 DEF Sweeping
<1> QED BY <1>6, <1>7, <1>12, <1>13 DEF Sweeping

-----------------------------------------------------------------------------
(* The operations.                                                         *)

\* Vectors of at least one slot.
Tables == {v \in Seq(Cell \cup {None}) : Len(v) > 0}

\* The current table is sound and has an empty slot.  The count is at least
\* the number of entries, so that the table grows before it is full, and it is
\* that number unless a weak sweep may have run.
TabInv ==
  /\ tabs \in Seq(Tables) /\ Len(tabs) > 0
  /\ Sound(Vec) /\ HasRoom(Vec)
  /\ count \in Nat /\ Cardinality(Occupied(Vec)) <= count
  /\ ~Weak \/ "gc" \notin program => count = Cardinality(Occupied(Vec))

\* The tables there are.
LEMMA TabFacts ==
  ASSUME TabInv
  PROVE  /\ Cur \in Nat \ {0} /\ Vec \in Tables /\ IsTable(Vec)
         /\ \A t \in 1 .. Cur : tabs[t] \in Tables /\ IsTable(tabs[t])
<1>1. Cur \in Nat \ {0}
  BY DEF TabInv, Cur
<1>2. \A t \in 1 .. Cur : tabs[t] \in Tables
  BY DEF TabInv, Cur
<1>3. Vec \in Tables
  BY <1>1, <1>2 DEF Vec
<1> QED BY <1>1, <1>2, <1>3 DEF Tables, IsTable

\* What a search in the current table tells.
LEMMA FoundFacts ==
  ASSUME TabInv, NEW k \in Key
  PROVE  /\ Found(Vec, k) => /\ Stop(Vec, k) \in Occupied(Vec)
                             /\ At(Vec, Stop(Vec, k))[1] = k
         /\ ~Found(Vec, k) => /\ At(Vec, Stop(Vec, k)) = None
                              /\ \A c \in CellsOf(Vec) : c[1] # k
<1>1. IsTable(Vec) /\ Sound(Vec) /\ HasRoom(Vec)
  BY TabFacts DEF TabInv
<1>2. Stop(Vec, k) \in Slots(Vec) /\ EndsAt(Vec, k, Stop(Vec, k))
  BY <1>1, StopFacts
<1>3. \A i \in Occupied(Vec) : Stop(Vec, At(Vec, i)[1]) = i
  BY <1>1, SoundFindable DEF Findable
<1>4. Occupied(Vec) = {i \in Slots(Vec) : At(Vec, i) # None}
  BY <1>1, TableFacts
<1>5. ASSUME Found(Vec, k)
      PROVE  Stop(Vec, k) \in Occupied(Vec) /\ At(Vec, Stop(Vec, k))[1] = k
  BY <1>2, <1>4, <1>5 DEF Found, EndsAt
<1>6. ASSUME ~Found(Vec, k)
      PROVE  /\ At(Vec, Stop(Vec, k)) = None
             /\ \A c \in CellsOf(Vec) : c[1] # k
  BY <1>3, <1>4, <1>6 DEF Found, CellsOf
<1> QED BY <1>5, <1>6

\* gethash-c of an absent key: the new cell is in the current table, and in
\* the one it grows into, with the cells that were there.
LEMMA InsertEffect ==
  ASSUME TabInv, NEW k \in Key, Insert(k)
  PROVE  /\ NewCell(k) \in NewCells(k) /\ NewCell(k) \in Cell
         /\ NewCell(k)[1] = k
         /\ \A c \in CellsOf(Vec) : c[1] # k
         /\ tabs' \in Seq(Tables) /\ Len(tabs') \in {Cur, Cur + 1}
         /\ \A t \in 1 .. Cur - 1 : tabs'[t] = tabs[t]
         /\ Occupied(tabs'[Cur]) = Occupied(Vec) \cup {Stop(Vec, k)}
         /\ Stop(Vec, k) \notin Occupied(Vec)
         /\ At(tabs'[Cur], Stop(Vec, k)) = NewCell(k)
         /\ \A j \in Occupied(Vec) : At(tabs'[Cur], j) = At(Vec, j)
         /\ CellsOf(tabs'[Cur]) = CellsOf(Vec) \cup {NewCell(k)}
         /\ Sound(tabs'[Len(tabs')]) /\ HasRoom(tabs'[Len(tabs')])
         /\ CellsOf(tabs'[Len(tabs')]) = CellsOf(Vec) \cup {NewCell(k)}
<1> DEFINE c == NewCell(k)
           s == Stop(Vec, k)
           vec == Put(Vec, s, c)
           put == [tabs EXCEPT ![Cur] = vec]
<1>0. Cur \in Nat \ {0} /\ IsTable(Vec) /\ Sound(Vec) /\ HasRoom(Vec)
  BY TabFacts DEF TabInv
<1>1. c \in NewCells(k)
  BY DEF Insert, NewCell
<1>2. c \in Cell /\ c[1] = k
  BY <1>1 DEF NewCells, Cell
<1>3. At(Vec, s) = None /\ \A x \in CellsOf(Vec) : x[1] # k
  BY FoundFacts DEF Insert
<1>4. s \notin Occupied(Vec)
  BY <1>3 DEF Occupied
<1> HIDE DEF c
<1>5. /\ IsTable(vec) /\ Len(vec) = Len(Vec) /\ Sound(vec)
      /\ CellsOf(vec) = CellsOf(Vec) \cup {c}
      /\ Occupied(vec) = Occupied(Vec) \cup {s}
      /\ \A j \in Occupied(Vec) : At(vec, j) = At(Vec, j)
  <2>1. At(Vec, Stop(Vec, c[1])) = None
    BY <1>2, <1>3
  <2> QED BY <1>0, <1>2, <2>1, PutSound
<1>6. At(vec, s) = c
  <2>1. s \in Slots(Vec)
    BY <1>0, StopFacts
  <2> HIDE DEF s
  <2> QED BY <1>0, <1>2, <2>1, PutFacts
<1>7. \/ /\ tabs' = Append(put, Grown(vec)) 
      \/ /\ tabs' = put
         /\ ~Full(count + 1, vec)
  BY DEF Insert, Put, c
<1> HIDE DEF vec, s
<1>8. put \in Seq(Tables) /\ Len(put) = Cur /\ put[Cur] = vec
      /\ \A t \in 1 .. Cur - 1 : put[t] = tabs[t]
  <2>1. vec \in Tables
    BY <1>5 DEF IsTable, Tables
  <2>2. tabs \in Seq(Tables) /\ Cur = Len(tabs) /\ Cur \in 1 .. Len(tabs)
    BY <1>0 DEF TabInv, Cur
  <2> QED BY <2>1, <2>2
<1> HIDE DEF put
<1>9. CASE tabs' = Append(put, Grown(vec))
  <2>1. /\ IsTable(Grown(vec)) /\ Sound(Grown(vec)) /\ HasRoom(Grown(vec))
        /\ CellsOf(Grown(vec)) = CellsOf(vec)
    BY <1>5, GrownSound
  <2>2. Grown(vec) \in Tables
    BY <2>1 DEF IsTable, Tables
  <2>3. /\ tabs' \in Seq(Tables) /\ Len(tabs') = Cur + 1
        /\ tabs'[Cur + 1] = Grown(vec) /\ tabs'[Cur] = vec
        /\ \A t \in 1 .. Cur - 1 : tabs'[t] = tabs[t]
    BY <1>0, <1>8, <1>9, <2>2
  <2> QED BY <1>1, <1>2, <1>3, <1>4, <1>5, <1>6, <2>1, <2>3 DEF c, s
<1>10. CASE tabs' = put /\ ~Full(count + 1, vec)
  <2>1. HasRoom(vec)
    <3>1. Cardinality(Occupied(Vec)) \in Nat /\ IsFiniteSet(Occupied(Vec))
      BY <1>0, EntryCount
    <3>2. Cardinality(Occupied(vec)) = Cardinality(Occupied(Vec)) + 1
      BY <1>4, <1>5, <3>1, FS_AddElement
    <3>3. Len(vec) \in Nat \ {0} /\ Mask(vec) = Len(vec) - 1
      BY <1>5, TableFacts
    <3>4. count \in Nat /\ Cardinality(Occupied(Vec)) <= count
          /\ count + 1 <= Mask(vec) \div 2
      BY <1>10, <3>3 DEF TabInv, Full
    <3>5. Mask(vec) \div 2 <= Mask(vec)
      BY <3>3
    <3>6. Cardinality(Occupied(vec)) < Len(vec)
      BY <3>1, <3>2, <3>3, <3>4, <3>5
    <3> QED BY <1>5, <3>6, RoomBelow
  <2> QED BY <1>1, <1>2, <1>3, <1>4, <1>5, <1>6, <1>8, <1>10, <2>1 DEF c, s
<1> QED BY <1>7, <1>9, <1>10

\* remhash takes one cell out of the current table, the only one of its key.
LEMMA RemhashEffect ==
  ASSUME TabInv, NEW k \in Key, Remhash(k)
  PROVE  /\ tabs' \in Seq(Tables) /\ Len(tabs') = Cur
         /\ Sound(tabs'[Cur]) /\ HasRoom(tabs'[Cur])
         /\ \E c \in CellsOf(Vec) :
              c[1] = k /\ CellsOf(tabs'[Cur]) = CellsOf(Vec) \ {c}
         /\ \A c \in CellsOf(tabs'[Cur]) : c[1] # k
<1> DEFINE victim == Stop(Vec, k)
           new == Without(Vec, victim)
           cleaned(t) == Cleaned(tabs[t], At(Vec, victim), victim)
<1>0. Cur \in Nat \ {0} /\ IsTable(Vec) /\ Sound(Vec) /\ HasRoom(Vec)
  BY TabFacts DEF TabInv
<1>1. victim \in Occupied(Vec) /\ At(Vec, victim)[1] = k
  BY FoundFacts DEF Remhash
<1> HIDE DEF victim
<1>2. /\ IsTable(new) /\ Sound(new) /\ HasRoom(new)
      /\ CellsOf(new) = CellsOf(Vec) \ {At(Vec, victim)}
  BY <1>0, <1>1, WithoutSound
<1>3. tabs' = [t \in 1 .. Cur |->
                 IF t = Cur THEN new
                 ELSE IF t \in old /\ usecount # 0 THEN cleaned(t)
                 ELSE tabs[t]]
  BY DEF Remhash, victim
<1>4. \A t \in 1 .. Cur : IsTable(tabs[t]) /\ IsTable(cleaned(t))
  BY TabFacts, CleanedTable
<1> HIDE DEF new, cleaned
<1>5. \A t \in 1 .. Cur : tabs'[t] \in Tables
  BY <1>2, <1>3, <1>4 DEF IsTable, Tables
<1>6. tabs' \in Seq(Tables) /\ Len(tabs') = Cur /\ tabs'[Cur] = new
  BY <1>0, <1>3, <1>5
<1>7. \A c \in CellsOf(Vec) : c[1] = k => c = At(Vec, victim)
  BY <1>0, <1>1, SoundDistinct DEF CellsOf
<1>8. At(Vec, victim) \in CellsOf(Vec)
  BY <1>1 DEF CellsOf
<1> QED BY <1>1, <1>2, <1>6, <1>7, <1>8

\* clearhash adds an empty table.
LEMMA ClearEffect ==
  ASSUME TabInv, Clearhash
  PROVE  /\ tabs' \in Seq(Tables) /\ Len(tabs') = Cur + 1
         /\ \A t \in 1 .. Cur : tabs'[t] = tabs[t]
         /\ Sound(tabs'[Cur + 1]) /\ HasRoom(tabs'[Cur + 1])
         /\ Occupied(tabs'[Cur + 1]) = {} /\ CellsOf(tabs'[Cur + 1]) = {}
<1> DEFINE v == Empty(FirstMask)
<1>1. /\ IsTable(v) /\ Sound(v) /\ HasRoom(v)
      /\ Occupied(v) = {} /\ CellsOf(v) = {}
  BY EmptyFacts, HashAssumption
<1>2. tabs' = Append(tabs, v)
  BY DEF Clearhash
<1>3. v \in Tables
  BY <1>1 DEF IsTable, Tables
<1>4. tabs \in Seq(Tables) /\ Cur = Len(tabs)
  BY DEF TabInv, Cur
<1> HIDE DEF v
<1> QED BY <1>1, <1>2, <1>3, <1>4

\* A collection takes cells out of the current table, if it is weak and no
\* iterator is on it, and counts at least those that it leaves.
LEMMA GcEffect ==
  ASSUME TabInv, NEW kept, NEW dead \in SUBSET Key, Gc(kept, dead)
  PROVE  /\ tabs' \in Seq(Tables) /\ Len(tabs') = Cur
         /\ Sound(tabs'[Cur]) /\ HasRoom(tabs'[Cur])
         /\ \A t \in 1 .. Cur : t # Cur => tabs'[t] = tabs[t]
         /\ CellsOf(tabs'[Cur]) \subseteq CellsOf(Vec)
         /\ count' \in Nat /\ Cardinality(Occupied(tabs'[Cur])) <= count'
         /\ ~Weak => count' = count /\ tabs' = tabs
         /\ \/ tabs' = tabs
            \/ /\ \A i \in kept : Active(i) => iter[i].tab # Cur
               /\ \A i \in Stacked : Active(i) => iter[i].tab # Cur
<1> DEFINE survivors == {i \in kept : Active(i)}
           seen == survivors \cup {i \in Stacked : Active(i)}
           weak == /\ Weak /\ ~MarkedStrongly
                   /\ \A i \in seen : iter[i].tab # Cur
           sweep == Swept(Vec, dead)
<1>0. Cur \in Nat \ {0} /\ IsTable(Vec) /\ Sound(Vec) /\ HasRoom(Vec)
      /\ tabs \in Seq(Tables) /\ Cur = Len(tabs) /\ Vec = tabs[Cur]
      /\ count \in Nat /\ Cardinality(Occupied(Vec)) <= count
  BY TabFacts DEF TabInv, Vec, Cur
<1>1. /\ IsTable(sweep.vec) /\ Sound(sweep.vec) /\ HasRoom(sweep.vec)
      /\ CellsOf(sweep.vec) \subseteq CellsOf(Vec)
      /\ sweep.c \in Nat /\ Cardinality(Occupied(sweep.vec)) <= sweep.c
  BY <1>0, SweptFacts
<1>2. /\ tabs' = IF weak THEN [tabs EXCEPT ![Cur] = sweep.vec] ELSE tabs
      /\ count' = IF weak THEN sweep.c ELSE count
  BY DEF Gc
<1>3. weak => /\ Weak
              /\ \A i \in kept : Active(i) => iter[i].tab # Cur
              /\ \A i \in Stacked : Active(i) => iter[i].tab # Cur
  OBVIOUS
<1> HIDE DEF weak, sweep
<1>4. CASE weak
  <2>1. sweep.vec \in Tables
    BY <1>1 DEF IsTable, Tables
  <2>2. tabs' \in Seq(Tables) /\ Len(tabs') = Cur /\ tabs'[Cur] = sweep.vec
        /\ \A t \in 1 .. Cur : t # Cur => tabs'[t] = tabs[t]
    BY <1>0, <1>2, <1>4, <2>1
  <2> QED BY <1>1, <1>2, <1>3, <1>4, <2>2
<1>5. CASE ~weak
  BY <1>0, <1>2, <1>5
<1> QED BY <1>4, <1>5

-----------------------------------------------------------------------------
\* Steps that leave the tables and the count as they are.
LEMMA OtherSteps ==
  ASSUME [Next]_vars
  PROVE  \/ \E k \in Key : Insert(k) \/ Remhash(k)
         \/ Clearhash
         \/ \E kept \in SUBSET (Iter \ Stacked), dead \in SUBSET Key :
              Gc(kept, dead)
         \/ tabs' = tabs /\ count' = count
<1> USE DEF Reinsert, Gethash, RemhashAbsent, Begin, Visit, Exhaust, ResetAway,
            ResetHere, Dissociate, CopyIter, GcMinor, BeginCopy, CopyNext,
            EndCopy, table, vars
<1>1. CASE \E k \in Key : \/ Insert(k) \/ Reinsert(k) \/ Gethash(k)
                          \/ Remhash(k) \/ RemhashAbsent(k)
  BY <1>1
<1>2. CASE \E i \in Iter : \/ Begin(i) \/ Visit(i) \/ Exhaust(i)
                           \/ ResetAway(i) \/ ResetHere(i) \/ Dissociate(i)
  BY <1>2
<1>3. CASE \E i, j \in Iter : CopyIter(i, j)
  BY <1>3
<1>4. CASE \E kept \in SUBSET (Iter \ Stacked) :
             GcMinor(kept) \/ \E dead \in SUBSET Key : Gc(kept, dead)
  BY <1>4
<1>5. CASE BeginCopy \/ CopyNext \/ EndCopy \/ UNCHANGED vars
  BY <1>5
<1> QED BY <1>1, <1>2, <1>3, <1>4, <1>5 DEF Next

\* What a behaviour explores is settled from the start.
LEMMA ProgramKept ==
  ASSUME [Next]_vars
  PROVE  program' = program
BY DEF Next, vars, table, Insert, Reinsert, Gethash, Remhash, RemhashAbsent,
       Clearhash, Begin, Visit, Exhaust, ResetAway, ResetHere, Dissociate,
       CopyIter, GcMinor, Gc, BeginCopy, CopyNext, EndCopy

\* Initially the table is empty.
LEMMA TabInit == Init => TabInv
<1> SUFFICES ASSUME Init PROVE TabInv
  OBVIOUS
<1> DEFINE v == Empty(FirstMask)
<1>1. /\ IsTable(v) /\ Sound(v) /\ HasRoom(v) /\ Occupied(v) = {}
  BY EmptyFacts, HashAssumption
<1>2. tabs = <<v>> /\ count = 0
  BY DEF Init
<1>3. v \in Tables
  BY <1>1 DEF IsTable, Tables
<1> HIDE DEF v
<1>4. tabs \in Seq(Tables) /\ Len(tabs) = 1 /\ tabs[1] = v
  BY <1>2, <1>3
<1>5. Cardinality(Occupied(v)) = 0
  BY <1>1, FS_EmptySet
<1> QED BY <1>1, <1>2, <1>4, <1>5 DEF TabInv, Vec, Cur

\* Every step keeps the table sound.
LEMMA TabStep ==
  ASSUME TabInv, [Next]_vars
  PROVE  TabInv'
<1> DEFINE now == tabs'[Len(tabs')]
           size == Cardinality(Occupied(Vec))
<1>1. SUFFICES /\ tabs' \in Seq(Tables) /\ Len(tabs') > 0
               /\ Sound(now) /\ HasRoom(now)
               /\ count' \in Nat /\ Cardinality(Occupied(now)) <= count'
               /\ ~Weak \/ "gc" \notin program
                    => count' = Cardinality(Occupied(now))
  BY ProgramKept DEF TabInv, Vec, Cur
<1>2. /\ Cur \in Nat \ {0} /\ IsTable(Vec) /\ Sound(Vec) /\ HasRoom(Vec)
      /\ count \in Nat /\ size <= count
      /\ ~Weak \/ "gc" \notin program => count = size
      /\ tabs \in Seq(Tables) /\ Cur = Len(tabs) /\ Vec = tabs[Cur]
  BY TabFacts DEF TabInv, Vec, Cur
<1>3. /\ IsFiniteSet(CellsOf(Vec)) /\ Cardinality(CellsOf(Vec)) = size
      /\ size \in Nat
  BY <1>2, EntryCount
<1>4. ASSUME tabs' \in Seq(Tables), Len(tabs') > 0, Sound(now)
      PROVE  Cardinality(Occupied(now)) = Cardinality(CellsOf(now))
  <2>1. IsTable(now)
    BY <1>4 DEF Tables, IsTable
  <2> HIDE DEF now
  <2> QED BY <1>4, <2>1, EntryCount
<1>5. CASE \E k \in Key : Insert(k)
  <2> PICK k \in Key : Insert(k)
    BY <1>5
  <2>1. /\ tabs' \in Seq(Tables) /\ Len(tabs') \in {Cur, Cur + 1}
        /\ Sound(now) /\ HasRoom(now)
        /\ CellsOf(now) = CellsOf(Vec) \cup {NewCell(k)}
        /\ NewCell(k) \notin CellsOf(Vec)
    BY InsertEffect
  <2>2. count' = count + 1
    BY DEF Insert
  <2> HIDE DEF now
  <2>3. Cardinality(CellsOf(now)) = size + 1
    BY <1>3, <2>1, FS_AddElement
  <2>4. Len(tabs') > 0
    BY <1>2, <2>1
  <2>5. Cardinality(Occupied(now)) = size + 1
    BY <1>4, <2>1, <2>3, <2>4
  <2> HIDE DEF size
  <2> QED BY <1>2, <1>3, <2>1, <2>2, <2>4, <2>5
<1>6. CASE \E k \in Key : Remhash(k)
  <2> PICK k \in Key : Remhash(k)
    BY <1>6
  <2>1. /\ tabs' \in Seq(Tables) /\ Len(tabs') = Cur
        /\ Sound(tabs'[Cur]) /\ HasRoom(tabs'[Cur])
        /\ \E c \in CellsOf(Vec) :
             c[1] = k /\ CellsOf(tabs'[Cur]) = CellsOf(Vec) \ {c}
    BY RemhashEffect
  <2>2. count' = count - 1
    BY DEF Remhash
  <2>3. PICK c \in CellsOf(Vec) : CellsOf(now) = CellsOf(Vec) \ {c}
    BY <2>1
  <2>4. Sound(now) /\ HasRoom(now) /\ Len(tabs') > 0
    BY <1>2, <2>1
  <2> HIDE DEF now
  <2>5. Cardinality(CellsOf(now)) = size - 1
    BY <1>3, <2>3, FS_RemoveElement
  <2>6. Cardinality(CellsOf(now)) \in Nat
    BY <1>3, <2>3, FS_RemoveElement, FS_CardinalityType
  <2>7. Cardinality(Occupied(now)) = size - 1
    BY <1>4, <2>1, <2>4, <2>5
  <2> HIDE DEF size
  <2> QED BY <1>2, <1>3, <2>1, <2>2, <2>4, <2>5, <2>6, <2>7
<1>7. CASE Clearhash
  <2>1. /\ tabs' \in Seq(Tables) /\ Len(tabs') = Cur + 1
        /\ Sound(now) /\ HasRoom(now) /\ Occupied(now) = {}
    BY <1>7, ClearEffect
  <2>2. count' = 0
    BY <1>7 DEF Clearhash
  <2> HIDE DEF now
  <2>3. Cardinality(Occupied(now)) = 0
    BY <2>1, FS_EmptySet
  <2> QED BY <1>2, <2>1, <2>2, <2>3
<1>8. CASE \E kept \in SUBSET (Iter \ Stacked), dead \in SUBSET Key :
             Gc(kept, dead)
  <2> PICK kept \in SUBSET (Iter \ Stacked), dead \in SUBSET Key :
             Gc(kept, dead)
    BY <1>8
  <2>1. /\ tabs' \in Seq(Tables) /\ Len(tabs') = Cur
        /\ Sound(tabs'[Cur]) /\ HasRoom(tabs'[Cur])
        /\ count' \in Nat /\ Cardinality(Occupied(tabs'[Cur])) <= count'
        /\ ~Weak => count' = count /\ tabs' = tabs
    BY GcEffect
  <2>2. "gc" \in program
    BY DEF Gc
  <2> QED BY <1>2, <2>1, <2>2
<1>9. CASE tabs' = tabs /\ count' = count
  BY <1>2, <1>9
<1> QED BY <1>5, <1>6, <1>7, <1>8, <1>9, OtherSteps

\* The current table is sound, has an empty slot, and does not have more
\* entries than are counted: hash_grow, hash_remove and do_weak_tables keep
\* the open addressing of the table intact, whatever the hash codes are and
\* whichever entries share a cluster.  The sweep may count an entry twice that
\* a removal has moved round the end of the table, but never too few.
THEOREM TableInvariance == Spec => []TabInv
<1>1. TabInv /\ [Next]_vars => TabInv'
  BY TabStep
<1> QED BY <1>1, TabInit, PTL DEF Spec

\* Every entry is found: gethash_c's search for its key (hash.c) ends at it,
\* after any sequence of insertions with growth, removals with back shift,
\* purges, iterations and weak sweeps.
THEOREM EntriesFound == Spec => []TableSound
<1>1. TabInv => TableSound
  <2> SUFFICES ASSUME TabInv PROVE Findable(Vec)
    BY DEF TableSound
  <2>1. IsTable(Vec) /\ Sound(Vec)
    BY TabFacts DEF TabInv
  <2> QED BY <2>1, SoundFindable
<1> QED BY <1>1, TableInvariance, PTL

\* The weak sweep of do_weak_tables, which removes entries from the table it
\* runs over, takes out the entries of all the dead keys and of no others.
THEOREM SweepRemovesTheDead == Spec => []SweepExact
<1>1. TabInv => SweepExact
  <2> SUFFICES ASSUME TabInv, NEW dead \in SUBSET Key
               PROVE  CellsOf(Swept(Vec, dead).vec)
                        = {c \in CellsOf(Vec) : c[1] \notin dead}
    BY DEF SweepExact
  <2>1. IsTable(Vec) /\ Sound(Vec) /\ HasRoom(Vec)
    BY TabFacts DEF TabInv
  <2> QED BY <2>1, SweptFacts
<1> QED BY <1>1, TableInvariance, PTL

-----------------------------------------------------------------------------
\* The keys present.
Keys == {c[1] : c \in CellsOf(Vec)}

\* A program that reads the count, as clearhash does, does not explore weak
\* sweeps.
CountKept == Weak => \A p \in Programs : ~({"clear", "gc"} \subseteq p)

\* The invariant of the refinement.
MapInv == TabInv /\ program \in Programs

\* What the refinement rests on.
LEMMA MapInvariance == Spec => []MapInv
<1>1. Init => program \in Programs
  BY DEF Init
<1>2. program \in Programs /\ [Next]_vars => (program \in Programs)'
  BY ProgramKept
<1>3. Spec => [](program \in Programs)
  BY <1>1, <1>2, PTL DEF Spec
<1> QED BY <1>3, TableInvariance, PTL DEF MapInv

\* Every step is one of the set of keys, or leaves it as it is.
LEMMA MapStep ==
  ASSUME CountKept, MapInv, [Next]_vars
  PROVE  [Map!Next]_(Map!mapVars)
<1> DEFINE now == CellsOf(tabs'[Len(tabs')])
<1>0. Keys' = {c[1] : c \in now}
  BY DEF Keys, Vec, Cur
<1>1. TabInv /\ Vec = tabs[Len(tabs)] /\ Cur = Len(tabs)
  BY DEF MapInv, Vec, Cur
<1>2. SUFFICES \/ Map!Put \/ Map!Delete \/ Map!Lookup \/ Map!Clear \/ Map!Lapse
               \/ Keys' = Keys /\ answer' = answer
  BY DEF Map!Next, Map!mapVars, Keys
<1>3. \A k \in Key : /\ Found(Vec, k) => k \in Keys
                     /\ ~Found(Vec, k) => k \notin Keys
  <2> SUFFICES ASSUME NEW k \in Key
               PROVE  /\ Found(Vec, k) => k \in Keys
                      /\ ~Found(Vec, k) => k \notin Keys
    OBVIOUS
  <2>1. ASSUME Found(Vec, k) PROVE k \in Keys
    <3>1. Stop(Vec, k) \in Occupied(Vec) /\ At(Vec, Stop(Vec, k))[1] = k
      BY <1>1, <2>1, FoundFacts
    <3> QED BY <3>1 DEF Keys, CellsOf
  <2>2. ASSUME ~Found(Vec, k) PROVE k \notin Keys
    <3>1. \A c \in CellsOf(Vec) : c[1] # k
      BY <1>1, <2>2, FoundFacts
    <3> QED BY <3>1 DEF Keys
  <2> QED BY <2>1, <2>2
<1>4. ASSUME NEW k \in Key, Insert(k) PROVE Map!Put
  <2>1. now = CellsOf(Vec) \cup {NewCell(k)} /\ NewCell(k)[1] = k
    BY <1>1, <1>4, InsertEffect
  <2>2. Keys' = Keys \cup {k}
    <3> HIDE DEF now
    <3> QED BY <1>0, <2>1 DEF Keys
  <2>3. k \notin Keys /\ answer' = <<"new", 0>>
    BY <1>3, <1>4 DEF Insert
  <2> QED BY <2>2, <2>3 DEF Map!Put, Keys
<1>5. ASSUME NEW k \in Key, Reinsert(k) PROVE Map!Put
  <2>1. k \in Keys /\ answer' = <<"old", 0>> /\ tabs' = tabs
    BY <1>3, <1>5 DEF Reinsert, table
  <2>2. Keys' = Keys \cup {k}
    BY <2>1 DEF Keys, Vec, Cur
  <2> QED BY <2>1, <2>2 DEF Map!Put, Keys
<1>6. ASSUME NEW k \in Key, Gethash(k) PROVE Map!Lookup
  <2>1. tabs' = tabs
        /\ answer' = IF k \in Keys THEN <<"found", 0>> ELSE <<"absent", 0>>
    BY <1>3, <1>6 DEF Gethash, table
  <2>2. Keys' = Keys
    BY <2>1 DEF Keys, Vec, Cur
  <2> QED BY <2>1, <2>2 DEF Map!Lookup, Keys
<1>7. ASSUME NEW k \in Key, Remhash(k) PROVE Map!Delete
  <2>1. k \in Keys /\ answer' = <<"found", 0>>
    BY <1>3, <1>7 DEF Remhash
  <2>2. /\ Len(tabs') = Cur
        /\ \E c \in CellsOf(Vec) :
             c[1] = k /\ CellsOf(tabs'[Cur]) = CellsOf(Vec) \ {c}
        /\ \A c \in CellsOf(tabs'[Cur]) : c[1] # k
    BY <1>1, <1>7, RemhashEffect
  <2>3. Keys' = Keys \ {k}
    BY <1>0, <2>2 DEF Keys
  <2> QED BY <2>1, <2>3 DEF Map!Delete, Keys
<1>8. ASSUME NEW k \in Key, RemhashAbsent(k) PROVE Map!Delete
  <2>1. k \notin Keys /\ answer' = <<"absent", 0>> /\ tabs' = tabs
    BY <1>3, <1>8 DEF RemhashAbsent, table
  <2>2. Keys' = Keys \ {k}
    BY <2>1 DEF Keys, Vec, Cur
  <2> QED BY <2>1, <2>2 DEF Map!Delete, Keys
<1>9. ASSUME Clearhash PROVE Map!Clear
  <2>1. now = {}
    BY <1>1, <1>9, ClearEffect
  <2>2. Keys' = {}
    BY <1>0, <2>1
  <2>3. "clear" \in program /\ answer' = <<"cleared", count>>
    BY <1>9 DEF Clearhash
  <2>4. count = Cardinality(Occupied(Vec))
    BY <2>3 DEF CountKept, MapInv, TabInv
  <2>5. Cardinality(Keys) = Cardinality(Occupied(Vec))
    <3>1. IsTable(Vec) /\ Sound(Vec)
      BY <1>1, TabFacts DEF TabInv
    <3> QED BY <3>1, EntryCount DEF Keys
  <2>6. answer' = <<"cleared", Cardinality(Keys)>>
    <3>1. count = Cardinality(Keys)
      BY <2>4, <2>5
    <3> QED BY <2>3, <3>1
  <2>7. Map!Cardinality(Keys) = Cardinality(Keys)
    BY DEF Map!Cardinality, Cardinality
  <2> QED BY <2>2, <2>6, <2>7 DEF Map!Clear, Keys
<1>10. ASSUME NEW kept \in SUBSET (Iter \ Stacked), NEW dead \in SUBSET Key,
              Gc(kept, dead)
       PROVE  Map!Lapse
  <2>1. Len(tabs') = Cur /\ CellsOf(tabs'[Cur]) \subseteq CellsOf(Vec)
    BY <1>1, <1>10, GcEffect
  <2>2. Keys' \subseteq Keys
    BY <1>0, <2>1 DEF Keys
  <2>3. answer' = answer
    BY <1>10 DEF Gc
  <2> QED BY <2>2, <2>3 DEF Map!Lapse, Keys
<1>11. ASSUME tabs' = tabs, answer' = answer
       PROVE  Keys' = Keys /\ answer' = answer
  BY <1>11 DEF Keys, Vec, Cur
<1>12. ASSUME \/ \E i \in Iter : \/ Begin(i) \/ Visit(i) \/ Exhaust(i)
                                 \/ ResetAway(i) \/ ResetHere(i)
                                 \/ Dissociate(i)
              \/ \E i, j \in Iter : CopyIter(i, j)
              \/ \E kept \in SUBSET (Iter \ Stacked) : GcMinor(kept)
              \/ BeginCopy \/ CopyNext \/ EndCopy \/ UNCHANGED vars
       PROVE  Keys' = Keys /\ answer' = answer
  <2>1. tabs' = tabs /\ answer' = answer
    BY <1>12 DEF Begin, Visit, Exhaust, ResetAway, ResetHere, Dissociate,
                 CopyIter, GcMinor, BeginCopy, CopyNext, EndCopy, table, vars
  <2> QED BY <1>11, <2>1
<1> HIDE DEF now
<1> QED BY <1>4, <1>5, <1>6, <1>7, <1>8, <1>9, <1>10, <1>12 DEF Next

\* The hash table implements a set of keys: each operation answers as it would
\* with a set.  What clearhash returns is the number of keys only if no weak
\* sweep has run, as that may count an entry twice.
THEOREM SetOfKeys == CountKept => (Spec => Implements)
<1> SUFFICES ASSUME CountKept PROVE Spec => Implements
  OBVIOUS
<1>1. Init => Map!Init
  <2> SUFFICES ASSUME Init PROVE Map!Init
    OBVIOUS
  <2>1. Vec = Empty(FirstMask)
    BY DEF Init, Vec, Cur
  <2>2. CellsOf(Vec) = {}
    BY <2>1, EmptyFacts, HashAssumption
  <2>3. answer = <<"none", 0>>
    BY DEF Init
  <2> QED BY <2>2, <2>3 DEF Map!Init
<1>2. MapInv /\ [Next]_vars => [Map!Next]_(Map!mapVars)
  BY MapStep
<1> QED BY <1>1, <1>2, MapInvariance, PTL DEF Spec, Implements, Map!Spec

-----------------------------------------------------------------------------
\* Iterators, whatever they are on.
Iterators ==
  [of : {"nothing", "hash", "other"}, tab : Nat, index : Nat,
   begun : SUBSET Cell, seen : SUBSET Cell, twice : BOOLEAN, removal : BOOLEAN]

\* An iterator in the midst of table v: the cells there are distinct; those it
\* has met are before its index; those there when it began are still there,
\* and it has met the ones that it has passed.
OnTrack(v, it) ==
  /\ \A a, b \in Occupied(v) : At(v, a) = At(v, b) => a = b
  /\ \A x \in it.seen : \E j \in Occupied(v) : j < it.index /\ x = At(v, j)
  /\ it.begun \subseteq CellsOf(v)
  /\ \A j \in Occupied(v) :
       j < it.index /\ At(v, j) \in it.begun => At(v, j) \in it.seen
  /\ ~it.twice

\* Every traversal during which no entry has been removed is on its track.
IterInv ==
  /\ iter \in [Iter -> Iterators]
  /\ \A i \in Iter : Active(i) =>
       /\ iter[i].tab \in 1 .. Cur
       /\ ~iter[i].removal => OnTrack(tabs[iter[i].tab], iter[i])

\* An iterator that is on no hash.
LEMMA NoIterType == NoIter \in Iterators /\ NoIter.of = "nothing"
BY DEF NoIter, Iterators

\* An iterator that is on another hash.
LEMMA AwayType ==
  [NoIter EXCEPT !.of = "other"] \in Iterators
    /\ [NoIter EXCEPT !.of = "other"].of = "other"
BY DEF NoIter, Iterators

\* A traversal that begins is on its track.
LEMMA StartedOnTrack ==
  ASSUME TabInv
  PROVE  /\ Started \in Iterators /\ Started.tab = Cur
         /\ OnTrack(Vec, Started)
<1>1. Cur \in Nat \ {0} /\ IsTable(Vec) /\ Sound(Vec)
  BY TabFacts DEF TabInv
<1>2. CellsOf(Vec) \subseteq Cell /\ Occupied(Vec) \subseteq Nat
  BY <1>1, TableFacts
<1>3. Started \in Iterators
  BY <1>1, <1>2 DEF Started, Iterators
<1>4. /\ Started.tab = Cur /\ Started.index = 0 /\ Started.seen = {}
      /\ Started.begun = CellsOf(Vec) /\ Started.twice = FALSE
  BY DEF Started
<1>5. \A a, b \in Occupied(Vec) : At(Vec, a) = At(Vec, b) => a = b
  BY <1>1, SoundDistinct
<1>6. \A j \in Occupied(Vec) : ~(j < 0)
  BY <1>2
<1> QED BY <1>3, <1>4, <1>5, <1>6 DEF OnTrack

\* An iterator with other fields.
LEMMA IteratorWith ==
  ASSUME NEW it \in Iterators, NEW k \in Nat, NEW T \in SUBSET Cell,
         NEW b \in BOOLEAN
  PROVE  /\ [it EXCEPT !.index = k, !.seen = T, !.twice = b] \in Iterators
         /\ [it EXCEPT !.removal = b] \in Iterators
BY DEF Iterators

\* What a visit makes of an iterator.
LEMMA VisitedFacts ==
  ASSUME NEW it \in Iterators, NEW j \in Nat, NEW c \in Cell
  PROVE  /\ Visited(it, j, c) \in Iterators
         /\ Visited(it, j, c).of = it.of /\ Visited(it, j, c).tab = it.tab
         /\ Visited(it, j, c).begun = it.begun
         /\ Visited(it, j, c).index = j + 1
         /\ Visited(it, j, c).seen = it.seen \cup {c}
         /\ Visited(it, j, c).twice = (it.twice \/ c \in it.seen)
         /\ Visited(it, j, c).removal = it.removal
<1> DEFINE b == it.twice \/ c \in it.seen
           T == it.seen \cup {c}
           k == j + 1
<1>1. Visited(it, j, c) \in Iterators
  <2>1. b \in BOOLEAN /\ k \in Nat
    OBVIOUS
  <2>2. T \in SUBSET Cell
    BY DEF Iterators
  <2>3. Visited(it, j, c) = [it EXCEPT !.index = k, !.seen = T, !.twice = b]
    BY DEF Visited
  <2>4. [it EXCEPT !.index = k, !.seen = T, !.twice = b] \in Iterators
    <3> HIDE DEF b, T, k
    <3> QED BY <2>1, <2>2, IteratorWith
  <2> QED BY <2>3, <2>4
<1>2. /\ Visited(it, j, c).of = it.of /\ Visited(it, j, c).tab = it.tab
      /\ Visited(it, j, c).begun = it.begun
      /\ Visited(it, j, c).index = j + 1
      /\ Visited(it, j, c).seen = it.seen \cup {c}
  BY DEF Visited, Iterators
<1>3. Visited(it, j, c).twice = b
  BY DEF Visited, Iterators
<1>4. Visited(it, j, c).removal = it.removal
  BY DEF Visited, Iterators
<1> QED BY <1>1, <1>2, <1>3, <1>4

\* The next slot is the first occupied one from the index on.
LEMMA NextSlotIs ==
  ASSUME NEW i \in Iter, IsTable(IterVec(i)), Ahead(i) # {},
         iter[i].index \in Nat
  PROVE  /\ NextSlot(i) \in Occupied(IterVec(i))
         /\ NextSlot(i) >= iter[i].index
         /\ \A j \in Occupied(IterVec(i)) :
              j >= iter[i].index => NextSlot(i) <= j
<1>1. Ahead(i) \subseteq Nat
  BY TableFacts DEF Ahead
<1>2. \E j \in Ahead(i) : \A k \in Ahead(i) : j <= k
  BY <1>1, LeastNat
<1>3. NextSlot(i) \in Ahead(i) /\ \A k \in Ahead(i) : NextSlot(i) <= k
  BY <1>2 DEF NextSlot
<1> QED BY <1>3 DEF Ahead

\* A visit keeps a traversal on its track.
LEMMA VisitOnTrack ==
  ASSUME NEW v, IsTable(v), NEW it \in Iterators, OnTrack(v, it),
         NEW j \in Occupied(v), j >= it.index,
         \A m \in Occupied(v) : m >= it.index => j <= m
  PROVE  OnTrack(v, Visited(it, j, At(v, j)))
<1> DEFINE c == At(v, j)
           new == Visited(it, j, c)
<1>1. j \in Nat /\ c \in Cell /\ it.index \in Nat /\ Occupied(v) \subseteq Nat
  BY TableFacts DEF Iterators
<1>2. /\ new.begun = it.begun /\ new.index = j + 1
      /\ new.seen = it.seen \cup {c}
      /\ new.twice = (it.twice \/ c \in it.seen)
  BY <1>1, VisitedFacts
<1> HIDE DEF new
<1>3. /\ \A a, b \in Occupied(v) : At(v, a) = At(v, b) => a = b
      /\ \A x \in it.seen : \E m \in Occupied(v) : m < it.index /\ x = At(v, m)
      /\ it.begun \subseteq CellsOf(v)
      /\ \A m \in Occupied(v) :
           m < it.index /\ At(v, m) \in it.begun => At(v, m) \in it.seen
      /\ ~it.twice
  BY DEF OnTrack
<1>4. c \notin it.seen
  BY <1>1, <1>3
<1>5. ~new.twice
  BY <1>2, <1>3, <1>4
<1>6. \A m \in Occupied(v) : m < j + 1 => m < it.index \/ m = j
  BY <1>1
<1>7. \A x \in new.seen : \E m \in Occupied(v) : m < j + 1 /\ x = At(v, m)
  BY <1>1, <1>2, <1>3
<1>8. \A m \in Occupied(v) :
        m < j + 1 /\ At(v, m) \in it.begun => At(v, m) \in new.seen
  BY <1>2, <1>3, <1>6
<1> QED BY <1>2, <1>3, <1>5, <1>7, <1>8 DEF OnTrack, new

\* What holds of an active iterator.
Tracked(it) ==
  it.of = "hash" => /\ it.tab \in 1 .. Cur
                    /\ ~it.removal => OnTrack(tabs[it.tab], it)

\* The invariant, iterator by iterator.
LEMMA IterInvIs ==
  /\ IterInv <=> /\ iter \in [Iter -> Iterators]
                 /\ \A i \in Iter : Tracked(iter[i])
BY DEF IterInv, Tracked, Active

\* A step that changes iterators, each to one that is on its track.
LEMMA IterChanged ==
  ASSUME tabs' = tabs, iter' \in [Iter -> Iterators],
         \A i \in Iter : Tracked(iter'[i])
  PROVE  IterInv'
BY DEF IterInv, Tracked, Active, Cur

\* A new key is in no traversal's past, wherever its cell goes.
LEMMA InsertKeepsTrack ==
  ASSUME TabInv, IterInv, NEW k \in Key, Insert(k)
  PROVE  IterInv'
<1> DEFINE c == NewCell(k)
           s == Stop(Vec, k)
           v == tabs'[Cur]
<1>1. /\ c \in NewCells(k)
      /\ Len(tabs') \in {Cur, Cur + 1}
      /\ \A t \in 1 .. Cur - 1 : tabs'[t] = tabs[t]
      /\ Occupied(v) = Occupied(Vec) \cup {s} /\ s \notin Occupied(Vec)
      /\ At(v, s) = c
      /\ \A j \in Occupied(Vec) : At(v, j) = At(Vec, j)
      /\ CellsOf(v) = CellsOf(Vec) \cup {c}
  BY InsertEffect
<1>2. Cur \in Nat \ {0} /\ Vec = tabs[Cur] /\ iter' = iter
  BY TabFacts DEF Vec, Insert
<1>3. iter \in [Iter -> Iterators] /\ \A i \in Iter : Tracked(iter[i])
  BY IterInvIs
<1>4. SUFFICES ASSUME NEW i \in Iter, iter[i].of = "hash"
               PROVE  /\ iter[i].tab \in 1 .. Len(tabs')
                      /\ ~iter[i].removal
                           => OnTrack(tabs'[iter[i].tab], iter[i])
  BY <1>2, <1>3 DEF IterInv, Active, Cur
<1>5. iter[i].tab \in 1 .. Cur
      /\ (~iter[i].removal => OnTrack(tabs[iter[i].tab], iter[i]))
  BY <1>3, <1>4 DEF Tracked
<1>6. iter[i].tab \in 1 .. Len(tabs')
  BY <1>1, <1>2, <1>5
<1>7. c \notin iter[i].begun \cup iter[i].seen /\ c \notin CellsOf(Vec)
  BY <1>1, <1>2 DEF NewCells
<1> HIDE DEF c, s, v
<1>8. CASE iter[i].tab # Cur
  BY <1>1, <1>2, <1>5, <1>6, <1>8
<1>9. CASE iter[i].tab = Cur
  <2> SUFFICES ASSUME ~iter[i].removal, OnTrack(Vec, iter[i])
               PROVE  OnTrack(v, iter[i])
    BY <1>2, <1>5, <1>6, <1>9 DEF v
  <2>1. \A j \in Occupied(Vec) : At(Vec, j) # c
    BY <1>7 DEF CellsOf
  <2>2. \A a, b \in Occupied(v) : At(v, a) = At(v, b) => a = b
    BY <1>1, <2>1 DEF OnTrack, v
  <2>3. \A x \in iter[i].seen :
          \E j \in Occupied(v) : j < iter[i].index /\ x = At(v, j)
    BY <1>1 DEF OnTrack, v
  <2>4. iter[i].begun \subseteq CellsOf(v)
    BY <1>1 DEF OnTrack, v
  <2>5. \A j \in Occupied(v) :
          j < iter[i].index /\ At(v, j) \in iter[i].begun
          => At(v, j) \in iter[i].seen
    BY <1>1, <1>7 DEF OnTrack, v
  <2> QED BY <2>2, <2>3, <2>4, <2>5 DEF OnTrack
<1> QED BY <1>8, <1>9

\* A removal is held against every traversal under way.
LEMMA RemhashKeepsTrack ==
  ASSUME TabInv, IterInv, NEW k \in Key, Remhash(k)
  PROVE  IterInv'
<1>1. /\ Len(tabs') = Cur
      /\ iter' = [i \in Iter |-> [iter[i] EXCEPT !.removal = @ \/ Active(i)]]
  BY RemhashEffect DEF Remhash
<1>2. iter \in [Iter -> Iterators] /\ \A i \in Iter : Tracked(iter[i])
  BY IterInvIs
<1>3. ASSUME NEW i \in Iter
      PROVE  /\ iter'[i] \in Iterators
             /\ iter'[i].of = iter[i].of /\ iter'[i].tab = iter[i].tab
             /\ iter[i].of = "hash" => iter'[i].removal
  <2> DEFINE b == iter[i].removal \/ Active(i)
  <2>1. b \in BOOLEAN /\ (iter[i].of = "hash" => b)
    BY DEF Active
  <2>2. iter'[i] = [iter[i] EXCEPT !.removal = b]
    BY <1>1
  <2>3. iter[i] \in Iterators
    BY <1>2
  <2> HIDE DEF b
  <2>4. [iter[i] EXCEPT !.removal = b] \in Iterators
    <3>1. \A it \in Iterators, f \in BOOLEAN :
            [it EXCEPT !.removal = f] \in Iterators
      BY DEF Iterators
    <3> QED BY <2>1, <2>3, <3>1
  <2>5. /\ [iter[i] EXCEPT !.removal = b].of = iter[i].of
        /\ [iter[i] EXCEPT !.removal = b].tab = iter[i].tab
    BY <2>3 DEF Iterators
  <2>6. [iter[i] EXCEPT !.removal = b].removal = b
    BY <2>3 DEF Iterators
  <2> QED BY <2>1, <2>2, <2>4, <2>5, <2>6
<1>4. iter' \in [Iter -> Iterators]
  BY <1>1, <1>3
<1> QED BY <1>1, <1>2, <1>3, <1>4 DEF IterInv, Tracked, Active, Cur

\* clearhash leaves the tables of iterators as they are.
LEMMA ClearKeepsTrack ==
  ASSUME TabInv, IterInv, Clearhash
  PROVE  IterInv'
<1>1. Len(tabs') = Cur + 1 /\ \A t \in 1 .. Cur : tabs'[t] = tabs[t]
  BY ClearEffect
<1>2. Cur \in Nat /\ iter' = iter
  BY TabFacts DEF Clearhash
<1>3. 1 .. Cur \subseteq 1 .. Cur + 1
  BY <1>2
<1>4. iter \in [Iter -> Iterators] /\ \A i \in Iter : Tracked(iter[i])
  BY IterInvIs
<1> QED BY <1>1, <1>2, <1>3, <1>4 DEF IterInv, Tracked, Active, Cur

\* A collection leaves the tables of the iterators that it keeps.
LEMMA GcKeepsTrack ==
  ASSUME TabInv, IterInv, NEW kept \in SUBSET (Iter \ Stacked),
         NEW dead \in SUBSET Key, Gc(kept, dead)
  PROVE  IterInv'
<1>1. /\ Len(tabs') = Cur
      /\ \A t \in 1 .. Cur : t # Cur => tabs'[t] = tabs[t]
      /\ \/ tabs' = tabs
         \/ /\ \A i \in kept : Active(i) => iter[i].tab # Cur
            /\ \A i \in Stacked : Active(i) => iter[i].tab # Cur
  BY GcEffect
<1>2. iter' = [i \in Iter |->
                 IF i \in kept \cup Stacked THEN iter[i] ELSE NoIter]
  BY DEF Gc
<1>3. iter \in [Iter -> Iterators] /\ \A i \in Iter : Tracked(iter[i])
  BY IterInvIs
<1>4. iter' \in [Iter -> Iterators]
  BY <1>2, <1>3, NoIterType
<1>5. SUFFICES ASSUME NEW i \in Iter, iter'[i].of = "hash"
               PROVE  /\ iter'[i].tab \in 1 .. Len(tabs')
                      /\ ~iter'[i].removal
                           => OnTrack(tabs'[iter'[i].tab], iter'[i])
  BY <1>4 DEF IterInv, Active, Cur
<1>6. i \in kept \cup Stacked /\ iter'[i] = iter[i]
  BY <1>2, <1>5, NoIterType
<1>7. tabs'[iter[i].tab] = tabs[iter[i].tab] /\ iter[i].tab \in 1 .. Cur
  <2>1. iter[i].tab \in 1 .. Cur /\ Active(i)
    BY <1>3, <1>5, <1>6 DEF Tracked, Active
  <2> QED BY <1>1, <1>6, <2>1
<1> QED BY <1>1, <1>3, <1>5, <1>6, <1>7 DEF Tracked

\* Every step keeps every traversal on its track.
LEMMA IterStep ==
  ASSUME TabInv, IterInv, [Next]_vars
  PROVE  IterInv'
<1>1. iter \in [Iter -> Iterators] /\ \A i \in Iter : Tracked(iter[i])
  BY IterInvIs
<1>2. ASSUME tabs' = tabs, NEW i \in Iter, NEW it \in Iterators, Tracked(it),
             iter' = [iter EXCEPT ![i] = it]
      PROVE  IterInv'
  <2>1. iter' \in [Iter -> Iterators] /\ iter'[i] = it
        /\ \A j \in Iter : j # i => iter'[j] = iter[j]
    BY <1>1, <1>2
  <2>2. \A j \in Iter : Tracked(iter'[j])
    BY <1>1, <1>2, <2>1
  <2> QED BY <1>2, <2>1, <2>2, IterChanged
<1>3. ASSUME NEW kept, iter' = [j \in Iter |-> IF j \in kept \cup Stacked
                                               THEN iter[j] ELSE NoIter],
             tabs' = tabs
      PROVE  IterInv'
  <2>1. iter' \in [Iter -> Iterators]
    BY <1>1, <1>3, NoIterType
  <2>2. \A j \in Iter : Tracked(iter'[j])
    BY <1>1, <1>3, NoIterType DEF Tracked
  <2> QED BY <1>3, <2>1, <2>2, IterChanged
<1>4. ASSUME iter' = iter, tabs' = tabs PROVE IterInv'
  BY <1>4 DEF IterInv, Active, Cur
<1>5. Started \in Iterators /\ Tracked(Started)
  <2>1. /\ Started \in Iterators /\ Started.tab = Cur /\ OnTrack(Vec, Started)
        /\ Cur \in Nat \ {0} /\ Vec = tabs[Cur]
    BY StartedOnTrack, TabFacts DEF Vec
  <2> QED BY <2>1 DEF Tracked
<1>6. NoIter \in Iterators /\ Tracked(NoIter)
  BY NoIterType DEF Tracked
<1>7. ASSUME NEW i \in Iter, Begin(i) PROVE IterInv'
  BY <1>2, <1>5, <1>7 DEF Begin, table
<1>8. ASSUME NEW i \in Iter, Visit(i) PROVE IterInv'
  <2> DEFINE j == NextSlot(i)
             v == IterVec(i)
             it == Visited(iter[i], j, At(v, j))
  <2>1. tabs' = tabs /\ iter' = [iter EXCEPT ![i] = it]
        /\ Ahead(i) # {} /\ iter[i].of = "hash"
    BY <1>8 DEF Visit, table, Active
  <2>2. iter[i] \in Iterators /\ iter[i].tab \in 1 .. Cur
        /\ (~iter[i].removal => OnTrack(v, iter[i]))
    BY <1>1, <2>1 DEF Tracked, IterVec
  <2>3. IsTable(v)
    BY <2>2, TabFacts DEF IterVec
  <2>4. iter[i].index \in Nat
    BY <2>2 DEF Iterators
  <2>5. /\ j \in Occupied(v) /\ j >= iter[i].index
        /\ \A m \in Occupied(v) : m >= iter[i].index => j <= m
    BY <2>1, <2>3, <2>4, NextSlotIs
  <2>6. j \in Nat /\ At(v, j) \in Cell
    BY <2>3, <2>5, TableFacts
  <2> HIDE DEF j, v
  <2>7. /\ it \in Iterators /\ it.of = iter[i].of /\ it.tab = iter[i].tab
        /\ it.removal = iter[i].removal
    BY <2>2, <2>6, VisitedFacts
  <2>8. ~iter[i].removal => OnTrack(v, it)
    BY <2>2, <2>3, <2>5, VisitOnTrack
  <2> HIDE DEF it
  <2>9. Tracked(it)
    BY <2>2, <2>7, <2>8 DEF Tracked, v, IterVec
  <2> QED BY <1>2, <2>1, <2>7, <2>9
<1>9. ASSUME NEW i \in Iter, Exhaust(i) PROVE IterInv'
  BY <1>2, <1>6, <1>9 DEF Exhaust
<1>10. ASSUME NEW i \in Iter, ResetAway(i) PROVE IterInv'
  <2>1. LET it == [NoIter EXCEPT !.of = "other"]
        IN it \in Iterators /\ Tracked(it)
    BY AwayType DEF Tracked
  <2> QED BY <1>2, <1>10, <2>1 DEF ResetAway, table
<1>11. ASSUME NEW i \in Iter, ResetHere(i) PROVE IterInv'
  BY <1>2, <1>5, <1>11 DEF ResetHere
<1>12. ASSUME NEW i \in Iter, NEW j \in Iter, CopyIter(i, j) PROVE IterInv'
  BY <1>1, <1>2, <1>12 DEF CopyIter, table
<1>13. ASSUME NEW kept, GcMinor(kept) PROVE IterInv'
  BY <1>3, <1>13 DEF GcMinor, table
<1>14. ASSUME \/ \E k \in Key : Reinsert(k) \/ Gethash(k) \/ RemhashAbsent(k)
              \/ \E i \in Iter : Dissociate(i)
              \/ BeginCopy \/ CopyNext \/ EndCopy \/ UNCHANGED vars
       PROVE  IterInv'
  <2>1. iter' = iter /\ tabs' = tabs
    BY <1>14 DEF Reinsert, Gethash, RemhashAbsent, Dissociate, BeginCopy,
                 CopyNext, EndCopy, table, vars
  <2> QED BY <1>4, <2>1
<1> QED BY <1>7, <1>8, <1>9, <1>10, <1>11, <1>12, <1>13, <1>14,
           InsertKeepsTrack, RemhashKeepsTrack, ClearKeepsTrack, GcKeepsTrack
        DEF Next

\* Initially there is no traversal.
LEMMA IterInit == Init => IterInv
<1> SUFFICES ASSUME Init PROVE IterInv
  OBVIOUS
<1>1. iter = [i \in Iter |-> NoIter]
  BY DEF Init
<1> QED BY <1>1, NoIterType DEF IterInv, Active

\* The table that an active iterator is on is kept for it, with all that was in
\* it when the traversal began; it has met the cells before its index.
THEOREM TraversalInvariance == Spec => [](TabInv /\ IterInv)
<1>1. TabInv /\ IterInv /\ [Next]_vars => IterInv'
  BY IterStep
<1> QED BY <1>1, IterInit, TableInvariance, PTL DEF Spec

\* A traversal visits every entry that is there from its beginning to its end,
\* and no entry twice, as long as no entry is removed: whatever is inserted,
\* however the table grows, is cleared or collected, and wherever the iterator
\* is copied or reset (hash_iter_next, hash_grow).
THEOREM EachVisitedOnce == Spec => []VisitsOnce
<1>1. TabInv /\ IterInv => VisitsOnce
  <2> SUFFICES ASSUME TabInv, IterInv, NEW i \in Iter, Active(i),
                      ~iter[i].removal
               PROVE  ~iter[i].twice /\ ~Missed(i)
    BY DEF VisitsOnce
  <2>1. OnTrack(IterVec(i), iter[i]) /\ iter[i].tab \in 1 .. Cur
        /\ iter[i] \in Iterators
    BY DEF IterInv, IterVec
  <2>2. IsTable(IterVec(i))
    BY <2>1, TabFacts DEF IterVec
  <2>3. Occupied(IterVec(i)) \subseteq Nat /\ iter[i].index \in Nat
    BY <2>1, <2>2, TableFacts DEF Iterators
  <2>4. ASSUME Ahead(i) = {} PROVE iter[i].begun \subseteq iter[i].seen
    <3>1. \A j \in Occupied(IterVec(i)) : j < iter[i].index
      BY <2>3, <2>4 DEF Ahead
    <3> QED BY <2>1, <3>1 DEF OnTrack, CellsOf
  <2>5. ~iter[i].twice
    BY <2>1 DEF OnTrack
  <2> QED BY <2>4, <2>5 DEF Missed
<1> QED BY <1>1, TraversalInvariance, PTL

-----------------------------------------------------------------------------
\* The iterators on the hash.
Actives == {i \in Iter : Active(i)}

\* The use count is exact, given how many iterators come to be active.
LEMMA UsesStep ==
  ASSUME IterInv, IterInv', UsesCounted, [Next]_vars
  PROVE  UsesCounted'
<1> DEFINE n == Cardinality(Actives)
<1>1. SUFFICES ASSUME program \cap {"gc", "reset"} = {}
               PROVE  /\ usecount' = Cardinality(Actives')
                      /\ old' # {} => usecount' > 0
  BY ProgramKept DEF UsesCounted, Actives, Active
<1>2. usecount = n /\ (old # {} => usecount > 0)
  BY <1>1 DEF UsesCounted, Actives
<1>3. IsFiniteSet(Actives) /\ n \in Nat
  <2>1. Actives \in SUBSET Iter /\ IsFiniteSet(Iter)
    BY HashAssumption DEF Actives
  <2> QED BY <2>1, FS_Subset, FS_CardinalityType
<1>4. iter \in [Iter -> Iterators] /\ iter' \in [Iter -> Iterators]
  BY DEF IterInv
<1>5. Actives' = {i \in Iter : iter'[i].of = "hash"}
  BY DEF Actives, Active
<1>6. Actives = {i \in Iter : iter[i].of = "hash"}
  BY DEF Actives, Active
<1>7. ASSUME \A i \in Iter : iter'[i].of = iter[i].of PROVE Actives' = Actives
  BY <1>5, <1>6, <1>7
<1>8. ASSUME NEW k \in Key, Insert(k)
      PROVE  /\ usecount' = Cardinality(Actives')
             /\ old' # {} => usecount' > 0
  <2>1. iter' = iter /\ usecount' = usecount
        /\ old' \in {old, {},
                     IF usecount > 0 THEN old \cup {HeldTable} ELSE {}}
    BY <1>8 DEF Insert
  <2> QED BY <1>2, <1>7, <2>1
<1>9. ASSUME NEW k \in Key, Remhash(k)
      PROVE  /\ usecount' = Cardinality(Actives')
             /\ old' # {} => usecount' > 0
  <2>1. usecount' = usecount /\ old' = (IF usecount # 0 THEN old ELSE {})
        /\ iter' = [i \in Iter |-> [iter[i] EXCEPT !.removal = @ \/ Active(i)]]
    BY <1>9 DEF Remhash
  <2>2. \A i \in Iter : iter'[i].of = iter[i].of
    <3>1. \A it \in Iterators : \A f : [it EXCEPT !.removal = f].of = it.of
      BY DEF Iterators
    <3> QED BY <1>4, <2>1, <3>1
  <2> QED BY <1>2, <1>7, <2>1, <2>2
<1>10. ASSUME NEW i \in Iter, Begin(i)
       PROVE  /\ usecount' = Cardinality(Actives')
              /\ old' # {} => usecount' > 0
  <2>1. usecount' = usecount + 1 /\ old' = old
        /\ iter' = [iter EXCEPT ![i] = Started] /\ iter[i].of = "nothing"
    BY <1>10 DEF Begin, table
  <2>2. Started.of = "hash"
    BY DEF Started
  <2>3. Actives' = Actives \cup {i} /\ i \notin Actives
    BY <1>4, <1>5, <1>6, <2>1, <2>2
  <2>4. Cardinality(Actives') = n + 1
    BY <1>3, <2>3, FS_AddElement
  <2> QED BY <1>2, <1>3, <2>1, <2>4
<1>11. ASSUME NEW i \in Iter, Visit(i)
       PROVE  /\ usecount' = Cardinality(Actives')
              /\ old' # {} => usecount' > 0
  <2>1. usecount' = usecount /\ old' = old
        /\ iter' = [iter EXCEPT ![i] =
             Visited(iter[i], NextSlot(i), At(IterVec(i), NextSlot(i)))]
    BY <1>11 DEF Visit, table
  <2>2. \A it \in Iterators : \A j, c : Visited(it, j, c).of = it.of
    BY DEF Visited, Iterators
  <2>3. \A j \in Iter : iter'[j].of = iter[j].of
    BY <1>4, <2>1, <2>2
  <2> QED BY <1>2, <1>7, <2>1, <2>3
<1>12. ASSUME NEW i \in Iter, Exhaust(i)
       PROVE  /\ usecount' = Cardinality(Actives')
              /\ old' # {} => usecount' > 0
  <2>1. usecount' = usecount - 1 /\ old' = OldAfter(usecount')
        /\ iter' = [iter EXCEPT ![i] = NoIter] /\ iter[i].of = "hash"
    BY <1>12 DEF Exhaust, Uncount, Active
  <2>2. Actives' = Actives \ {i} /\ i \in Actives
    BY <1>4, <1>5, <1>6, <2>1, NoIterType
  <2>3. Cardinality(Actives') = n - 1
    BY <1>3, <2>2, FS_RemoveElement
  <2> QED BY <1>2, <1>3, <2>1, <2>3 DEF OldAfter
<1>13. ASSUME NEW i \in Iter, NEW j \in Iter, CopyIter(i, j)
       PROVE  /\ usecount' = Cardinality(Actives')
              /\ old' # {} => usecount' > 0
  <2>1. usecount' = usecount + 1 /\ old' = old
        /\ iter' = [iter EXCEPT ![j] = iter[i]]
        /\ iter[i].of = "hash" /\ iter[j].of = "nothing"
    BY <1>13 DEF CopyIter, table, Active
  <2>2. Actives' = Actives \cup {j} /\ j \notin Actives
    BY <1>4, <1>5, <1>6, <2>1
  <2>3. Cardinality(Actives') = n + 1
    BY <1>3, <2>2, FS_AddElement
  <2> QED BY <1>2, <1>3, <2>1, <2>3
<1>14. ASSUME \/ \E k \in Key : Reinsert(k) \/ Gethash(k) \/ RemhashAbsent(k)
              \/ Clearhash \/ \E i \in Iter : Dissociate(i)
              \/ BeginCopy \/ CopyNext \/ EndCopy \/ UNCHANGED vars
       PROVE  /\ usecount' = Cardinality(Actives')
              /\ old' # {} => usecount' > 0
  <2>1. iter' = iter /\ old' = old /\ usecount' = usecount
    BY <1>14 DEF Reinsert, Gethash, RemhashAbsent, Clearhash, Dissociate,
                 BeginCopy, CopyNext, EndCopy, table, vars
  <2> QED BY <1>2, <1>7, <2>1
<1>15. /\ \A i \in Iter : ~ResetAway(i) /\ ~ResetHere(i)
       /\ \A kept : ~GcMinor(kept) /\ \A dead : ~Gc(kept, dead)
  BY <1>1 DEF ResetAway, ResetHere, GcMinor, Gc
<1> QED BY <1>8, <1>9, <1>10, <1>11, <1>12, <1>13, <1>14, <1>15 DEF Next

\* While nothing is collected and no iterator reset, usecount is the number of
\* active iterators, and old tables are held only while there are any.
THEOREM UsesAreCounted == Spec => []UsesCounted
<1>1. Init => UsesCounted
  <2> SUFFICES ASSUME Init PROVE UsesCounted
    OBVIOUS
  <2>1. {i \in Iter : Active(i)} = {} /\ usecount = 0 /\ old = {}
    BY NoIterType DEF Init, Active
  <2> QED BY <2>1, FS_EmptySet DEF UsesCounted
<1>2. IterInv /\ IterInv' /\ UsesCounted /\ [Next]_vars => UsesCounted'
  BY UsesStep
<1> QED BY <1>1, <1>2, TraversalInvariance, PTL DEF Spec
=============================================================================

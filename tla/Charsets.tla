------------------------------ MODULE Charsets ------------------------------
(***************************************************************************)
(* The character sets of regex.c.  A set of a few close characters is one  *)
(* table of bits, from 0 or displaced to the least of them; a larger one is*)
(* a directory of tables, or of directories, in which a part that is full  *)
(* is not kept.  The sizes are parameters; the program has 8 cells of 32   *)
(* bits, directories of 16 and, at the top, of 17.                         *)
(***************************************************************************)
EXTENDS Integers, SequencesExt

CONSTANTS
  CellBits, Cells,     \* a table has Cells cells
  Fan, TopFan,         \* the entries of a directory, and of the top one
  Zero, Nine           \* the characters of the digits

Entry(kind, part) == [kind |-> kind, part |-> part]
Null == Entry("null", <<>>)
Full == Entry("full", <<>>)

\* The characters of a table, or of a directory of level k, 1 to 3.
Size(k)  == CellBits * Cells * (IF k = 3 THEN Fan * Fan * TopFan ELSE Fan ^ k)
Places(k) == 0..((IF k = 0 THEN Cells ELSE IF k = 3 THEN TopFan ELSE Fan) - 1)
Index(k, ch) == IF k = 0 THEN (ch % Size(0)) \div CellBits
                ELSE (ch % Size(k)) \div Size(k - 1)

\* The first and the last character of the part that ch is in.
Lo(k, ch) == Size(k) * (ch \div Size(k))
Hi(k, ch) == Lo(k, ch) + Size(k) - 1

Blank(k) == IF k = 0 THEN [i \in Places(0) |-> {}] ELSE [i \in Places(k) |-> Null]
IsFull(k, part) ==
  \A i \in Places(k) : IF k = 0 THEN part[i] = 0..(CellBits - 1) ELSE part[i] = Full

\* L0_fill_range
FillCells(part, ch0, ch1) ==
  [i \in Places(0) |->
     IF i \notin Index(0, ch0)..Index(0, ch1) THEN part[i]
     ELSE part[i] \cup ((IF i = Index(0, ch0) THEN ch0 % CellBits ELSE 0)
                        ..(IF i = Index(0, ch1) THEN ch1 % CellBits ELSE CellBits - 1))]

Filled(k, part) == IF IsFull(k, part) THEN Full ELSE Entry("some", part)

RECURSIVE FillRange(_, _, _, _)
\* The part of the range that falls on an entry at one of its ends.
FillPart(k, entry, ch0, ch1) ==
  IF entry = Full THEN Full
  ELSE Filled(k, FillRange(k, IF entry = Null THEN Blank(k) ELSE entry.part, ch0, ch1))

\* L1_fill_range, L2_fill_range and L3_fill_range
FillRange(k, part, ch0, ch1) ==
  LET from == Index(k, ch0)
      to   == Index(k, ch1)
  IN  IF k = 0 THEN FillCells(part, ch0, ch1)
      ELSE [i \in Places(k) |->
              CASE i \notin from..to     -> part[i]
                [] i > from /\ i < to    -> Full
                [] i = from /\ i = to    -> FillPart(k - 1, part[i], ch0, ch1)
                [] i = from /\ from < to -> FillPart(k - 1, part[i], ch0, Hi(k - 1, ch0))
                [] i = to /\ from < to   -> FillPart(k - 1, part[i], Lo(k - 1, ch1), ch1)]

RECURSIVE PartContains(_, _, _)
PartContains(k, part, ch) ==
  LET entry == part[Index(k, ch)] IN
  IF k = 0 THEN ch % CellBits \in entry
  ELSE entry = Full \/ (entry # Null /\ PartContains(k - 1, entry.part, ch))

-----------------------------------------------------------------------------
(* The sets.  A set has the level of its table or directory; an item is    *)
(* <<"chr", c>>, <<"range", from, to>> or <<"class">>, for the digits.     *)

\* char_set_add and char_set_add_range
Add(set, ch0, ch1) ==
  [set EXCEPT !.part = FillRange(set.level, @, ch0 - set.base, ch1 - set.base)]

AddItem(set, item) ==
  CASE item[1] = "chr"   -> Add(set, item[2], item[2])
    [] item[1] = "range" -> IF item[2] >= item[3] THEN set ELSE Add(set, item[2], item[3])
    [] item[1] = "class" -> Add(set, Zero, Nine)

\* The bounds by which char_set_compile chooses; for the digits they are too low, which
\* does no harm.
Below(items) ==
  UNION {CASE items[i][1] = "class" -> {0} [] OTHER -> ToSet(Tail(items[i])) : i \in DOMAIN items}
Above(items) ==
  UNION {CASE items[i][1] = "class" -> {1} [] OTHER -> ToSet(Tail(items[i])) : i \in DOMAIN items}

Level(min, max) ==
  IF max < Size(0) \/ max - min < Size(0) THEN 0 ELSE IF max < Size(2) THEN 2 ELSE 3

\* char_set_compile
BlankSet(min, max, comp) ==
  [level |-> Level(min, max), base |-> IF max >= Size(0) /\ Level(min, max) = 0 THEN min ELSE 0,
   part |-> Blank(Level(min, max)), comp |-> comp]

CharSet(items, comp) == FoldLeft(AddItem, BlankSet(Min(Below(items)), Max(Above(items)), comp), items)

\* char_set_contains
SetContains(set, ch) ==
  LET at == ch - set.base IN
  (at >= 0 /\ at < Size(set.level) /\ PartContains(set.level, set.part, at)) # set.comp
=============================================================================

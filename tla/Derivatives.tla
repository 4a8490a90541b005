---------------------------- MODULE Derivatives -----------------------------
(***************************************************************************)
(* Matching by derivatives: the derivative of an expression with respect to*)
(* a character matches what may follow the character.                      *)
(***************************************************************************)
EXTENDS Regex

\* reg_compile_csets: sets and classes become sets of characters.
RECURSIVE CompileSets(_)
CompileSets(e) ==
  CASE Op(e) \in {"set", "cset", "class", "cclass"} -> <<"chset", Contained(e)>>
    [] Op(e) \in {"nil", "t", "wild", "chr"} -> e
    [] OTHER -> <<Op(e)>> \o [i \in 1..(Len(e) - 1) |-> CompileSets(e[i + 1])]

\* flatten_or, and unflatten_or of what reduce_or keeps: the last of equal branches.
RECURSIVE FlattenOr(_)
FlattenOr(e) == IF Op(e) # "or" THEN <<e>> ELSE FlattenOr(e[2]) \o FlattenOr(e[3])

RECURSIVE UnflattenOr(_)
UnflattenOr(list) == IF Len(list) = 1 THEN list[1] ELSE <<"or", list[1], UnflattenOr(Tail(list))>>

RECURSIVE LastOfEqual(_)
LastOfEqual(list) ==
  IF list = <<>> THEN <<>>
  ELSE (IF Head(list) \in ToSet(Tail(list)) THEN <<>> ELSE <<Head(list)>>) \o LastOfEqual(Tail(list))

ReduceOr(e) ==
  IF Op(e[2]) = "or" /\ Op(e[3]) = "or" THEN UnflattenOr(LastOfEqual(FlattenOr(e))) ELSE e

Followed(d, list) ==
  CASE d = NoString -> NoString
    [] d = Empty    -> <<"compound">> \o list
    [] OTHER        -> <<"compound", d>> \o list

\* What the operators make of the derivatives d, d1 and d2 of their operands.
DvRepeat(d, star) == IF d = Empty THEN star ELSE Followed(d, <<star>>)

DvCompl(d) ==
  IF MatchesAll(d) THEN NoString
  ELSE IF d = Empty THEN SomeText
  ELSE IF d = NoString THEN AnyText
  ELSE <<"compl", d>>

DvOr(d1, d2) ==
  IF d1 = NoString THEN d2 ELSE IF d2 = NoString THEN d1 ELSE ReduceOr(<<"or", d1, d2>>)

DvAnd(d1, d2) == IF NoString \in {d1, d2} THEN NoString ELSE <<"and", d1, d2>>

\* ... and a list, without a look at whether its first element may be skipped.
DvList_Skipping(d1, d2, list) ==
  IF d2 = NoString THEN Followed(d1, Tail(list)) ELSE IF d1 = NoString THEN d2
  ELSE <<"or", Followed(d1, Tail(list)), d2>>

\* ... and a list, whose first element may be skipped or not.
DvList(d1, d2, list) ==
  IF ~Nullable(Head(list)) \/ d2 = NoString THEN Followed(d1, Tail(list))
  ELSE IF d1 = NoString THEN d2
  ELSE <<"or", Followed(d1, Tail(list)), d2>>

RECURSIVE Derivative(_, _)
RECURSIVE DerivativeList(_, _)
DerivativeList(list, ch) ==
  IF Len(list) = 1 THEN Derivative(list[1], ch)
  ELSE DvList(Derivative(Head(list), ch), DerivativeList(Tail(list), ch), list)

Derivative(e, ch) ==
  LET d(i) == Derivative(e[i], ch) IN
  CASE Op(e) \in {"nil", "t"} -> NoString
    [] Op(e) \in {"chr", "chset", "wild"} -> IF ch \in Contained(e) THEN Empty ELSE NoString
    [] Op(e) = "compound" -> DerivativeList(Operands(e), ch)
    [] Op(e) = "optional" -> d(2)
    [] Op(e) \in {"oneplus", "zeroplus"} -> DvRepeat(d(2), <<"zeroplus", e[2]>>)
    [] Op(e) = "compl"    -> DvCompl(d(2))
    [] Op(e) = "or"       -> DvOr(d(2), d(3))
    [] Op(e) = "and"      -> DvAnd(d(2), d(3))

\* dv_run: the length of the match at the start of s, or -1.  The derivative is taken of
\* the whole expression for each character; it does not step to it.
DvRun(e, s) ==
  LET stuck == {i \in DOMAIN s : Derivative(e, s[i]) = NoString}
      seen  == IF stuck = {} THEN Len(s) ELSE Min(stuck) - 1
  IN  IF ~Nullable(e) THEN -1 ELSE seen
=============================================================================

------------------------------- MODULE Regex --------------------------------
(***************************************************************************)
(* Regular expressions, as the reader hands them to regex_compile: how they*)
(* are brought to binary operators, how the non-greedy operator is expanded*)
(* and what the optimizer makes of them; and their derivatives, by which   *)
(* those are matched that have a complement or an intersection.            *)
(*                                                                         *)
(* An expression is a tuple that begins with its operator.  <<"nil">> is   *)
(* the expression of the empty string, and <<"t">> that of no string.      *)
(***************************************************************************)
EXTENDS Integers, SequencesExt

CONSTANTS
  Alphabet,   \* the characters, which are numbers
  Class       \* those of them that are in the named class

Empty    == <<"nil">>
NoString == <<"t">>
Wild     == <<"wild">>
AnyText  == <<"zeroplus", Wild>>
SomeText == <<"oneplus", Wild>>

Op(e)     == e[1]
Operands(e) == Tail(e)
Atomic(e) == Op(e) \in {"nil", "t", "wild", "chr", "chset", "class", "cclass"}

-----------------------------------------------------------------------------
(* Character sets.  An item of a set is <<"chr", c>>, <<"range", from, to>> *)
(* or <<"class">>.                                                         *)

Item(i) == CASE i[1] = "chr"   -> {i[2]}
             [] i[1] = "range" -> IF i[2] >= i[3] THEN {} ELSE i[2]..i[3]
             [] i[1] = "class" -> Class
Members(items) == UNION {Item(items[k]) : k \in DOMAIN items}

\* What an expression that stands for one character contains.
Contained(e) ==
  CASE Op(e) = "wild"   -> Alphabet
    [] Op(e) = "chr"    -> {e[2]}
    [] Op(e) = "class"  -> Class
    [] Op(e) = "cclass" -> Alphabet \ Class
    [] Op(e) = "set"    -> Members(e[2])
    [] Op(e) = "cset"   -> Alphabet \ Members(e[2])
    [] Op(e) = "chset"  -> e[2]

Characters(e) == Op(e) \in {"wild", "chr", "class", "cclass", "set", "cset", "chset"}

\* reg_single_char_p and reg_compl_char_p; wild is neither.
SingleChar(e) == Op(e) \in {"chr", "set", "cset", "class", "cclass"}
ComplChar(e)  == Op(e) \in {"cset", "cclass"}

\* The items of a character or of a set.
ItemsOf(e) == IF Op(e) \in {"set", "cset"} THEN e[2] ELSE <<e>>

-----------------------------------------------------------------------------
(* Properties that the rewriting goes by.                                  *)

RECURSIVE Nullable(_)
Nullable(e) ==
  CASE Op(e) = "nil" -> TRUE
    [] Op(e) \in {"t", "wild", "chr", "class", "cclass", "chset", "set", "cset"} -> FALSE
    [] Op(e) \in {"compound", "and"} -> \A i \in 2..Len(e) : Nullable(e[i])
    [] Op(e) \in {"zeroplus", "optional"} -> TRUE
    [] Op(e) = "oneplus" -> Nullable(e[2])
    [] Op(e) = "compl"   -> ~Nullable(e[2])
    [] Op(e) = "or"      -> Nullable(e[2]) \/ Nullable(e[3])

RECURSIVE MatchesAll(_)
MatchesAll(e) ==
  CASE Atomic(e) \/ Op(e) \in {"set", "cset"} -> FALSE
    [] Op(e) = "compound" -> /\ \A i \in 2..Len(e) : Nullable(e[i])
                             /\ \E i \in 2..Len(e) : MatchesAll(e[i])
    [] Op(e) \in {"oneplus", "optional"} -> MatchesAll(e[2])
    [] Op(e) = "zeroplus" -> e[2] = Wild \/ MatchesAll(e[2])
    [] Op(e) = "compl"    -> e[2] = NoString
    [] Op(e) = "or"       -> MatchesAll(e[2]) \/ MatchesAll(e[3])
    [] Op(e) = "and"      -> MatchesAll(e[2]) /\ MatchesAll(e[3])

-----------------------------------------------------------------------------
(* From the reader's expression to the one that is compiled.               *)

RECURSIVE ToBinary(_)
RECURSIVE Unfold(_, _)
Unfold(op, args) ==
  CASE args = <<>>   -> NoString
    [] Len(args) = 1 -> ToBinary(args[1])
    [] Len(args) > 1 -> <<op, ToBinary(args[1]), Unfold(op, Tail(args))>>
ToBinary(e) ==
  CASE Atomic(e) \/ Op(e) \in {"set", "cset"} -> e
    [] Op(e) \in {"or", "and"} -> Unfold(Op(e), Operands(e))
    [] OTHER -> <<Op(e)>> \o [i \in 1..(Len(e) - 1) |-> ToBinary(e[i + 1])]

RECURSIVE ExpandNongreedy(_)
ExpandNongreedy(e) ==
  CASE Atomic(e) \/ Op(e) \in {"set", "cset"} -> e
    [] Op(e) = "nongreedy" ->
         LET first  == <<"zeroplus", ExpandNongreedy(e[2])>>
             second == ExpandNongreedy(e[3])
             barred == IF Nullable(second) THEN <<"and", second, SomeText>> ELSE second
         IN  IF second = Empty THEN first
             ELSE <<"compound",
                    <<"and", first, <<"compl", <<"compound", AnyText, barred, AnyText>>>>>>,
                    second>>
    [] OTHER -> <<Op(e)>> \o [i \in 1..(Len(e) - 1) |-> ExpandNongreedy(e[i + 1])]

\* A set of one character is the character, and one of none matches nothing.
OptimizeSet(e) ==
  CASE Op(e) = "set"  -> IF e[2] = <<>> THEN NoString
                         ELSE IF Len(e[2]) = 1 /\ e[2][1][1] = "chr" THEN e[2][1] ELSE e
    [] Op(e) = "cset" -> IF e[2] = <<>> THEN Wild ELSE e

InvertSingle(e) ==
  CASE Op(e) \in {"chr", "set"} -> <<"cset", ItemsOf(e)>>
    [] Op(e) = "cset"   -> OptimizeSet(<<"set", e[2]>>)
    [] Op(e) = "class"  -> <<"cclass">>
    [] Op(e) = "cclass" -> <<"class">>

\* The union of two characters or sets, or of two complements, as a set.
JoinSets(op, a, b) ==
  LET items == IF Op(a) = "set" /\ Op(b) # "set" THEN ItemsOf(b) \o ItemsOf(a)
               ELSE ItemsOf(a) \o ItemsOf(b)
  IN  <<op, items>>

OptimizeCompound(args) ==
  LET RECURSIVE Short(_)
      Short(x) == IF Len(x) > 1 /\ MatchesAll(x[1]) /\ MatchesAll(x[2]) THEN Short(Tail(x)) ELSE x
      xargs == Short(args)
  IN  CASE xargs = <<>>   -> Empty
        [] Len(xargs) = 1 -> xargs[1]
        [] Len(xargs) > 1 -> IF NoString \in ToSet(xargs) THEN NoString
                             ELSE <<"compound">> \o xargs

\* One repetition of another: the operators that leave arg as it is, and those that make
\* it a zeroplus.
OptimizeRepeat(op, arg, keep, starred) ==
  IF Op(arg) \in keep THEN arg
  ELSE IF Op(arg) \in starred THEN <<"zeroplus", arg[2]>>
  ELSE IF MatchesAll(arg) THEN (IF op = "oneplus" THEN AnyText ELSE arg)
  ELSE <<op, arg>>

\* ~x, .*x.* and the like have complements without a complement.
OptimizeCompl(arg) ==
  LET parts == IF Op(arg) = "compound" THEN Operands(arg) ELSE <<>>
      n      == Len(parts)
      one(i) == SingleChar(parts[i])
      all(i) == MatchesAll(parts[i])
  IN
  IF MatchesAll(arg) THEN NoString
  ELSE IF arg = Empty THEN SomeText
  ELSE IF arg = NoString THEN AnyText
  ELSE IF SingleChar(arg)
    THEN <<"or", <<"optional", InvertSingle(arg)>>, <<"compound", Wild, SomeText>>>>
  ELSE IF n = 3 /\ all(1) /\ one(2) /\ all(3) THEN <<"zeroplus", InvertSingle(parts[2])>>
  ELSE IF n = 2 /\ all(1) /\ one(2)
    THEN <<"optional", <<"compound", AnyText, InvertSingle(parts[2])>>>>
  ELSE IF n = 2 /\ one(1) /\ all(2)
    THEN <<"optional", <<"compound", InvertSingle(parts[1]), AnyText>>>>
  ELSE <<"compl", arg>>

OptimizeOr(a, b) ==
  LET single == SingleChar(a) /\ SingleChar(b) IN
  IF a = NoString \/ MatchesAll(b) THEN b
  ELSE IF b = NoString \/ MatchesAll(a) THEN a
  ELSE IF a = Empty THEN <<"optional", b>>
  ELSE IF b = Empty THEN <<"optional", a>>
  ELSE IF single /\ ~ComplChar(a) /\ ~ComplChar(b) THEN JoinSets("set", a, b)
  ELSE IF single /\ ComplChar(a) /\ ComplChar(b)
    THEN JoinSets("cset", InvertSingle(a), InvertSingle(b))
  ELSE <<"or", a, b>>

OptimizeAnd(a, b) ==
  IF NoString \in {a, b} THEN NoString
  ELSE IF a = Empty THEN (IF Nullable(b) THEN Empty ELSE NoString)
  ELSE IF b = Empty THEN (IF Nullable(a) THEN Empty ELSE NoString)
  ELSE IF MatchesAll(a) \/ MatchesAll(b) THEN b
  ELSE <<"and", a, b>>

RECURSIVE Optimize(_)
Optimize(e) ==
  LET again(i) == Optimize(e[i]) IN
  IF MatchesAll(e) THEN AnyText
  ELSE CASE Atomic(e) -> e
    [] Op(e) \in {"set", "cset"} -> OptimizeSet(e)
    [] Op(e) = "compound" -> OptimizeCompound([i \in 1..(Len(e) - 1) |-> again(i + 1)])
    [] Op(e) = "zeroplus" -> OptimizeRepeat(Op(e), again(2), {"zeroplus"}, {"oneplus", "optional"})
    [] Op(e) = "optional" -> OptimizeRepeat(Op(e), again(2), {"zeroplus", "optional"}, {"oneplus"})
    [] Op(e) = "oneplus"  -> OptimizeRepeat(Op(e), again(2), {"zeroplus", "oneplus"}, {"optional"})
    [] Op(e) = "compl"    -> IF Op(e[2]) = "compl" THEN Optimize(e[2][2]) ELSE OptimizeCompl(again(2))
    [] Op(e) = "or"       -> OptimizeOr(again(2), again(3))
    [] Op(e) = "and"      -> OptimizeAnd(again(2), again(3))

RECURSIVE RequiresDv(_)
RequiresDv(e) ==
  CASE Atomic(e) \/ Op(e) \in {"set", "cset"} -> FALSE
    [] Op(e) \in {"compl", "and", "nongreedy"} -> TRUE
    [] OTHER -> \E i \in 2..Len(e) : RequiresDv(e[i])

Compiled(e) == Optimize(ExpandNongreedy(ToBinary(e)))
=============================================================================

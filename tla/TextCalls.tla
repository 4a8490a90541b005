----------------------------- MODULE TextCalls ------------------------------
(***************************************************************************)
(* The functions on text, called with any of the arguments of the instance,*)
(* and what they have to return.                                           *)
(***************************************************************************)
EXTENDS Calls, Integers, FiniteSetsExt, SequencesExt

CONSTANTS
  Letters, Digits,      \* Alphabet and Class of Regex
  Crash,                \* as in Nfa
  TextMax,              \* bound: the length of strings
  BytesMax              \* bound: the length of byte sequences

Regex == INSTANCE Matching WITH Alphabet <- Letters, Class <- Digits
Utf8  == INSTANCE Utf8

\* Bound: directories of two, and three at the top, of tables of four bits.
Charsets == INSTANCE Charsets WITH CellBits <- 2, Cells <- 2, Fan <- 2, TopFan <- 3,
                                   Zero <- 2, Nine <- 3

Texts == BoundedSeq(Letters, TextMax)

-----------------------------------------------------------------------------
(* Expressions.                                                            *)

Chr(c) == <<"chr", c>>
Small  == {Chr(c) : c \in Digits} \cup {Chr(Min(Letters \ Digits)), <<"wild">>}
Sets   == {<<kind, items>> : kind \in {"set", "cset"},
             items \in {<<>>, <<Chr(Min(Letters))>>, <<Chr(Min(Letters)), Chr(Max(Letters))>>,
                        << <<"range", Min(Letters), Max(Letters)>> >>, << <<"class">> >>}}
Units  == Small \cup Sets \cup {<<"nil">>, <<"class">>, <<"cclass">>}

Repeated(es) == {<<op, e>> : op \in {"zeroplus", "oneplus", "optional", "compl"}, e \in es}
Joined(es, fs) == {<<op, e, f>> : op \in {"compound", "or", "and", "nongreedy"}, e \in es, f \in fs}

\* Bound: an operator of any two expressions of one character; and operators up to three
\* deep of a few.
Simple   == Units \cup Repeated(Units) \cup Joined(Units, Units)
Mixed    == LET one == Repeated(Small) \cup Joined(Small, Small) IN
            Repeated(one) \cup Joined(one, Small) \cup Joined(Small, one)
Nested   == Repeated(Joined(Repeated(Small), Repeated(Small)))

Match ==
  \E e \in Simple \cup Mixed \cup Nested :
    \E r \in {Regex!RegexCompile(e)} :
    Call("match", <<e>>,
         IF Regex!Broken(r) THEN Crash
         ELSE [prefix |-> [s \in Texts |-> Regex!MatchRegexLen(s, r, Missing)],
               suffix |-> [s \in Texts |-> Regex!MatchRegexRight(s, r, Missing)],
               within |-> [s \in Texts |-> Regex!MatchRegex(s, r, -1)],
               begins |-> [s \in Texts |-> Regex!RegexPrefixMatch(r, s)],
               lost   |-> r.kind = "nfa" /\ Regex!Lost(Regex!Compiled(e))])

\* What takes the place of a match.
Mark == <<0>>

Find ==
  \E e \in Mixed :
    \E r \in {Regex!RegexCompile(e)} :
    /\ ~Regex!Broken(r)
    /\ Call("find", <<e>>,
            [first  |-> [s \in Texts |-> Regex!SearchRegex(s, r, 0, FALSE)],
             last   |-> [s \in Texts |-> Regex!SearchRegex(s, r, 0, TRUE)],
             all    |-> [s \in Texts |-> Regex!RangeRegexAll(s, r, 0)],
             subst  |-> [s \in Texts |-> Regex!RegsubFrom(s, r, 0, Mark)],
             until  |-> [s \in Texts |-> Regex!ScanUntil(r, s)],
             prefix |-> [s \in Texts |-> Regex!MatchRegexLen(s, r, Missing)],
             begins |-> [s \in Texts |-> Regex!RegexPrefixMatch(r, s)],
             dv     |-> r.kind = "dv"])

-----------------------------------------------------------------------------
(* Bytes: the ends of the ranges that the decoders tell apart.             *)

Bytes == {0, 65, 128, 144, 176, 191, 192, 194, 224, 237, 240, 244, 245}

Recode ==
  \E bytes \in BoundedSeq(Bytes, BytesMax) :
    Call("recode", <<bytes>>,
         [whole  |-> Utf8!FromBuf(bytes),
          stream |-> Utf8!DecodeAll(bytes),
          \* the end of the stream is seen, and then the stream goes on
          resumed |-> Utf8!DecodeAll(<<65, Utf8!Eof>> \o bytes),
          back   |-> Utf8!ToBuf(Utf8!FromBuf(bytes))])

\* Sets of two items, the characters of which are at the ends of tables and directories.
Ends == {0, 3, 4, 15, 16, 47}
CharItems == {<<"chr", c>> : c \in Ends} \cup {<<"range", c, d>> : c, d \in Ends} \cup { <<"class">> }

Collect ==
  \E item1, item2 \in CharItems, comp \in BOOLEAN :
    Call("set", <<item1, item2, comp>>,
         {c \in 0..48 : Charsets!SetContains(Charsets!CharSet(<<item1, item2>>, comp), c)})

-----------------------------------------------------------------------------
(* Properties.                                                             *)

\* The texts of the instance that an expression describes.
Cut(texts) == {s \in texts : Len(s) <= TextMax}
Concat(a, b) == Cut({s \o t : s \in a, t \in b})
Between(from, to) == {<<c>> : c \in {x \in Letters : from <= x /\ x <= to}}
ItemChars(i) == CASE i[1] = "chr" -> Between(i[2], i[2]) [] i[1] = "range" -> Between(i[2], i[3])
                  [] i[1] = "class" -> {<<c>> : c \in Digits}
Ones == {<<c>> : c \in Letters}

RECURSIVE Star(_, _)
Star(a, n) == IF n = 0 THEN {<<>>} ELSE {<<>>} \cup Concat(a, Star(a, n - 1))

RECURSIVE Language(_)
Language(e) ==
  LET of(i) == Language(e[i])
      sets  == UNION {ItemChars(e[2][i]) : i \in DOMAIN e[2]}
  IN
  CASE e[1] = "nil"    -> {<<>>}
    [] e[1] = "wild"   -> Ones
    [] e[1] = "chr"    -> {<<e[2]>>}
    [] e[1] = "class"  -> ItemChars(e)
    [] e[1] = "cclass" -> Ones \ ItemChars(<<"class">>)
    [] e[1] = "set"    -> sets
    [] e[1] = "cset"   -> Ones \ sets
    [] e[1] = "compound" -> Concat(of(2), of(3))
    [] e[1] = "zeroplus" -> Star(of(2), TextMax)
    [] e[1] = "oneplus"  -> Concat(of(2), Star(of(2), TextMax))
    [] e[1] = "optional" -> of(2) \cup {<<>>}
    [] e[1] = "compl"    -> Texts \ of(2)
    [] e[1] = "or"       -> of(2) \cup of(3)
    [] e[1] = "and"      -> of(2) \cap of(3)
    [] e[1] = "nongreedy" ->
         LET r == Star(of(2), TextMax)
             t == of(3)
             barred == IF <<>> \in t THEN t \ {<<>>} ELSE t
         IN  IF e[3] = <<"nil">> THEN r
             ELSE Concat({s \in r : \A u \in barred : ~\E i \in 0..Len(s) :
                                      i + Len(u) <= Len(s) /\ SubSeq(s, i + 1, i + Len(u)) = u}, t)

Longest(ns) == IF ns = {} THEN Nil ELSE Max(ns)
PrefixIn(lang, s) == Longest({n \in 0..Len(s) : SubSeq(s, 1, n) \in lang})
SuffixIn(lang, s) == Longest({n \in 0..Len(s) : SubSeq(s, Len(s) - n + 1, Len(s)) \in lang})
From(s, pos) == SubSeq(s, pos + 1, Len(s))

\* What the optimizer gets wrong: an intersection with any text, on the right, and a union
\* of two complements of sets.
RECURSIVE Misread(_)
Misread(e) ==
  \/ e[1] = "and" /\ Cut(Language(e[3])) = Texts
  \/ e[1] = "or" /\ {e[2][1], e[3][1]} \subseteq {"cset", "cclass"}
  \/ e[1] \in {"zeroplus", "oneplus", "optional", "compl", "compound", "or", "and", "nongreedy"}
       /\ \E i \in 2..Len(e) : Misread(e[i])

\* A repetition of what nothing matches, which the compiler follows a null pointer for.
RECURSIVE Hopeless(_)
Hopeless(e) ==
  \/ e[1] \in {"zeroplus", "oneplus", "optional"} /\ Language(e[2]) = {}
  \/ e[1] = "nongreedy" /\ e[3] = <<"nil">> /\ Language(e[2]) = {}
  \/ e[1] \in {"zeroplus", "oneplus", "optional", "compl", "compound", "or", "and", "nongreedy"}
       /\ \E i \in 2..Len(e) : Hopeless(e[i])

\* match-regex finds the longest prefix, and match-regex-right the longest suffix, that the
\* expression describes, and regex-prefix-match is true of all that can be continued to
\* one; nothing but a repetition of what never matches crashes.  Left out: those, what the
\* optimizer misreads, graphs that have lost transitions, and of the empty text all but the
\* longest prefix and suffix; of what cannot be continued nothing is said.
MatchesExact ==
  /\ Called("match") /\ Result = Crash => Hopeless(Args[1])
  /\ Called("match") /\ Result # Crash /\ ~Result.lost /\ ~Misread(Args[1]) =>
    LET lang == Language(Args[1]) IN
    \A s \in Texts :
      /\ Result.prefix[s] = PrefixIn(lang, s)
      /\ Result.suffix[s] = SuffixIn(lang, s)
      /\ s # <<>> /\ (\E t \in lang : IsPrefix(s, t)) => Result.begins[s]
      /\ s # <<>> =>
           LET here == PrefixIn(lang, From(s, Len(s) - 1)) IN
           Result.within[s] = IF here = Nil THEN Nil ELSE Len(s) - 1 + here

\* s with Mark in place of the ranges.
RECURSIVE Spliced(_, _)
Spliced(s, ranges) ==
  IF ranges = <<>> THEN s
  ELSE SubSeq(Spliced(s, Front(ranges)), 1, Len(Spliced(s, Front(ranges))) - Len(s) + Last(ranges)[1])
         \o Mark \o From(s, Last(ranges)[2])

\* Searches find what match-regex finds at some position: the first, the last, all in
\* order, each once; regsub replaces just those, except the empty one at the end of a text
\* that is not empty, and a scan neither loses nor doubles a character.  Left out: that anything is found
\* behind a place where a match might begin and does not, since a search goes on after the
\* characters it has tried there; that a scan is right where a match might go on beyond
\* the longest; and the last match of an expression run as derivatives, unless it matches
\* the empty text, for dv_run asks the expression itself and not its derivative whether a
\* match has ended.
SearchesExact ==
  Called("find") =>
    \A s \in Texts :
      LET hits    == {p \in 0..Len(s) : Result.prefix[From(s, p)] # Nil}
          hit(p)  == <<p, Result.prefix[From(s, p)]>>
          stalled == {p \in 0..Len(s) : p \notin hits /\ Result.begins[From(s, p)]}
          short   == {p \in stalled \cup hits : /\ Result.begins[From(s, p)]
                                                /\ Result.prefix[From(s, p)] # Len(s) - p}
          before(p) == \E q \in stalled : q < p
          all     == Result.all[s]
          ends(i) == IF i = 0 THEN 0 ELSE all[i][2]
          next(i) == {p \in hits : p >= ends(i) /\ ~(i > 0 /\ p = all[i][1])}
          until   == Result.until[s]
      IN
      /\ hits = {} => Result.first[s] = Nil
      /\ hits # {} /\ ~before(Min(hits)) => Result.first[s] = hit(Min(hits))
      /\ Result.first[s] # Nil => \E p \in hits : Result.first[s] = hit(p)
      /\ ~Result.dv \/ Result.prefix[<<>>] # Nil =>
           Result.last[s] = IF hits = {} THEN Nil ELSE hit(Max(hits))
      /\ Result.last[s] # Nil => \E p \in hits : Result.last[s] = hit(p)
      /\ \A i \in DOMAIN all : \E p \in hits : all[i] = <<p, p + hit(p)[2]>>
      /\ stalled = {} =>
           /\ \A i \in 0..Len(all) :
                IF i = Len(all) THEN next(i) = {}
                ELSE /\ next(i) # {} /\ all[i + 1][1] = Min(next(i))
                     /\ all[i + 1][2] = all[i + 1][1] + hit(all[i + 1][1])[2]
           /\ Result.subst[s] = Spliced(s, SelectSeq(all, LAMBDA x : x # <<Len(s), Len(s)>> \/ s = <<>>))
      /\ short = {} =>
           until.out \o (IF until.match = Nil THEN <<>> ELSE until.match) \o until.rest = s

\* Each item is in the set, whatever table or directory holds it, and nothing else.
SetsExact ==
  LET in(item, c) == CASE item[1] = "chr"   -> c = item[2]
                       [] item[1] = "range" -> item[2] < item[3] /\ item[2] <= c /\ c <= item[3]
                       [] item[1] = "class" -> c \in 2..3
  IN
  Called("set") =>
    Result = {c \in 0..48 : (in(Args[1], c) \/ in(Args[2], c)) # Args[3]}

\* Regular expressions mean what the manual says, in sets, matches and searches, with the
\* exceptions that each part names.
RegexExact == MatchesExact /\ SearchesExact /\ SetsExact

\* Any bytes become characters that become the same bytes again, whether they are read
\* from a buffer or one by one from a stream, and where a stream ended before.
CodingExact ==
  Called("recode") =>
    /\ Result.stream = Result.whole
    /\ Result.back = Args[1]
    /\ (\A i \in DOMAIN Result.whole : Result.whole[i] \div 256 # 220) =>
         Result.resumed = <<65, -1>> \o Result.whole
=============================================================================

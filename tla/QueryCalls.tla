----------------------------- MODULE QueryCalls -----------------------------
(***************************************************************************)
(* Queries of the pattern language, of lines and of files, and what the    *)
(* manual says of their matches.                                           *)
(***************************************************************************)
EXTENDS Calls, Integers, FiniteSetsExt, SequencesExt

CONSTANTS
  Unopened,   \* as in FileMatch
  LineMax,    \* bound: the length of lines
  FileMax     \* bound: the number of lines

\* Bound: the window of a lazy line moves on when one character is behind.
Query == INSTANCE FileMatch WITH Blanks <- {"n"}, Message <- "m", Newline <- "n",
                                 HiWater <- 1, Shift <- 1

Str(s)   == Query!Str(s)
List(vs) == Query!List(vs)

-----------------------------------------------------------------------------
(* Lines.  Bound: elements alone, in pairs and in groups of two.           *)

LineTexts == BoundedSeq({"a", "b"}, LineMax)

NoLimits == [gap |-> Nil, mingap |-> Nil, maxgap |-> Nil, times |-> Nil, mintimes |-> Nil,
             maxtimes |-> Nil, tries |-> Nil, counter |-> Nil, vars |-> Nil, lists |-> {}, rep |-> FALSE]
Limits == {NoLimits, [NoLimits EXCEPT !.gap = 1], [NoLimits EXCEPT !.maxgap = 1],
           [NoLimits EXCEPT !.times = 2], [NoLimits EXCEPT !.mintimes = 2, !.maxtimes = 2],
           [NoLimits EXCEPT !.tries = 2], [NoLimits EXCEPT !.counter = <<"n", 1>>]}
Plain  == [longest |-> Nil, shortest |-> Nil, resolve |-> {}]
Picks  == {[Plain EXCEPT !.longest = "x"], [Plain EXCEPT !.shortest = "x"]}
Ways   == {"some", "all", "none", "maybe", "cases"}

Lit(s)  == <<"str", s>>
A       == Lit(<<"a">>)
B       == Lit(<<"b">>)
Rx      == <<"rx", {<<"a">>, <<"a", "a">>, <<"a", "b">>}>>
Of(sym) == <<"var", sym, <<>>>>

Elements == {A, B, Rx, Of("x"), <<"var", "x", <<"greedy">>>>, <<"var", "x", Rx>>, <<"var", "y", <<"num", 1>>>>,
          <<"skip", Nil, Nil, FALSE>>, <<"skip", Nil, 1, TRUE>>, <<"skip", 2, Nil, FALSE>>,
          <<"trailer">>, <<"eol">>, <<"call", "h", <<<<"sym", "y">>>>>>}
Some    == {<<A>>, <<Rx>>, <<Of("x")>>, <<Of("x"), B>>, <<A, Of("y")>>}
Groups  == {<<"coll", body, <<>>, o>> : body \in Some \ {<<Of("x")>>}, o \in Limits}
             \cup {<<"coll", body, <<kind, <<B>>, FALSE>>, NoLimits>> :
                   body \in {<<A>>, <<Of("x"), A>>}, kind \in {"until", "last"}}
             \cup {<<op, <<p, q>>, Plain, "line">> : op \in Ways, p, q \in Some}
             \cup {<<"choose", <<p, q>>, o, "line">> : o \in Picks, p, q \in Some}
Blocks  == {<<"block", "p", p \o <<<<"accept", "p">>, B>>>> : p \in Some}
Behind  == {<<B>>, <<Of("z")>>}
Rows    == {<<e>> : e \in Groups} \cup {<<e, f>> : e, f \in Elements}
             \cup {<<e>> \o rest : e \in Groups \cup Blocks, rest \in Behind}
             \cup {<<e, f>> \o rest : e, f \in Elements, rest \in Behind}

\* The pattern functions of the queries.
Params  == <<"x">>
InLine  == <<A, Of("x")>>
OfLines == << <<Of("x")>>, <<Rx>> >>
Define  == << <<<<"hdefine", "h", Params, InLine>>>>, <<<<"define", "v", Params, OfLines>>>> >>

Alone(e) == <<<<e>>>>
Matched(spec, file) == Query!Extract(Define \o spec, <<file>>)

MatchLine ==
  \E elems \in Rows, line \in LineTexts :
    Call("line", <<elems, line>>,
         [way \in {"whole", "lazy"} |->
            Matched(IF way = "whole" THEN <<elems>> ELSE Alone(<<"freeform", Nil>>) \o <<elems>>, <<line>>)])

-----------------------------------------------------------------------------
(* Files.                                                                  *)

Files   == BoundedSeq({<<"a">>, <<"b", "a">>}, FileMax)
Clauses == {<<p>> : p \in {<<A>>, <<Of("x")>>, <<A, Of("y")>>, <<Of("y"), A>>}}
             \cup {<< <<Of("x")>>, <<A>> >>, Alone(<<"trailer">>) \o << <<Of("x")>> >>}
Forms ==
       {Alone(<<"skip", max, min, greedy>>) \o c : max \in {Nil, 2}, min \in {Nil, 1}, greedy \in BOOLEAN, c \in Clauses}
  \cup {Alone(<<op, <<c, d>>, Plain, "lines">>) : op \in Ways, c, d \in Clauses}
  \cup {Alone(<<"choose", <<c, d>>, o, "lines">>) : c, d \in Clauses, o \in Picks}
  \cup {Alone(<<"gather", <<c, d>>, <<>>, [vars |-> v]>>) : c, d \in Clauses, v \in {Nil, <<<<"x", Str(<<"d">>)>>>>}}
  \cup {Alone(<<"collect", c, <<>>, o>>) : c \in Clauses, o \in Limits}
  \cup {Alone(<<"collect", c, <<kind, << <<A>> >>, TRUE>>, NoLimits>>) : c \in Clauses, kind \in {"until", "last"}}
  \cup {Alone(<<"next", List(<<Str(<<"a">>), Str(<<"b">>)>>)>>) \o c : c \in Clauses}
  \cup {Alone(<<"fuzz", n, 2>>) \o c : n \in 1..2, c \in Clauses}
  \cup {Alone(<<"try", c, <<>>, d>>) : c, d \in Clauses}
  \cup {Alone(<<"push", << <<A>>, <<A>> >> >>) \o << <<A>>, <<A>> >>,
         Alone(<<"if", << <<List(<<>>), << <<A>> >> >>, <<Str(<<>>), << <<Of("x")>> >> >> >> >>)}
  \cup {Alone(<<"call", "v", <<<<"sym", "y">>>>>>), Alone(<<"forget", {"x"}>>), Alone(<<"eof">>), Alone(<<"assert", "e">>)}

\* A form, behind a line or not; in a block, with an accept at its end; and thrown out of.
InBlock(spec, last) == Alone(<<"block", "p", spec \o last>>)
Under(way, spec) ==
  CASE way = "plain"    -> spec
    [] way = "block"    -> InBlock(spec, <<>>)
    [] way = "accepted" -> InBlock(spec, Alone(<<"accept", "p">>))
    [] way = "thrown"   -> Alone(<<"try", spec \o Alone(<<"throw", "error", <<<<"sym", "x">>>>>>),
                                   <<<<"error", <<"y">>, << <<Of("z")>> >>>>>>, <<>>>>)

MatchFile ==
  \E form \in Forms, before \in {<<>>, << <<Of("x")>> >>}, file \in Files :
    Call("file", <<before \o form, file>>,
         [way \in {"plain", "block", "accepted", "thrown"} |-> Matched(Under(way, before \o form), file)])

-----------------------------------------------------------------------------
(* Output, of what was collected before.                                   *)

Bodies == {<<Of("x")>>, <<A, Of("y")>>, <<Of("y"), A>>, <<Of("x"), A, Of("y")>>}
NoClauses == [main |-> <<>>, single |-> Nil, first |-> Nil, last |-> Nil, empty |-> Nil, mod |-> <<>>,
              modlast |-> <<>>, vars |-> {}, counter |-> Nil]
Optional == {"single", "first", "last", "mod", "modlast"}
Repeat(body, given) ==
  LET mods == << <<1, 2, << body >> >> >> IN
  [clause \in DOMAIN NoClauses |->
     CASE clause = "main"  -> << body >>
       [] clause \in given -> IF clause \in {"mod", "modlast"} THEN mods ELSE << body >>
       [] OTHER            -> NoClauses[clause]]

Output ==
  \/ \E body \in Bodies, given \in SUBSET Optional, file \in Files :
       Call("repeat", <<body, file>>,
            Query!OutputText(Matched(Alone(<<"collect", << body >>, <<>>, NoLimits>>), file).b,
                             Alone(<<"repeat", Repeat(body, given)>>)))
  \/ \E main, other \in {<<A>>, <<Of("x")>>}, given \in Optional, file \in Files :
       Call("variables", <<main, other, file>>,
            Query!OutputText("x" :> List([i \in DOMAIN file |-> Str(file[i])]),
                             Alone(<<"repeat", [Repeat(other, {given}) EXCEPT !.main = << main >>]>>)))

-----------------------------------------------------------------------------
(* What may match a line: the ends and the bindings of all ways to read it *)
(* that the elements allow, whatever is tried first.  A reading w is at    *)
(* w.at with bindings w.b, and over when an accept has left the block.     *)

Bound(sym, v, b) ==
  IF sym \notin DOMAIN b THEN {(sym :> v) @@ b}
  ELSE IF Query!TreeFind(v, b[sym]) \/ Query!TreeFind(b[sym], v) THEN {b} ELSE {}
New(b, old) == [sym \in {x \in DOMAIN b : x \notin DOMAIN old \/ old[x] # b[x]} |-> b[sym]]

To(w, ends) == {[w EXCEPT !.at = q] : q \in ends}
Told(line, w, texts) == To(w, {q \in w.at..Len(line) : SubSeq(line, w.at + 1, q) \in texts})
Named(sym, line, w, ws, trimmed) ==
  UNION {{[v EXCEPT !.b = b] :
            b \in Bound(sym, Str(SelectSeq(SubSeq(line, w.at + 1, v.at), LAMBDA c : c \notin trimmed)), w.b)} : v \in ws}

RECURSIVE Reads(_, _, _)

\* The clauses or some of them, each at the same place; each sees what others have bound.
RECURSIVE Beside(_, _, _, _, _)
Beside(op, clauses, line, w, some) ==
  IF clauses = <<>> THEN IF some \/ op \in {"none", "maybe", "choose"} THEN {w} ELSE {}
  ELSE LET on(v) == IF v.over \/ op \in {"cases", "choose"} THEN {v}
                    ELSE {[u EXCEPT !.at = Max({@, v.at})] :
                          u \in Beside(op, Tail(clauses), line, [w EXCEPT !.b = v.b], TRUE)}
       IN  (IF op = "none" THEN {} ELSE UNION {on(v) : v \in Reads(Head(clauses), line, w)})
             \cup IF op = "all" THEN {} ELSE Beside(op, Tail(clauses), line, w, some)

\* The body n times and more, one after the other and apart.
RECURSIVE Times(_, _, _, _, _, _)
Times(body, o, line, w, n, coll) ==
  LET from == [w EXCEPT !.b = IF o.counter = Nil THEN @ ELSE ("n" :> Query!Num(n + 1)) @@ @]
      with(b) == [sym \in DOMAIN b \cup DOMAIN coll |->
                    (IF sym \in DOMAIN coll THEN coll[sym] ELSE <<>>) \o (IF sym \in DOMAIN b THEN <<b[sym]>> ELSE <<>>)]
      again(at, v) == IF v.over THEN {v}
                      ELSE Times(body, o, line, [w EXCEPT !.at = Max({at + 1, v.at})], n + 1, with(New(v.b, w.b)))
      lists == [w EXCEPT !.b = [sym \in DOMAIN coll |-> List(coll[sym])] @@ @]
      done  == n \in {o.times, o.maxtimes}
  IN  (IF o.mintimes # Nil /\ n < o.mintimes THEN {} ELSE To(lists, w.at..Len(line)))
        \cup IF done THEN {}
             ELSE UNION {UNION {again(q, v) : v \in Reads(body, line, [from EXCEPT !.at = q])} : q \in w.at..Len(line)}

ReadOne(e, line, w) ==
  LET all == w.at..Len(line)
      least(n) == IF n = Nil THEN 0 ELSE n
  IN
  CASE e[1] = "str"   -> Told(line, w, {e[2]})
    [] e[1] = "rx"    -> Told(line, w, e[2])
    [] e[1] = "var"   ->
         IF e[3] \in {<<>>, <<"greedy">>} THEN Named(e[2], line, w, To(w, all), {})
         ELSE IF e[3][1] = "rx" THEN Named(e[2], line, w, Told(line, w, e[3][2]), {})
         ELSE Named(e[2], line, w, To(w, all \cap {w.at + e[3][2]}), {"n"})
    [] e[1] = "skip"  -> To(w, {q \in all : q >= w.at + least(e[3]) /\ (e[2] # Nil => q < w.at + least(e[3]) + e[2])})
    [] e[1] = "eol"   -> To(w, all \cap {w.at}) \cap To(w, {Len(line)})
    [] e[1] = "call"  ->
         LET in == [w EXCEPT !.b = IF "y" \in DOMAIN @ THEN ("x" :> @["y"]) @@ @ ELSE [s \in DOMAIN @ \ {"x"} |-> @[s]]] IN
         UNION {{[v EXCEPT !.b = b] : b \in Bound("y", v.b["x"], w.b)} : v \in Reads(InLine, line, in)}
    [] e[1] = "coll"  -> LET ws == Times(e[2], e[4], line, w, 0, <<>>) IN
                         IF e[3] # <<>> /\ e[3][1] = "last" THEN ws \cup UNION {Reads(e[3][2], line, v) : v \in ws} ELSE ws
    [] e[1] = "block"  -> {[v EXCEPT !.over = FALSE] : v \in Reads(e[3], line, w)}
    [] e[1] = "accept" -> {[w EXCEPT !.over = TRUE]}
    [] OTHER           -> Beside(e[1], e[2], line, w, FALSE)

\* What comes after a trailer is read ahead; to skip, at the end, is to be done.
Reads(elems, line, w) ==
  IF elems = <<>> \/ w.over THEN {w}
  ELSE IF Len(elems) = 1 /\ elems[1][1] = "skip" THEN To(w, w.at..Len(line))
  ELSE IF Head(elems)[1] = "trailer" THEN {[v EXCEPT !.at = w.at] : v \in Reads(Tail(elems), line, w)}
  ELSE UNION {Reads(Tail(elems), line, v) : v \in ReadOne(Head(elems), line, w)}

Start == [at |-> 0, b |-> <<>>, over |-> FALSE]

-----------------------------------------------------------------------------
(* Properties.                                                             *)

IsMatch(r) == r.kind = "match"

\* A line is matched in one of the ways the elements allow: in whole, or as freeform text
\* up to some place; a variable at the head takes the least text of all these ways, and
\* between text and text none is missed.  Left out: a variable that another mention of it
\* delimits, to which both their texts are bound.
LinesExplained ==
  Called("line") =>
    LET elems  == Args[1]
        line   == Args[2]
        ways   == {w \in Reads(elems, line, Start) : w.at = Len(line)}
        free   == Reads(elems, Append(line, "n"), Start)
        size(w) == Len(w.b["x"][2])
        sought == elems[1] = Of("x")
        twice  == elems[1] \in {Of("x"), <<"var", "x", <<"greedy">>>>} /\ elems[2] = <<"var", "x", Rx>>
    IN
    ~twice =>
    /\ IsMatch(Result.whole) =>
         /\ \E w \in ways : w.b = Result.whole.b
         /\ sought => \A w \in ways : size(w) >= size(Result.whole)
    /\ IsMatch(Result.lazy) => \E w \in free : w.b = Result.lazy.b
    /\ Len(elems) = 2 /\ elems[1] \in {A, B, Of("x")} /\ elems[2] \in {A, B, Rx} =>
         (IsMatch(Result.lazy) <=> free # {})

\* Where a query of a file ends, the lines that are left are those from the line that is
\* counted there.
PlacesTrue ==
  Called("file") =>
    \A r \in {Result.plain, Result.block, Result.accepted, Result.thrown} :
      IsMatch(r) /\ r.pos # Nil /\ r.pos[1] # Unopened => r.pos[1] = SubSeq(Args[2], r.pos[2], Len(Args[2]))

\* A block that accepts at its end matches what it matches when it ends there, unless what
\* comes before would have tried the end, and so the accept, again.
TriesAll(e) == e[1] = "fuzz" \/ (e[1] = "skip" /\ e[4])
AcceptsAlike ==
  Called("file") =>
    LET left(r)    == IF r.pos = Nil THEN <<>> ELSE r.pos[1]
        same(r, s) == r.kind = s.kind /\ (IsMatch(r) => r.b = s.b /\ left(r) = left(s))
    IN
    /\ same(Result.plain, Result.block)
    /\ (\A i \in DOMAIN Args[1] : ~TriesAll(Args[1][i][1])) => same(Result.plain, Result.accepted)

\* A clause that is left by an exception leaves no binding behind but what is thrown, and
\* takes no line.
ThrowsUndone ==
  Called("file") =>
    LET file == Args[2]
        b    == Result.plain.b
        r    == Result.thrown
    IN
    IsMatch(Result.plain) /\ (\A i \in DOMAIN Args[1] : ~TriesAll(Args[1][i][1])) =>
      IF file = <<>> THEN r.kind = "fail"
      ELSE IsMatch(r) /\ r.b = ("z" :> Str(file[1])) @@ (IF "x" \in DOMAIN b THEN "y" :> b["x"] ELSE <<>>)

\* A collection of one line takes all lines that match it, in order, and no others.
CollectsAll ==
  Called("file") /\ Len(Args[1]) = 1 /\ Args[1][1][1][1] = "collect" =>
    LET e    == Args[1][1][1]
        file == Args[2]
        ends(i) == {w \in Reads(e[2][1], file[i], Start) : w.at = Len(file[i])}
        hits == SelectSeq([i \in DOMAIN file |-> i], LAMBDA i : ends(i) # {})
        one(i) == (CHOOSE w \in ends(i) : TRUE).b
        syms == IF hits = <<>> THEN {} ELSE DOMAIN one(hits[1])
    IN
    Len(e[2]) = 1 /\ e[3] = <<>> /\ e[4] = NoLimits =>
      IsMatch(Result.plain)
        /\ Result.plain.b = [sym \in syms |-> List([i \in DOMAIN hits |-> one(hits[i])[sym]])]

\* Output with the same lines gives back the lines that were collected with them, whichever
\* clauses repeat them: no repetition is lost or made twice.
OutputRestores ==
  Called("repeat") =>
    LET takes(line) == \E w \in Reads(Args[1], line, Start) : w.at = Len(line)
        lines == SelectSeq(Args[2], takes)
    IN  Result = FlattenSeq([i \in DOMAIN lines |-> Append(lines[i], "n")])

\* Queries match what the manual says, and leave the lines where it says; and output is
\* what they were matched with.
PatternsExact ==
  LinesExplained /\ PlacesTrue /\ AcceptsAlike /\ ThrowsUndone /\ CollectsAll /\ OutputRestores

\* A list that any clause of a repetition mentions is repeated to its end.
RepeatsAll ==
  Called("variables") /\ Of("x") \in {Args[1][1], Args[2][1]} =>
    Cardinality({i \in DOMAIN Result : Result[i] = "n"}) = Len(Args[3])
=============================================================================

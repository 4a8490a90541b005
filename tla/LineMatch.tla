----------------------------- MODULE LineMatch ------------------------------
(***************************************************************************)
(* match.c, horizontally: the elements of one line of a query, matched one *)
(* after another from a position of a line of text.                        *)
(*                                                                         *)
(* An element is a tuple headed by its directive.  A regular expression is *)
(* the set of texts it matches.  A context c has the bindings b, the       *)
(* elements spec, the line with its base and pos, the data and lineno the  *)
(* line comes from, the pattern functions funs, the names of blocks that   *)
(* can be left, and the types of exceptions that handlers are there for.   *)
(*                                                                         *)
(* Left out: elements that only vertical directives handle, functions of   *)
(* lines called in a line, :compat, and expressions, of which only         *)
(* variables and constants occur.                                          *)
(***************************************************************************)
EXTENDS Integers, FiniteSetsExt, SequencesExt, TLC

CONSTANTS
  Nil,            \* the symbol nil; no value, no name
  Blanks,         \* the characters that trimming removes
  Message,        \* stands for the text of a message
  HiWater, Shift  \* shift_hiwater and shift_amount of consume_prefix

-----------------------------------------------------------------------------
(* Values and bindings.                                                    *)

Str(s)   == <<"str", s>>
List(vs) == <<"list", vs>>
Num(n)   == <<"num", n>>

RECURSIVE TreeFind(_, _)
TreeFind(v, tree) ==
  \/ v = tree
  \/ tree[1] = "list" /\ \E i \in DOMAIN tree[2] : TreeFind(v, tree[2][i])

Bound(sym, b) == sym \in DOMAIN b
Put(sym, v, b) == (sym :> v) @@ b
Without(b, syms) == [sym \in DOMAIN b \ syms |-> b[sym]]

\* The bindings in b that are not in others.
Newer(b, others) == Without(b, {sym \in DOMAIN b : Bound(sym, others) /\ others[sym] = b[sym]})

\* Stands for the t that dest_bind returns on a mismatch.
Mismatch == Put(Nil, Nil, <<>>)

Bind(b, sym, v) ==
  IF sym = Nil THEN b
  ELSE IF ~Bound(sym, b) THEN Put(sym, v, b)
  ELSE IF TreeFind(v, b[sym]) \/ TreeFind(b[sym], v) THEN b
  ELSE Mismatch

-----------------------------------------------------------------------------
(* What comes of matching: a match up to pos, where End is all the rest; no*)
(* match; an exit to a block, that accepts with bindings and a place or    *)
(* fails; an exception.                                                    *)

End          == -1
Match(b, pos) == [kind |-> "match", b |-> b, pos |-> pos]
Fail         == [kind |-> "fail"]
Exit(target, accept, b, place, hpos) ==
  [kind |-> "exit", target |-> target, accept |-> accept, b |-> b, place |-> place, hpos |-> hpos]
Throw(type, args) == [kind |-> "throw", type |-> type, args |-> args]
SemError     == Throw("query-error", <<Str(<<Message>>)>>)
TypeError    == Throw("type-error", <<Str(<<Message>>)>>)

\* What a directive answers: go on with the next element, or with these ones.
NextSpec(c)      == [kind |-> "next", c |-> c]
RepeatSpec(c)    == [kind |-> "repeat", c |-> c]

IsMatch(r)  == r.kind = "match"

\* What follows from a result.
After(r, Then(_)) == Then(r)
Leaves(r)   == r.kind \in {"exit", "throw"}

\* The place in the data that an accept records; none at the end.
Place(c) == IF c.data = <<>> THEN Nil ELSE <<c.data, c.lineno>>

\* An exit to this block, and one that accepts.
Taken(r, name)  == r.kind = "exit" /\ r.target = name
Accepts(r)      == r.kind = "exit" /\ r.accept

-----------------------------------------------------------------------------
(* Strings.                                                                *)

Length(c)          == Len(c.line)
Sub(c, from, to)   == SubSeq(c.line, from + 1, Min({to, Length(c)}))
MatchStr(line, s, pos) == pos + Len(s) <= Len(line) /\ SubSeq(line, pos + 1, pos + Len(s)) = s

RECURSIVE TrimStr(_)
TrimStr(s) ==
  IF s # <<>> /\ s[1] \in Blanks THEN TrimStr(Tail(s))
  ELSE IF s # <<>> /\ Last(s) \in Blanks THEN TrimStr(Front(s)) ELSE s

\* The lengths of what matches an element of strings at pos.
RECURSIVE StrLengths(_, _, _)
StrLengths(line, tree, pos) ==
  CASE tree[1] = "str"  -> IF MatchStr(line, tree[2], pos) THEN {Len(tree[2])} ELSE {}
    [] tree[1] = "list" -> UNION {StrLengths(line, tree[2][i], pos) : i \in DOMAIN tree[2]}
    [] OTHER            -> {}
RxLengths(line, rx, pos) == {Len(s) : s \in {x \in rx : MatchStr(line, x, pos)}}

Longest(lengths) == IF lengths = {} THEN Nil ELSE Max(lengths)

\* The first or the last position from which an element of strings matches: search_str,
\* search_regex; of a list, the first position that is first or last for one of its strings.
FindFrom_Inverted(c, greedy, starts) ==
  IF starts = {} THEN Nil ELSE IF greedy THEN Min(starts) ELSE Max(starts)
FindFrom(c, greedy, starts) ==
  IF starts = {} THEN Nil ELSE IF greedy THEN Max(starts) ELSE Min(starts)
FindStr(c, s, greedy) ==
  FindFrom(c, greedy, {p \in c.pos..Length(c) : MatchStr(c.line, s, p)})
FindRx(c, rx, greedy) ==
  FindFrom(c, greedy, {p \in c.pos..Length(c) : RxLengths(c.line, rx, p) # {}})
RECURSIVE FindTree(_, _, _)
FindTree(c, tree, greedy) ==
  CASE tree[1] = "str"  -> FindStr(c, tree[2], greedy)
    [] tree[1] = "list" ->
         LET at == {FindTree(c, tree[2][i], greedy) : i \in DOMAIN tree[2]} \ {Nil} IN
         IF at = {} THEN Nil ELSE Min(at)
    [] OTHER            -> Nil

-----------------------------------------------------------------------------
(* Elements.                                                               *)

RECURSIVE Line(_)       \* match_line

LineOf(c, spec) == Line([c EXCEPT !.spec = spec])
At(c, b, pos, spec) == [c EXCEPT !.b = b, !.pos = pos, !.spec = spec]

\* A lazy line is cut short from time to time.
ConsumePrefix(c) ==
  IF c.lazy /\ c.pos > HiWater
  THEN [c EXCEPT !.base = @ + Shift, !.pos = @ - Shift, !.line = SubSeq(@, Shift + 1, Len(@))]
  ELSE c

\* The position that a nested match answers, in this line: to subtract the base from the end
\* of the line is an error.
Numbered(found) == After(found, LAMBDA r : IF IsMatch(r) /\ r.pos = End THEN TypeError ELSE r)
Local(c, r) == r.pos - c.base

Text(c, texts) ==
  After(LineOf(c, texts), LAMBDA r :
    IF IsMatch(r) THEN NextSpec([c EXCEPT !.pos = Local(c, r)]) ELSE r)

\* The first position at which spec matches, with sym bound to the text before it.
RECURSIVE Search(_, _, _, _)
Search(c, positions, sym, spec) ==
  IF positions = <<>> THEN Fail
  ELSE LET pos == Head(positions)
           b   == IF sym = Nil THEN c.b ELSE Put(sym, Str(Sub(c, c.pos, pos)), c.b)
       IN  After(Line(At(c, b, pos, spec)), LAMBDA r :
             IF r.kind = "fail" THEN Search(c, Tail(positions), sym, spec)
             ELSE IF IsMatch(r) THEN Match(b, pos) ELSE r)

Positions(c, greedy) ==
  LET up == [i \in 1..Length(c) - c.pos + 1 |-> c.pos + i - 1] IN
  IF greedy THEN Reverse(up) ELSE up

\* Text of a variable, from pos to past.
Spanned(c, b, sym, text, past, rest) ==
  LET bound == Bind(b, sym, Str(text)) IN
  IF bound = Mismatch THEN Fail ELSE RepeatSpec(At(c, bound, past, rest))

\* A variable that is not bound, before next: it takes the text up to it.
Unbound(c, sym, greedy, rest) ==
  LET next   == Head(rest)
      to(p)  == IF sym = Nil THEN c.b ELSE Put(sym, Str(Sub(c, c.pos, p)), c.b)
      resume(found) == After(found, LAMBDA r :
                         IF IsMatch(r) THEN RepeatSpec(At(c, to(r.pos), r.pos, rest)) ELSE r)
  IN
  CASE rest = <<>> \/ next = List(<<>>) ->
         RepeatSpec(At(c, to(Length(c)), Length(c), IF rest = <<>> THEN rest ELSE Tail(rest)))
    [] next[1] = "str" /\ next[2] # <<>> ->
         LET p == FindStr(c, next[2], greedy) IN
         IF p = Nil THEN Fail ELSE RepeatSpec(At(c, to(p), p + Len(next[2]), Tail(rest)))
    [] next[1] = "rx" ->
         LET p == FindRx(c, next[2], greedy) IN
         IF p = Nil THEN Fail
         ELSE RepeatSpec(At(c, to(p), p + Longest(RxLengths(c.line, next[2], p)), Tail(rest)))
    [] next[1] = "list" ->
         LET p == FindTree(c, next, greedy) IN
         IF p = Nil THEN Fail
         ELSE RepeatSpec(At(c, to(p), p + Longest(StrLengths(c.line, next, p)), Tail(rest)))
    [] next[1] = "text" -> resume(Search(c, Positions(c, greedy), Nil, <<next>>))
    \* the second of two variables has to be bound, or to be given by an expression
    [] next[1] = "var" ->
         IF Bound(next[2], c.b)
         THEN RepeatSpec([c EXCEPT !.spec = <<<<"var", sym, IF greedy THEN <<"greedy">> ELSE <<>>>>,
                                          c.b[next[2]]>> \o Tail(rest)])
         ELSE IF next[3] # <<>> /\ next[3][1] = "rx"
         THEN LET p == FindRx(c, next[3][2], greedy)
                  past == p + Longest(RxLengths(c.line, next[3][2], p))
              IN IF p = Nil THEN Fail
                 ELSE RepeatSpec(At(c, IF next[2] = Nil THEN to(p) ELSE Put(next[2], Str(Sub(c, p, past)), to(p)),
                                past, Tail(rest)))
         ELSE SemError
    [] next[1] \in {"str", "num"} -> SemError
    [] OTHER -> resume(Search(c, Positions(c, greedy), sym, rest))

\* A variable with a modifier: an element that it spans, a width, or the name of one.
Var(c, sym, modifier, rest) ==
  LET named == modifier # <<>> /\ modifier[1] = "named"
      value == c.b[modifier[2]]
      mod   == IF ~named THEN modifier ELSE value
      width == mod # <<>> /\ mod[1] = "num"
  IN
  CASE named /\ ~Bound(modifier[2], c.b) -> SemError
    [] mod # <<>> /\ mod[1] \in {"rx", "call", "list"} ->
         After(Numbered(LineOf(c, <<mod>>)), LAMBDA r :
           IF IsMatch(r) THEN Spanned(c, r.b, sym, Sub(c, c.pos, Local(c, r)), Local(c, r), rest)
           ELSE r)
    [] width ->
         LET past == c.pos + mod[2] IN
         IF past > Length(c) \/ past < c.pos THEN Fail
         ELSE Spanned(c, c.b, sym, TrimStr(Sub(c, c.pos, past)), past, rest)
    [] mod # <<>> /\ mod[1] = "str" -> SemError
    [] sym # Nil /\ Bound(sym, c.b) -> RepeatSpec([c EXCEPT !.spec = <<c.b[sym]>> \o rest])
    [] OTHER -> Unbound(c, sym, mod = <<"greedy">>, rest)

\* Skip over characters, at most left more of them (Nil: any number), to where rest matches.
RECURSIVE SkipFrom(_, _, _, _, _)
SkipFrom(c, rest, left, greedy, last) ==
  IF left = 0 THEN Fail
  ELSE After(LineOf(c, rest), LAMBDA r :
         LET good == IF IsMatch(r) THEN r ELSE last IN
         IF Leaves(r) \/ (IsMatch(r) /\ ~greedy) THEN r
         ELSE IF Length(c) <= c.pos THEN good
         ELSE SkipFrom(ConsumePrefix([c EXCEPT !.pos = @ + 1]), rest,
                       IF left = Nil THEN Nil ELSE left - 1, greedy, good))

RECURSIVE Advanced(_, _)
Advanced(c, n) == IF n = 0 \/ Length(c) <= c.pos THEN c
                  ELSE Advanced(ConsumePrefix([c EXCEPT !.pos = @ + 1]), n - 1)

HSkip(c, max, min, greedy, rest) ==
  IF rest = <<>> THEN Match(c.b, End)
  ELSE LET from == IF min = Nil THEN c ELSE Advanced(c, min) IN
       IF min # Nil /\ from.pos + from.base # c.pos + c.base + min THEN Fail
       ELSE SkipFrom(from, rest, max, greedy, Fail)

\* After an accept, the line goes on where it was left, if it is the same.
HBlock(c, name, spec) ==
  After(Numbered(LineOf([c EXCEPT !.blocks = @ \cup {name}], spec)), LAMBDA r :
  CASE Taken(r, name) ->
         IF ~r.accept THEN Fail
         ELSE IF r.hpos # Nil /\ r.place # Nil /\ r.place[1] = c.data
         THEN NextSpec([c EXCEPT !.b = r.b, !.pos = r.hpos - c.base])
         ELSE NextSpec([c EXCEPT !.b = r.b])
    [] IsMatch(r) -> NextSpec([c EXCEPT !.b = r.b, !.pos = Local(c, r)])
    [] OTHER -> r)

HAcceptFail(c, accept, target) ==
  IF target \in c.blocks
  THEN Exit(target, accept, c.b, Place(c), c.pos + c.base)
  ELSE SemError

HTrailer(c, rest) ==
  After(LineOf(c, rest), LAMBDA r :
  CASE IsMatch(r) -> Match(r.b, c.pos + c.base)
    [] Accepts(r) -> [r EXCEPT !.place = <<c.data, c.lineno>>, !.hpos = c.pos + c.base]
    [] OTHER      -> r)

Eol(c) == IF Length(c) <= c.pos THEN NextSpec(c) ELSE Fail

\* Where the match is: in what is left of a lazy line.
HChr(c, sym) ==
  LET b == Bind(c.b, sym, Num(c.pos)) IN
  IF b = Mismatch THEN Fail ELSE NextSpec([c EXCEPT !.b = b])

-----------------------------------------------------------------------------
(* Collecting, of a line or of the lines of a file.  The options o say how *)
(* many characters or lines may and have to lie between the matches, how   *)
(* many matches there may and have to be, the limit on attempts, a counter *)
(* with its first value, and the variables that are kept, with defaults.   *)

Either(n, m) == IF n # Nil THEN n ELSE m
OrZero(n)    == Either(n, 0)
Lowest(o)    == OrZero(Either(o.gap, o.mingap))
Highest(o)   == OrZero(Either(o.gap, o.maxgap))
Gapped(o)    == o.gap # Nil \/ o.mingap # Nil
Bounded(o)   == o.gap # Nil \/ o.maxgap # Nil
Most(o)      == Either(o.times, o.maxtimes)
Least(o)     == OrZero(Either(o.times, o.mintimes))
Kept(o)      == IF o.vars = Nil THEN <<>> ELSE o.vars
OnlyKept(o)  == o.vars # Nil \/ o.rep

\* How far a collection is: gaps, matches, attempts, and what was collected.
Fresh(o) == [min |-> Lowest(o), max |-> 0, times |-> 0, tries |-> 0, coll |-> <<>>]
Exhausted(o) == Most(o) = 0 \/ o.tries = 0

Counted(c, o, n) == IF o.counter = Nil THEN c.b ELSE Put(o.counter[1], Num(o.counter[2] + n.times), c.b)

\* The bindings that the clause after until or last sees.
Seen(c, o, r) ==
  CASE IsMatch(r)       -> r.b
    [] o.counter # Nil  -> Put(o.counter[1], List(<<>>), c.b)
    [] OTHER            -> <<>>
Sees(c, seen) == IF DOMAIN seen = {} THEN c.b ELSE seen

Lacking(o, b) == {i \in DOMAIN Kept(o) : ~Bound(Kept(o)[i][1], b)}
Defaults(o, b) ==
  LET dfl == {i \in Lacking(o, b) : Kept(o)[i][2] # Nil} IN
  [sym \in {Kept(o)[i][1] : i \in dfl} |-> Kept(o)[CHOOSE i \in dfl : Kept(o)[i][1] = sym][2]]

\* A variable without a default has to be bound, unless no variable is.
Missing_(c, o, b) ==
  /\ DOMAIN Newer(b, c.b) # {}
  /\ \E i \in Lacking(o, b) : Kept(o)[i][2] = Nil
Discarded(o, b) ==
  /\ Kept(o) # <<>> /\ Lacking(o, b) = DOMAIN Kept(o)
  /\ \E i \in DOMAIN Kept(o) : Kept(o)[i][2] = Nil

Collected(c, o, b, coll) ==
  LET new  == Newer(b, c.b) @@ Defaults(o, b)
      syms == IF Discarded(o, b) THEN {}
              ELSE IF OnlyKept(o) THEN DOMAIN new \cap {Kept(o)[i][1] : i \in DOMAIN Kept(o)}
              ELSE DOMAIN new
      old(sym) == IF Bound(sym, coll) THEN coll[sym] ELSE <<>>
  IN  [sym \in syms \cup DOMAIN coll |-> IF sym \in syms THEN Append(old(sym), new[sym]) ELSE old(sym)]

\* The bindings after a collection; none if it fails.
Failed(o, n, until, ended) == n.times < Least(o) \/ (~ended /\ until # <<>> /\ until[3])
Gathered(c, o, n, last) ==
  LET b     == last @@ [sym \in DOMAIN n.coll |-> List(n.coll[sym])] @@ c.b
      empty == (IF DOMAIN n.coll = {} THEN {Kept(o)[i][1] : i \in DOMAIN Kept(o)} ELSE {}) \cup o.lists
  IN  b @@ [sym \in empty |-> List(<<>>)]

CollEnd(c, until, o, n, ended, last) ==
  IF Failed(o, n, until, ended) THEN Fail ELSE NextSpec([c EXCEPT !.b = Gathered(c, o, n, last)])

RECURSIVE CollFrom(_, _, _, _, _)
CollFrom(c, body, until, o, n) ==
  LET ends(d, m, ended, last) == [kind |-> "ends", c |-> d, n |-> m, ended |-> ended, last |-> last]
      goes(d, m) == [kind |-> "goes", c |-> ConsumePrefix(d), n |-> m]
      skips(m) ==
        LET next == [c EXCEPT !.pos = @ + 1] IN
        IF Bounded(o) /\ m.max + 1 > Highest(o) THEN ends(c, m, FALSE, <<>>)
        ELSE IF Length(c) <= next.pos THEN ends(next, m, FALSE, <<>>)
        ELSE goes(next, [m EXCEPT !.min = @ + 1, !.max = @ + 1])
      tried == [n EXCEPT !.tries = @ + 1]
      takes(pos, coll) ==
        LET m == [tried EXCEPT !.coll = coll, !.times = @ + 1, !.min = 0, !.max = 0] IN
        IF m.times = Most(o) \/ Length(c) <= pos THEN ends([c EXCEPT !.pos = pos], m, FALSE, <<>>)
        ELSE goes([c EXCEPT !.pos = pos], m)
      \* from the matches of the body and of the clause after until or last
      next(r, u, coll) ==
        CASE Leaves(r)                       -> r
          [] Leaves(u)                       -> u
          [] IsMatch(u) /\ until[1] = "last" ->
               ends([c EXCEPT !.pos = Local(c, u)], tried, TRUE, Newer(u.b, Seen(c, o, r)))
          [] IsMatch(u)                      -> ends(c, tried, TRUE, <<>>)
          [] ~IsMatch(r)                     -> skips(tried)
          [] r.pos = End                     -> TypeError
          [] Missing_(c, o, r.b)             -> SemError
          [] Local(c, r) = c.pos             -> skips([tried EXCEPT !.coll = coll])
          [] OTHER                           -> takes(Local(c, r), coll)
      tries(r) ==
        next(r, IF until = <<>> THEN Fail
                ELSE Numbered(Line([c EXCEPT !.b = Sees(c, Seen(c, o, r)), !.spec = until[2]])),
             Collected(c, o, r.b, n.coll))
  IN
  After(CASE Gapped(o) /\ n.min < Lowest(o) -> skips(n)
          [] n.tries = o.tries -> ends(c, n, FALSE, <<>>)
          [] OTHER -> tries(Line([c EXCEPT !.b = Counted(c, o, n), !.spec = body])),
    LAMBDA x : CASE x.kind = "ends" -> CollEnd(x.c, until, o, x.n, x.ended, x.last)
                 [] x.kind = "goes" -> CollFrom(x.c, body, until, o, x.n)
                 [] OTHER           -> x)

Coll(c, body, until, o) == IF Exhausted(o) THEN NextSpec(c) ELSE CollFrom(c, body, until, o, Fresh(o))

-----------------------------------------------------------------------------
(* Clauses side by side.  Each sees the bindings of those before it, except*)
(* under choose, which keeps those of one of them.                         *)

\* What a choice is made by: the length of what the variable is bound to.
Criterion(o) == Either(o.longest, o.shortest)
Choosable(o, b) == Criterion(o) # Nil /\ Bound(Criterion(o), b) /\ b[Criterion(o)] # List(<<>>)
Better(o, v, size) ==
  \/ size = Nil
  \/ IF o.longest # Nil THEN Len(v[2]) > size ELSE Len(v[2]) < size

\* The clauses' state: bindings, how far, whether some and whether all have matched; the
\* choice; and the bindings of the variables to be resolved after all.
Abreast(c, pos) == [b |-> c.b, max |-> pos, some |-> FALSE, all |-> TRUE,
                    choice |-> [b |-> c.b, pos |-> pos, size |-> Nil], resolved |-> <<>>]

Resolving(c, o) == {v \in o.resolve : ~Bound(v, c.b)}
Resolve(c, o, s, b) == [v \in Resolving(c, o) \cap DOMAIN b |-> b[v]] @@ s.resolved

Chosen(o, choice, b, pos) ==
  IF Choosable(o, b) /\ Better(o, b[Criterion(o)], choice.size)
  THEN [b |-> b, pos |-> pos, size |-> Len(b[Criterion(o)][2])] ELSE choice

\* A clause has matched with bindings b, up to pos, and so to max.
Joined(c, op, o, s, b, pos, max) ==
  LET own == Without(b, Resolving(c, o)) IN
  [s EXCEPT !.some = TRUE, !.max = max, !.resolved = Resolve(c, o, s, b),
            !.b = IF op = "choose" THEN @ ELSE own,
            !.choice = IF op = "choose" THEN Chosen(o, @, own, pos) ELSE @]

Stops(op, matched) == IF matched THEN op \in {"cases", "none"} ELSE op = "all"
Succeeds(op, s) ==
  CASE op = "all" -> s.all [] op \in {"some", "cases"} -> s.some [] op = "none" -> ~s.some
    [] OTHER -> TRUE

HParallelEnd(c, op, s) ==
  IF ~Succeeds(op, s) THEN Fail
  ELSE IF op = "choose" THEN NextSpec([c EXCEPT !.b = s.choice.b, !.pos = s.choice.pos])
  ELSE NextSpec([c EXCEPT !.b = s.resolved @@ s.b, !.pos = s.max])

RECURSIVE HParallelFrom(_, _, _, _, _)
HParallelFrom(c, op, clauses, o, s) ==
  IF clauses = <<>> THEN HParallelEnd(c, op, s)
  ELSE After(Numbered(Line([c EXCEPT !.b = s.b, !.spec = Head(clauses)])), LAMBDA r :
       LET pos == Local(c, r)
           next == IF IsMatch(r) THEN Joined(c, op, o, s, r.b, pos, IF pos > s.max THEN pos ELSE s.max)
                   ELSE [s EXCEPT !.all = FALSE]
       IN
       CASE Leaves(r) -> r
         [] IsMatch(r) /\ op = "choose" /\ Choosable(o, r.b) /\ r.b[Criterion(o)][1] # "str" -> TypeError
         [] Stops(op, IsMatch(r)) -> HParallelEnd(c, op, next)
         [] OTHER -> HParallelFrom(c, op, Tail(clauses), o, next))

HParallel(c, op, clauses, o) ==
  IF (op = "choose" /\ Criterion(o) = Nil) \/ (o.longest # Nil /\ o.shortest # Nil) THEN SemError
  ELSE HParallelFrom(c, op, clauses, o, Abreast(c, c.pos))

-----------------------------------------------------------------------------
(* Functions.  An argument that is a variable without a binding leaves the *)
(* parameter without one, and gets what the function binds it to.          *)

IsOpen(c, arg) == arg[1] = "sym" /\ ~Bound(arg[2], c.b)
Passed(c, arg) == IF arg[1] = "sym" THEN c.b[arg[2]] ELSE arg

RECURSIVE Parameters(_, _, _, _)
Parameters(c, params, args, b) ==
  IF params = <<>> THEN b
  ELSE Parameters(c, Tail(params), Tail(args),
                  IF IsOpen(c, Head(args)) THEN Without(b, {Head(params)})
                  ELSE Put(Head(params), Passed(c, Head(args)), b))

\* fun_resolve_bindings: the last parameter first.
RECURSIVE Returned(_, _, _, _, _)
Returned(c, params, args, b, new) ==
  IF params = <<>> \/ b = Mismatch THEN b
  ELSE Returned(c, Front(params), Front(args),
                IF IsOpen(c, Last(args)) /\ Bound(Last(params), new)
                THEN Bind(b, Last(args)[2], new[Last(params)]) ELSE b,
                new)

\* fun_intercept_accept: an accept leaves the function with the caller's bindings.
Intercepted(c, params, args, found) ==
  After(found, LAMBDA r :
    IF ~Accepts(r) THEN r
    ELSE LET b == Returned(c, params, args, c.b, r.b) IN
         [r EXCEPT !.b = IF b = Mismatch THEN <<>> ELSE b])

Body(c, f, args) ==
  [c EXCEPT !.b = Parameters(c, f[1], args, c.b), !.spec = f[2], !.blocks = @ \cup {Nil}]

\* An accept to the anonymous block of the function makes the caller take the accepted
\* place for a position.
HFun(c, name, args) ==
  LET f == c.funs[name].h
      came(r, b) ==
        CASE Taken(r, Nil) -> IF ~r.accept \/ b = Mismatch THEN Fail ELSE TypeError
          [] ~IsMatch(r)   -> r
          [] b = Mismatch  -> Fail
          [] r.pos = End   -> TypeError
          [] OTHER         -> NextSpec([c EXCEPT !.b = b, !.pos = Local(c, r)])
  IN
  CASE ~(name \in DOMAIN c.funs) -> SemError
    [] f = Nil                   -> SemError
    [] Len(f[1]) # Len(args)     -> SemError
    [] OTHER -> After(Intercepted(c, f[1], args, Line(Body(c, f, args))),
                      LAMBDA r : came(r, Returned(c, f[1], args, c.b, r.b)))

-----------------------------------------------------------------------------
(* The table of directives, and the loop over the elements.                *)

Elem(c, e, rest) ==
  CASE e[1] = "text"     -> Text(c, e[2])
    [] e[1] = "str"      -> IF MatchStr(c.line, e[2], c.pos) THEN NextSpec([c EXCEPT !.pos = @ + Len(e[2])])
                            ELSE Fail
    [] e[1] = "list" /\ e[2] # <<>> ->
         LET n == Longest(StrLengths(c.line, e, c.pos)) IN
         IF n = Nil THEN Fail ELSE NextSpec([c EXCEPT !.pos = @ + n])
    [] e[1] = "rx"       -> LET n == Longest(RxLengths(c.line, e[2], c.pos)) IN
                            IF n = Nil THEN Fail ELSE NextSpec([c EXCEPT !.pos = @ + n])
    [] e[1] = "var"      -> Var(c, e[2], e[3], rest)
    [] e[1] = "skip"     -> HSkip(c, e[2], e[3], e[4], rest)
    [] e[1] = "block"    -> HBlock(c, e[2], e[3])
    [] e[1] \in {"accept", "fail"} -> HAcceptFail(c, e[1] = "accept", e[2])
    [] e[1] = "coll"     -> Coll(c, e[2], e[3], e[4])
    [] e[1] \in {"some", "all", "none", "maybe", "cases", "choose"} -> HParallel(c, e[1], e[2], e[3])
    [] e[1] = "trailer"  -> HTrailer(c, rest)
    [] e[1] = "eol"      -> Eol(c)
    [] e[1] = "chr"      -> HChr(c, e[2])
    [] e[1] = "call"     -> HFun(c, e[2], e[3])
    [] OTHER             -> SemError

Line(c0) ==
  IF c0.spec = <<>> THEN Match(c0.b, c0.pos + c0.base)
  ELSE LET c == ConsumePrefix(c0) IN
       After(Elem(c, Head(c.spec), Tail(c.spec)), LAMBDA r :
         CASE r.kind = "next"   -> Line([r.c EXCEPT !.spec = Tail(c.spec)])
           [] r.kind = "repeat" -> Line(r.c)
           [] OTHER             -> r)

\* match_line_completely
WholeLine(c) ==
  After(Line(c), LAMBDA r :
    IF IsMatch(r) /\ r.pos # End /\ Length(c) > r.pos - c.base THEN Fail ELSE r)
=============================================================================

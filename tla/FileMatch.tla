----------------------------- MODULE FileMatch ------------------------------
(***************************************************************************)
(* match.c, vertically: the lines of a query, matched one after another    *)
(* against the lines of a file.  A line of the query that is nothing but a *)
(* directive is given to the vertical one of that name; all others go to   *)
(* LineMatch.                                                              *)
(*                                                                         *)
(* The context c of LineMatch has, in its spec, the lines of the query, and*)
(* also the files that are left.                                           *)
(*                                                                         *)
(* Left out: output to streams, loading, filters and evaluation; directives*)
(* that assign to existing bindings; functions that are defined in clauses;*)
(* the closing of sources, and that the cells of the list of lines are     *)
(* recycled.  A binding that is made anew with the same value is not told  *)
(* from the old one.                                                       *)
(***************************************************************************)
EXTENDS Output

CONSTANT Unopened     \* the data of a source that has not been opened

Decline == [kind |-> "decline"]

\* A match of the lines up to a place, in a context that is left.
Reached(c) == [kind |-> "match", b |-> c.b, pos |-> Place(c)]

\* One at the line that comes next.
Here(c) == [Reached(c) EXCEPT !.pos = <<c.data, c.lineno>>]

Files(c, spec) == [c EXCEPT !.spec = spec]

\* Where a match of the clause of a directive leaves the lines.
Resume(c, b, pos) ==
  IF pos = Nil THEN [c EXCEPT !.b = b, !.data = <<>>]
  ELSE [c EXCEPT !.b = b, !.data = pos[1], !.lineno = pos[2]]

\* An accept that ends in a directive which hands its result on for that of a match: the
\* result is a vector, which is no place.
Handed(r) == [kind |-> "handed", b |-> r.b, exit |-> r]
Matches(r) == IsMatch(r) \/ r.kind = "handed"

StepData(c) ==
  [c EXCEPT !.data = IF @ = <<>> THEN @ ELSE Tail(@), !.lineno = @ + 1]

\* The lines of a text.
RECURSIVE SplitLines(_)
SplitLines(s) ==
  IF ~Contains(s, Newline) THEN <<s>>
  ELSE LET n == CHOOSE i \in DOMAIN s : s[i] = Newline /\ \A j \in 1..i - 1 : s[j] # Newline IN
       <<SubSeq(s, 1, n - 1)>> \o SplitLines(SubSeq(s, n + 1, Len(s)))

-----------------------------------------------------------------------------
(* Patterns of values.                                                     *)

IsSym(p) == p[1] = "sym"

RECURSIVE DestBind(_, _, _)
DestBind(b, p, v) ==
  IF b = Mismatch THEN b
  ELSE IF IsSym(p) THEN Bind(b, p[2], v)
  ELSE IF p[1] = "list" /\ p[2] # <<>> /\ v[1] = "list"
  THEN IF v[2] = <<>> THEN Mismatch
       ELSE LET first == DestBind(b, Head(p[2]), Head(v[2]))
                rest  == Tail(p[2])
            IN IF rest = <<>> /\ Tail(v[2]) = <<>> THEN first
               ELSE IF rest = <<>> \/ Tail(v[2]) = <<>> THEN Mismatch
               ELSE DestBind(first, List(rest), List(Tail(v[2])))
  ELSE IF p[1] = "list" /\ p[2] # <<>> THEN Mismatch
  ELSE IF TreeFind(p, v) \/ TreeFind(v, p) THEN b ELSE Mismatch

Value(c, expr) == IF IsSym(expr) THEN c.b[expr[2]] ELSE expr
Valued(c, expr) == IsSym(expr) => Bound(expr[2], c.b)
Bindings(c, b) == IF b = Mismatch THEN Fail ELSE NextSpec([c EXCEPT !.b = b])

VBind(c, p, expr) ==
  IF ~Valued(c, expr) THEN SemError ELSE Bindings(c, DestBind(c.b, p, Value(c, expr)))

RECURSIVE SymsOf(_)
SymsOf(p) == IF IsSym(p) THEN {p[2]}
             ELSE IF p[1] = "list" THEN UNION {SymsOf(p[2][i]) : i \in DOMAIN p[2]} ELSE {}

\* The old bindings of the variables are removed first.
VRebind(c, p, expr) ==
  IF ~Valued(c, expr) THEN SemError
  ELSE Bindings(c, DestBind(Without(c.b, SymsOf(p)), p, Value(c, expr)))

VForget(c, syms) == NextSpec([c EXCEPT !.b = Without(c.b, syms)])

RECURSIVE Depth(_)
Depth(v) == IF v = List(<<>>) THEN 1 ELSE IF v[1] # "list" THEN 0
            ELSE 1 + Max({0} \cup {Depth(v[2][i]) : i \in DOMAIN v[2]})
AsList(v) == IF Depth(v) > 0 THEN v ELSE List(<<v>>)
WeirdMerge(u, v) == List(AsList(u)[2] \o AsList(v)[2])

RECURSIVE Merged(_, _, _)
Merged(c, args, merged) ==
  IF args = <<>> THEN merged
  ELSE Merged(c, Tail(args),
              IF merged = List(<<>>) THEN Value(c, Head(args))
              ELSE WeirdMerge(merged, Value(c, Head(args))))
VMerge(c, target, args) ==
  IF \E i \in DOMAIN args : ~Valued(c, args[i]) THEN SemError
  ELSE NextSpec([c EXCEPT !.b = Put(target, Merged(c, args, List(<<>>)), c.b)])

VLine(c, p) == Bindings(c, DestBind(c.b, p, Num(c.lineno)))
\* The list of lines itself.
VData(c, sym) ==
  LET b == Bind(c.b, sym, <<"data", c.lineno, c.data>>) IN
  IF b = Mismatch THEN Fail ELSE NextSpec([c EXCEPT !.b = b])
VEof(c) == IF c.data # <<>> THEN Fail ELSE NextSpec(c)
VRequire(c, expr) ==
  IF ~Valued(c, expr) THEN SemError
  ELSE IF Value(c, expr) = List(<<>>) THEN Fail ELSE NextSpec(c)

\* Lines of output are put before those that come next.
VPush(c, specs) ==
  LET text  == OutputText(c.b, specs)
      lines == IF text = <<>> THEN <<>> ELSE SplitLines(Front(text))
  IN  NextSpec([c EXCEPT !.data = lines \o @, !.lineno = @ - Len(lines)])

-----------------------------------------------------------------------------
(* Directives with clauses.                                                *)

\* An exception that is no error, and that nothing is there for, is not thrown.
Errors == {"query-error", "type-error", "file-error"}
IsA(type, super) == super = "t" \/ type = super \/ (super = "error" /\ type \in Errors)
Thrown(c, type) == type \in Errors \cup {"error"} \/ \E super \in c.handlers : IsA(type, super)

RECURSIVE MatchFiles(_)

\* To be tried at the first line, the next one, and so on; at most left times.
RECURSIVE VSkipFrom(_, _, _, _)
VSkipFrom(c, left, greedy, last) ==
  IF left = 0 THEN last
  ELSE After(MatchFiles(Files([c EXCEPT !.blocks = @ \cup {Nil}], c.spec)), LAMBDA r :
       LET good == IF Matches(r) THEN r ELSE last IN
       CASE Taken(r, Nil)           -> IF r.accept THEN Handed(r) ELSE last
         [] Leaves(r)               -> r
         [] Matches(r) /\ ~greedy   -> r
         [] c.data = <<>>           -> good
         [] OTHER -> VSkipFrom(StepData(c), IF left = Nil THEN Nil ELSE left - 1, greedy, good))

RECURSIVE Stepped(_, _)
Stepped(c, n) == IF n = 0 \/ c.data = <<>> THEN c ELSE Stepped(StepData(c), n - 1)

VSkip(c, max, min, greedy) ==
  LET rest == [c EXCEPT !.spec = Tail(@)]
      from == IF min = Nil THEN rest ELSE Stepped(rest, min)
  IN
  CASE rest.spec = <<>> -> Here(c)
    [] min # Nil /\ from.lineno # c.lineno + min -> Fail
    [] OTHER -> VSkipFrom(from, max, greedy, Fail)

\* At least least of the next most lines of the query match theirs.
RECURSIVE FuzzFrom(_, _, _, _, _)
FuzzFrom(c, least, most, reps, good) ==
  IF reps = most THEN IF good < least THEN Fail ELSE MatchFiles(Files(c, c.spec))
  ELSE After(MatchFiles(Files(c, <<Head(c.spec)>>)), LAMBDA r :
       LET more == good + IF Matches(r) THEN 1 ELSE 0
           next == [StepData(c) EXCEPT !.spec = Tail(@)]
       IN
       CASE Leaves(r)          -> r
         [] c.data = <<>>      -> MatchFiles(Files(c, c.spec))
         [] next.spec = <<>>   -> IF more >= least THEN MatchFiles(Files(next, <<>>)) ELSE Fail
         [] OTHER              -> FuzzFrom(next, least, most, reps + 1, more))
VFuzz(c, least, most) ==
  IF Tail(c.spec) = <<>> THEN Here(c)
  ELSE FuzzFrom([c EXCEPT !.spec = Tail(@)], least, most, 0, 0)

\* The lines are left where they are, by an accept too.
Kept_(c, r) == IF Accepts(r) THEN [r EXCEPT !.place = <<c.data, c.lineno>>, !.hpos = Nil] ELSE r
VTrailer(c) ==
  IF Tail(c.spec) = <<>> THEN Here(c)
  ELSE After(MatchFiles(Files(c, Tail(c.spec))), LAMBDA r :
       IF Matches(r) THEN [Here(c) EXCEPT !.b = r.b] ELSE Kept_(c, r))

\* The lines, or limit of them, as one lazy line.
RECURSIVE Joined_(_)
Joined_(lines) == IF lines = <<>> THEN <<>> ELSE Head(lines) \o <<Newline>> \o Joined_(Tail(lines))
\* The lines of what is left of the joined ones; the newline at the end ends the last.
Trailing(text, rest) == IF text = <<>> THEN rest ELSE Front(SplitLines(text)) \o rest

VFreeform(c, limit) ==
  LET n    == IF limit = Nil \/ limit > Len(c.data) THEN Len(c.data) ELSE limit
      text == Joined_(SubSeq(c.data, 1, n))
      rest == SubSeq(c.data, n + 1, Len(c.data))
      left(pos) == CASE pos # End   -> Trailing(SubSeq(text, pos + 1, Len(text)), rest)
                     [] limit # Nil -> rest
                     [] OTHER       -> <<>>
  IN
  CASE Len(c.spec) < 2 -> SemError
    [] c.data = <<>>   -> Fail
    [] OTHER ->
         After(Line([c EXCEPT !.spec = c.spec[2], !.line = text, !.lazy = TRUE, !.base = 0, !.pos = 0]), LAMBDA r :
           IF ~IsMatch(r) THEN r
           ELSE NextSpec([c EXCEPT !.b = r.b, !.data = left(r.pos), !.spec = Tail(@),
                                   !.lineno = @ + IF r.pos # End \/ limit # Nil THEN 1 ELSE 0]))

\* Where an accept leaves a block: behind the line, if it was accepted within it.
TakeAccept(c, r) ==
  CASE r.hpos # Nil /\ r.place # Nil /\ r.place[1] = c.data -> [c EXCEPT !.b = r.b, !.data = Tail(@)]
    [] r.hpos # Nil  -> [c EXCEPT !.b = r.b]
    [] OTHER         -> Resume(c, r.b, r.place)

VBlock(c, name, spec) ==
  After(MatchFiles(Files([c EXCEPT !.blocks = @ \cup {name}], spec)), LAMBDA r :
  CASE Taken(r, name) -> IF r.accept THEN NextSpec(TakeAccept(c, r)) ELSE Fail
    [] r.kind = "handed" -> NextSpec(TakeAccept(c, r.exit))
    [] Matches(r)     -> NextSpec(Resume(c, r.b, r.pos))
    [] OTHER          -> r)

VAcceptFail(c, accept, target) ==
  IF target \in c.blocks THEN Exit(target, accept, c.b, Place(c), Nil) ELSE SemError

\* The first of the expressions that is true decides on the clause.
VIf(c, args) ==
  LET true == {i \in DOMAIN args : Value(c, args[i][1]) # List(<<>>)}
  IN
  CASE \E i \in DOMAIN args : ~Valued(c, args[i][1]) -> SemError
    [] true = {} -> NextSpec(c)
    [] OTHER     -> After(MatchFiles(Files(c, args[Min(true)][2])), LAMBDA r :
                      IF IsMatch(r) THEN NextSpec(Resume(c, r.b, r.pos)) ELSE r)

VAssert(c, type) ==
  IF Tail(c.spec) = <<>> THEN Here(c)
  ELSE After(MatchFiles(Files(c, Tail(c.spec))), LAMBDA r :
       IF r.kind # "fail" THEN r ELSE IF Thrown(c, type) THEN Throw(type, <<>>) ELSE Fail)

-----------------------------------------------------------------------------
(* Other sources of lines.                                                 *)

RECURSIVE Flattened(_)
Flattened(v) == IF v[1] = "list" THEN FlattenSeq([i \in DOMAIN v[2] |-> Flattened(v[2][i])]) ELSE <<v[2]>>

\* What follows is matched in the source; then the lines go on where they are.
VNext(c, source) ==
  LET inner == [Files(c, Tail(c.spec)) EXCEPT !.lineno = 1]
      given == CASE source = <<"empty">>   -> [inner EXCEPT !.files = <<>>, !.data = <<>>, !.lineno = 0]
                 [] source = <<"next">>    -> [inner EXCEPT !.files = Tail(@), !.data = Unopened]
                 [] OTHER                  -> [inner EXCEPT !.data = Flattened(Value(c, source))]
  IN
  CASE Tail(c.spec) = <<>>                              -> Here(c)
    [] source = <<"next">> /\ Len(c.files) < 2          -> SemError
    [] source[1] \notin {"empty", "next"} /\ ~Valued(c, source) -> SemError
    [] OTHER -> After(MatchFiles(given), LAMBDA r :
                  IF Matches(r) THEN [Reached(c) EXCEPT !.b = r.b] ELSE Kept_(c, r))

-----------------------------------------------------------------------------
(* Clauses side by side, and collecting, as in a line.                     *)

\* The place further on of two; the first place, of none (Unopened), and the end after all.
Further(max, pos) ==
  IF max = Nil \/ pos = Nil THEN Nil
  ELSE IF max = Unopened \/ pos[2] > max[2] THEN pos ELSE max
NoPlace(pos) == pos = Unopened \/ (pos # Nil /\ pos[1] = <<>>)
Moved(c, pos) == IF NoPlace(pos) THEN c ELSE Resume(c, c.b, pos)

VParallelEnd(c, op, s) ==
  IF ~Succeeds(op, s) THEN Fail
  ELSE IF op = "choose" THEN NextSpec(Moved([c EXCEPT !.b = s.choice.b], s.choice.pos))
  ELSE NextSpec(Moved([c EXCEPT !.b = s.resolved @@ s.b], s.max))

RECURSIVE VParallelFrom(_, _, _, _, _)
VParallelFrom(c, op, clauses, o, s) ==
  IF clauses = <<>> THEN VParallelEnd(c, op, s)
  ELSE After(MatchFiles(Files([c EXCEPT !.b = s.b], Head(clauses))), LAMBDA r :
       LET next == IF r.kind = "handed" THEN Joined(c, op, o, s, r.b, Unopened, s.max)
                   ELSE IF Matches(r) THEN Joined(c, op, o, s, r.b, r.pos, Further(s.max, r.pos))
                   ELSE [s EXCEPT !.all = FALSE]
       IN
       CASE Leaves(r) -> r
         [] Matches(r) /\ op = "choose" /\ Choosable(o, r.b) /\ r.b[Criterion(o)][1] # "str" -> TypeError
         [] Stops(op, Matches(r)) -> VParallelEnd(c, op, next)
         [] OTHER -> VParallelFrom(c, op, Tail(clauses), o, next))

VParallel(c, op, clauses, o) ==
  IF (op = "choose" /\ Criterion(o) = Nil) \/ (o.longest # Nil /\ o.shortest # Nil) THEN SemError
  ELSE VParallelFrom(c, op, clauses, o, Abreast(c, Unopened))

\* One after another the clauses that are left are tried at a line; those that match are
\* done.  After one that takes all lines, the bindings of others that match are lost.
RECURSIVE GatherPass(_, _, _)
GatherPass(c, specs, s) ==
  IF specs = <<>> \/ s.leaving # Fail THEN s
  ELSE After(MatchFiles(Files([c EXCEPT !.b = s.b], Head(specs))), LAMBDA r :
       GatherPass(c, Tail(specs),
         CASE Leaves(r)          -> [s EXCEPT !.leaving = r]
           [] r.kind = "handed"  -> s
           [] IsMatch(r)         -> IF s.max = Nil /\ r.pos # Nil THEN s
                                    ELSE [s EXCEPT !.b = r.b, !.max = Further(@, r.pos)]
           [] OTHER              -> [s EXCEPT !.left = Append(@, Head(specs))]))

\* With variables to be kept, they decide on success, and the clauses without.
GatherEnd(c, specs, until, o, ended) ==
  IF ~ended /\ until # <<>> /\ until[3] THEN Fail
  ELSE IF o.vars # Nil
  THEN IF \E i \in Lacking(o, c.b) : Kept(o)[i][2] = Nil THEN Fail
       ELSE NextSpec([c EXCEPT !.b = Defaults(o, c.b) @@ @])
  ELSE IF specs # <<>> THEN Fail ELSE NextSpec(c)

\* After until, the bindings of the pass stay; after last, only its own, and at the end of
\* the data the source is to be opened again.
RECURSIVE VGather(_, _, _, _)
VGather(c, specs, until, o) ==
  IF specs = <<>> \/ c.data = <<>> THEN GatherEnd(c, specs, until, o, FALSE)
  ELSE LET passed(s) == [c EXCEPT !.b = s.b]
           last(u) == IF u.pos = Nil THEN [c EXCEPT !.data = Unopened] ELSE Resume(c, c.b, u.pos)
           next(s, u) ==
             CASE s.leaving # Fail  -> s.leaving
               [] Leaves(u)         -> u
               [] Matches(u) /\ until[1] = "last" ->
                    GatherEnd([last(u) EXCEPT !.b = Newer(u.b, s.b) @@ @], specs, until, o, TRUE)
               [] Matches(u)        -> GatherEnd(passed(s), specs, until, o, TRUE)
               [] NoPlace(s.max)    -> VGather(StepData(passed(s)), s.left, until, o)
               [] OTHER             -> VGather(Moved(passed(s), s.max), s.left, until, o)
       IN
       After(GatherPass(c, specs, [b |-> c.b, max |-> Unopened, left |-> <<>>, leaving |-> Fail]), LAMBDA s :
         next(s, IF until = <<>> THEN Fail ELSE MatchFiles(Files(passed(s), until[2]))))

\* To accept in the body ends the collection; to fail there fails it.  (Whether a mandatory
\* collection succeeds then depends on a variable that setjmp does not preserve.)
VCollectEnd(c, until, o, n, ended, last) ==
  IF Failed(o, n, until, ended) THEN Fail ELSE NextSpec([c EXCEPT !.b = Gathered(c, o, n, last)])

\* A match that has not moved takes a line.
Behind(c, r) == IF r.kind = "handed" THEN Nil
                ELSE IF r.pos # Nil /\ r.pos[2] = c.lineno
                THEN <<IF r.pos[1] = <<>> THEN <<>> ELSE Tail(r.pos[1]), c.lineno + 1>> ELSE r.pos

RECURSIVE VCollectFrom(_, _, _, _, _)
VCollectFrom(c, body, until, o, n) ==
  LET in == [c EXCEPT !.blocks = @ \cup {Nil}]
      ends(d, m, ended, last) == [kind |-> "ends", c |-> d, n |-> m, ended |-> ended, last |-> last]
      goes(d, m) == [kind |-> "goes", c |-> d, n |-> m]
      skips(m) ==
        IF Bounded(o) /\ m.max + 1 > Highest(o) THEN ends(c, m, FALSE, <<>>)
        ELSE goes(StepData(c), [m EXCEPT !.min = @ + 1, !.max = @ + 1])
      tried == [n EXCEPT !.tries = @ + 1]
      taken(x) == IF x.accept THEN ends(c, tried, TRUE, <<>>) ELSE Fail
      takes(there, coll) ==
        LET m == [tried EXCEPT !.coll = coll, !.times = @ + 1, !.min = 0, !.max = 0] IN
        IF Most(o) # Nil /\ m.times >= Most(o) THEN ends(there, m, FALSE, <<>>) ELSE goes(there, m)
      next(r, u) ==
        CASE Taken(r, Nil)       -> taken(r)
          [] Leaves(r)           -> r
          [] Taken(u, Nil)       -> taken(u)
          [] Leaves(u)           -> u
          [] Matches(u) /\ until[1] = "last" ->
               ends(Resume(c, c.b, u.pos), tried, TRUE, Newer(u.b, Seen(c, o, r)))
          [] Matches(u)          -> ends(c, tried, TRUE, <<>>)
          [] ~Matches(r)         -> skips(tried)
          [] Missing_(c, o, r.b) -> SemError
          [] OTHER -> takes(Resume(c, c.b, Behind(c, r)), Collected(c, o, r.b, n.coll))
      tries(r) ==
        next(r, IF until = <<>> THEN Fail
                ELSE MatchFiles(Files([in EXCEPT !.b = Sees(c, Seen(c, o, r))], until[2])))
  IN
  After(CASE c.data = <<>>                  -> ends(c, n, FALSE, <<>>)
          [] Gapped(o) /\ n.min < Lowest(o) -> skips(n)
          [] n.tries = o.tries              -> ends(c, n, FALSE, <<>>)
          [] OTHER -> tries(MatchFiles(Files([in EXCEPT !.b = Counted(c, o, n)], body))),
    LAMBDA x : CASE x.kind = "ends" -> VCollectEnd(x.c, until, o, x.n, x.ended, x.last)
                 [] x.kind = "goes" -> VCollectFrom(x.c, body, until, o, x.n)
                 [] OTHER           -> x)

VCollect(c, body, until, o) ==
  IF o.gap # Nil /\ (o.mingap # Nil \/ o.maxgap # Nil) THEN SemError
  ELSE IF o.times = 0 \/ o.tries = 0 THEN NextSpec(c)
  ELSE VCollectFrom(c, body, until, o, Fresh(o))

-----------------------------------------------------------------------------
(* Functions of lines.                                                     *)

VDefine(c, name, params, body) ==
  LET h == IF name \in DOMAIN c.funs THEN c.funs[name].h ELSE Nil IN
  NextSpec([c EXCEPT !.funs = (name :> [h |-> h, v |-> <<params, body>>]) @@ @])
HDefine(c, name, params, body) ==
  LET v == IF name \in DOMAIN c.funs THEN c.funs[name].v ELSE Nil IN
  NextSpec([c EXCEPT !.funs = (name :> [h |-> <<params, body>>, v |-> v]) @@ @])

IsFun(c, name)  == name \in DOMAIN c.funs /\ c.funs[name].h # Nil
IsVFun(c, name) == name \in DOMAIN c.funs /\ c.funs[name].v # Nil

VFun(c, name, args) ==
  LET f == c.funs[name].v
      came(r, b) ==
        CASE Taken(r, Nil) /\ ~r.accept    -> Fail
          [] ~Matches(r) /\ ~Taken(r, Nil) -> r
          [] b = Mismatch                  -> Fail
          [] IsMatch(r)                    -> NextSpec(Resume(c, b, r.pos))
          [] OTHER                         -> NextSpec(Resume(c, b, Nil))
  IN
  CASE ~IsVFun(c, name)      -> Decline
    [] Len(f[1]) # Len(args) -> SemError
    [] OTHER -> After(Intercepted(c, f[1], args, MatchFiles(Files(Body(c, f, args), f[2]))),
                      LAMBDA r : came(r, Returned(c, f[1], args, c.b, r.b)))

\* The variable is bound to the lines that the function takes.
VVar(c, sym, modifier) ==
  LET taken(d) == SubSeq(c.data, 1, Len(c.data) - Len(d.data))
      bound(d) == Bind(d.b, sym, List([i \in DOMAIN taken(d) |-> Str(taken(d)[i])]))
  IN
  IF modifier = <<>> \/ modifier[1] # "call" THEN Decline
  ELSE After(VFun(c, modifier[2], modifier[3]), LAMBDA r :
       IF r.kind # "next" THEN r ELSE Bindings([c EXCEPT !.data = r.c.data], bound(r.c)))

-----------------------------------------------------------------------------
(* Exceptions.                                                             *)

\* A variable without a binding is thrown as no value.
VThrow(c, type, args) ==
  IF ~Thrown(c, type) THEN NextSpec(c)
  ELSE Throw(type, [i \in DOMAIN args |-> IF Valued(c, args[i]) THEN Value(c, args[i]) ELSE Nil])

RECURSIVE CatchBind(_, _, _)
CatchBind(b, params, values) ==
  IF params = <<>> \/ values = <<>> \/ b = Mismatch THEN b
  ELSE CatchBind(IF Head(values) = Nil THEN b ELSE Bind(b, Head(params), Head(values)),
                 Tail(params), Tail(values))

\* How a try is after its clause, after the catch and after finally: whether it has succeeded,
\* and what is on its way out of it.
Tried(c, ok, leaving) == [c |-> c, ok |-> ok, leaving |-> leaving]

Outcome(c, r) ==
  CASE r.kind = "handed" -> Tried(c, TRUE, Fail)
    [] IsMatch(r)        -> Tried(Resume(c, r.b, r.pos), TRUE, Fail)
    [] Leaves(r)         -> Tried(c, FALSE, r)
    [] OTHER             -> Tried(c, FALSE, Fail)

Catch(c, clause, values) ==
  LET bound == [c EXCEPT !.b = CatchBind(@, clause[2], values)]
  IN
  IF bound.b = Mismatch THEN Tried(bound, FALSE, Fail)
  ELSE After(MatchFiles(Files(bound, clause[3])), LAMBDA r :
       IF r.kind = "handed" THEN Tried(Resume(c, r.b, Nil), TRUE, Fail) ELSE Outcome(bound, r))

\* An accept on its way out is taken as the match, before finally goes on from there.
Finally(finally, s) ==
  LET from  == IF Accepts(s.leaving) THEN TakeAccept(s.c, s.leaving) ELSE s.c
      to(r) == Resume(from, r.b, IF r.kind = "handed" THEN Nil ELSE r.pos)
      leaving(d) == IF Accepts(s.leaving) THEN Exit(s.leaving.target, TRUE, d.b, Place(d), Nil)
                    ELSE s.leaving
  IN
  IF finally = <<>> THEN s
  ELSE After(IF from.b = Mismatch THEN TypeError ELSE MatchFiles(Files(from, finally)), LAMBDA r :
       CASE Leaves(r)   -> Tried(from, s.ok, r)
         [] ~Matches(r) -> Tried(from, s.ok, s.leaving)
         [] OTHER       -> Tried(to(r), TRUE, leaving(to(r))))

VTry(c, spec, catches, finally) ==
  LET in    == [c EXCEPT !.blocks = @ \cup {Nil}]
      tried == MatchFiles(Files([in EXCEPT !.handlers = @ \cup {catches[i][1] : i \in DOMAIN catches}], spec))
      fit(r) == IF r.kind = "throw" THEN {i \in DOMAIN catches : IsA(r.type, catches[i][1])} ELSE {}
      caught(r) == IF fit(r) = {} THEN Outcome(in, r) ELSE Catch(in, catches[Min(fit(r))], r.args)
      out(s) == NextSpec([s.c EXCEPT !.blocks = c.blocks])
  IN
  After(Finally(finally, After(tried, caught)), LAMBDA s :
    CASE Taken(s.leaving, Nil) -> IF s.leaving.accept THEN out(s) ELSE Fail
      [] s.leaving # Fail      -> s.leaving
      [] s.ok                  -> out(s)
      [] OTHER                 -> Fail)

-----------------------------------------------------------------------------
(* The table of directives, and the loop over the lines of the query.      *)

\* Those before which a source is not opened.
NonMatching == {"block", "accept", "fail", "next", "forget", "merge", "bind", "rebind", "define",
                "hdefine", "try", "throw", "require", "assert"}

\* Standard input, of which nothing is left, stands for a source that is not given.
OpenDataSource(c) ==
  LET e    == Head(Head(c.spec))
      lone == Len(Head(c.spec)) = 1
  IN
  CASE c.data # Unopened -> NextSpec(c)
    [] lone /\ (e[1] \in NonMatching \/ (e[1] = "call" /\ IsVFun(c, e[2]))) -> NextSpec(c)
    [] c.files = <<>> -> NextSpec([c EXCEPT !.data = <<>>, !.lineno = 1])
    [] Head(c.files) = Nil -> Throw("file-error", <<Str(<<Message>>)>>)
    [] OTHER -> NextSpec([c EXCEPT !.data = Head(c.files), !.lineno = IF Head(c.files) = <<>> THEN @ ELSE 1])

Directive(c, e) ==
  CASE e[1] = "var"      -> VVar(c, e[2], e[3])
    [] e[1] = "call"     -> IF IsVFun(c, e[2]) \/ IsFun(c, e[2]) THEN VFun(c, e[2], e[3]) ELSE SemError
    [] e[1] = "skip"     -> VSkip(c, e[2], e[3], e[4])
    [] e[1] = "fuzz"     -> VFuzz(c, e[2], e[3])
    [] e[1] = "trailer"  -> VTrailer(c)
    [] e[1] = "freeform" -> VFreeform(c, e[2])
    [] e[1] = "block"    -> VBlock(c, e[2], e[3])
    [] e[1] \in {"accept", "fail"} -> VAcceptFail(c, e[1] = "accept", e[2])
    [] e[1] = "next"     -> VNext(c, e[2])
    [] e[1] \in {"some", "all", "none", "maybe", "cases", "choose"} -> IF e[4] = "lines" THEN VParallel(c, e[1], e[2], e[3]) ELSE Decline
    [] e[1] = "gather"   -> VGather(c, e[2], e[3], e[4])
    [] e[1] = "collect"  -> VCollect(c, e[2], e[3], e[4])
    [] e[1] = "forget"   -> VForget(c, e[2])
    [] e[1] = "merge"    -> VMerge(c, e[2], e[3])
    [] e[1] = "bind"     -> VBind(c, e[2], e[3])
    [] e[1] = "rebind"   -> VRebind(c, e[2], e[3])
    [] e[1] = "define"   -> VDefine(c, e[2], e[3], e[4])
    [] e[1] = "hdefine"  -> HDefine(c, e[2], e[3], e[4])
    [] e[1] = "try"      -> VTry(c, e[2], e[3], e[4])
    [] e[1] = "throw"    -> VThrow(c, e[2], e[3])
    [] e[1] = "eof"      -> VEof(c)
    [] e[1] = "require"  -> VRequire(c, e[2])
    [] e[1] = "push"     -> VPush(c, e[2])
    [] e[1] = "if"       -> VIf(c, e[2])
    [] e[1] = "assert"   -> VAssert(c, e[2])
    [] e[1] = "line"     -> VLine(c, e[2])
    [] e[1] = "data"     -> VData(c, e[2])
    [] OTHER             -> Decline

\* A line of text against a line of the query.
DataLine(c) ==
  IF c.data = <<>> THEN Fail
  ELSE After(WholeLine([c EXCEPT !.spec = Head(@), !.line = Head(c.data), !.lazy = FALSE,
                                 !.base = 0, !.pos = 0]), LAMBDA r :
       IF IsMatch(r) THEN NextSpec(StepData([c EXCEPT !.b = r.b])) ELSE r)

SpecLine(c) ==
  LET line(o) == IF o.kind # "next" THEN o ELSE DataLine(o.c) IN
  After(IF Len(Head(c.spec)) = 1 THEN Directive(c, Head(Head(c.spec))) ELSE Decline, LAMBDA r :
    IF r # Decline THEN r ELSE After(OpenDataSource(c), line))

MatchFiles(c) ==
  IF c.spec = <<>> THEN Reached(c)
  ELSE LET line(o) == IF o.kind # "next" THEN o ELSE SpecLine(o.c) IN
       After(After(OpenDataSource(c), line), LAMBDA r :
         IF r.kind = "next" THEN MatchFiles([r.c EXCEPT !.spec = Tail(@)]) ELSE r)

\* extract: the bindings of a query of the files, or none.
Extract(spec, files) ==
  MatchFiles([spec |-> spec, files |-> files, data |-> Unopened, lineno |-> 1,
              b |-> <<>>, funs |-> <<>>, blocks |-> {}, handlers |-> {},
              line |-> <<>>, lazy |-> FALSE, base |-> 0, pos |-> 0])
=============================================================================

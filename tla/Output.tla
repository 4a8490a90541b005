------------------------------- MODULE Output -------------------------------
(***************************************************************************)
(* match.c: the text that an output directive produces.  Elements are as in*)
(* LineMatch: text, variables, and a repetition, within a line (rep) or of *)
(* lines (repeat), of which rep is a record: the clauses, Nil if not given,*)
(* the variables of vars, with values or Nil, and the counter.  Left out:  *)
(* modifiers of variables, filters, expressions, and variables without a   *)
(* binding, which are errors.                                              *)
(***************************************************************************)
EXTENDS LineMatch

CONSTANT Newline    \* the character between lines

\* A value as text: of a list, that of its items, with spaces between them; lists among
\* these are printed.
Spaced(texts) == FlattenSeq([i \in DOMAIN texts |-> (IF i > 1 THEN <<" ">> ELSE <<>>) \o texts[i]])
RECURSIVE Printed(_)
Printed(v) ==
  CASE v[1] = "str"       -> v[2]
    [] v[1] = "num"       -> <<ToString(v[2])>>
    [] v = List(<<>>)     -> <<"n", "i", "l">>
    [] OTHER              -> <<"(">> \o Spaced([i \in DOMAIN v[2] |-> Printed(v[2][i])]) \o <<")">>
TextOf(v) == IF v[1] = "list" THEN Spaced([i \in DOMAIN v[2] |-> Printed(v[2][i])]) ELSE Printed(v)

Known(b, expr) == IF expr[1] = "sym" THEN b[expr[2]] ELSE expr

\* The variables that occur in elements or lines.
RECURSIVE VarsIn(_, _)
Clauses(rep) == {rep.main} \cup ({rep.single, rep.first, rep.last, rep.empty} \ {Nil})
                  \cup {rep.mod[i][3] : i \in DOMAIN rep.mod}
ModlastClauses(rep) == {rep.modlast[i][3] : i \in DOMAIN rep.modlast}
ExtractVars(e) ==
  CASE e[1] = "var"    -> {e[2]}
    [] e[1] \in {"rep", "repeat"} -> UNION {VarsIn(e[1] = "rep", c) : c \in Clauses(e[2]) \cup ModlastClauses(e[2])}
    [] e[1] = "if"     -> UNION {VarsIn(FALSE, e[2][i][2]) : i \in DOMAIN e[2]}
    [] OTHER           -> {}
VarsIn(elements, spec) ==
  UNION {IF elements THEN ExtractVars(spec[i]) ELSE VarsIn(TRUE, spec[i]) : i \in DOMAIN spec}

\* Those of a repetition: not those that occur only in modlast.
OccurVars(e) == UNION {VarsIn(e[1] = "rep", c) : c \in Clauses(e[2])}

\* The variables to be repeated, with what they are bound to.
ExtractBindings(b, e) ==
  LET vars  == e[2].vars
      given == [sym \in {v[1] : v \in {x \in vars : x[2] # Nil}} |->
                  Known(b, (CHOOSE v \in vars : v[1] = sym)[2])] @@ b
      syms  == OccurVars(e) \cup {v[1] : v \in vars}
  IN  [sym \in syms \cap DOMAIN given |-> given[sym]]

\* Anything but a list is the same each time.
RobustLength(v) == IF v[1] = "list" THEN Len(v[2]) ELSE -1
MaxDepth(cp)    == Max({0} \cup {RobustLength(cp[sym]) : sym \in DOMAIN cp})
BindCar(v, i)   == IF v[1] = "list" THEN IF i < Len(v[2]) THEN v[2][i + 1] ELSE List(<<>>) ELSE v

\* All the clauses whose turn it is, as one; the parser has turned them around.
ActiveMods(mods, i) ==
  FlattenSeq([k \in DOMAIN mods |-> LET m == Reverse(mods)[k] IN IF i % m[2] = m[1] THEN m[3] ELSE <<>>])

\* The clause for the i'th of so many.
ModClause(rep, i) ==
  LET active == ActiveMods(rep.mod, i) IN IF active # <<>> THEN active ELSE rep.main
LastClause(rep, i) ==
  LET active == ActiveMods(rep.modlast, i) IN
  CASE active # <<>>   -> active
    [] rep.last # Nil  -> rep.last
    [] OTHER           -> ModClause(rep, i)
Clause(rep, i, depth) ==
  CASE i = 0 /\ rep.first # Nil -> rep.first
    [] i = depth - 1            -> LastClause(rep, i)
    [] OTHER                    -> ModClause(rep, i)

\* What is to be output, one after another: the clauses with their bindings.
Rounds(b, e) ==
  LET rep   == e[2]
      cp    == ExtractBindings(b, e)
      depth == MaxDepth(cp)
      item(i) == [sym \in DOMAIN cp |-> BindCar(cp[sym], i)] @@ b
      count(i, c) == IF rep.counter = Nil THEN c ELSE Put(rep.counter[1], Num(rep.counter[2] + i), c)
  IN
  CASE depth = 0 /\ rep.empty # Nil  -> << <<cp @@ b, rep.empty>> >>
    [] depth = 1 /\ rep.single # Nil -> << <<item(0), rep.single>> >>
    [] OTHER -> [k \in 1..depth |-> <<count(k - 1, item(k - 1)), Clause(rep, k - 1, depth)>>]

RECURSIVE OutputLine(_, _)
OutputElem(b, e) ==
  CASE e[1] = "str" -> e[2]
    [] e[1] = "var" -> TextOf(b[e[2]])
    [] e[1] = "rep" -> After(Rounds(b, e), LAMBDA rounds :
                         FlattenSeq([i \in DOMAIN rounds |-> OutputLine(rounds[i][1], rounds[i][2])]))
OutputLine(b, spec) == FlattenSeq([i \in DOMAIN spec |-> OutputElem(b, spec[i])])

\* do_output: lines, each with its end; a repeat or an if has none of its own.
RECURSIVE OutputText(_, _)
OutputSpec(b, line) ==
  LET e == line[1] IN
  CASE line # <<>> /\ e[1] = "repeat" ->
         After(Rounds(b, e), LAMBDA rounds :
           FlattenSeq([i \in DOMAIN rounds |-> OutputText(rounds[i][1], rounds[i][2])]))
    [] line # <<>> /\ e[1] = "if" ->
         LET true == {i \in DOMAIN e[2] : Known(b, e[2][i][1]) # List(<<>>)} IN
         IF true = {} THEN <<>> ELSE OutputText(b, e[2][Min(true)][2])
    [] OTHER -> Append(OutputLine(b, line), Newline)
OutputText(b, specs) == FlattenSeq([i \in DOMAIN specs |-> OutputSpec(b, specs[i])])
=============================================================================

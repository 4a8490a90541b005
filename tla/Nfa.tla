-------------------------------- MODULE Nfa ---------------------------------
(***************************************************************************)
(* Regular expressions as graphs of states: the compiler, the optimizer of *)
(* the graph, and the steps of a match.  A graph is the sequence of states *)
(* that were ever allocated, with the numbers of the start and of the      *)
(* accepting state; 0 is the null pointer.                                 *)
(***************************************************************************)
EXTENDS Regex, FiniteSets

CONSTANT Crash    \* a null pointer was followed

State(kind, t0, t1, chars) == [kind |-> kind, t0 |-> t0, t1 |-> t1, chars |-> chars]
EmptyState(t0, t1) == State("empty", t0, t1, {})
AcceptState        == State("accept", 0, 0, {})
CharState(t, cs)   == State("char", t, 0, cs)

Graph(states, start, accept) == [states |-> states, start |-> start, accept |-> accept]
NullGraph == Graph(<<>>, 0, 0)

IsEmpty(s)  == s.kind \in {"accept", "empty"}
IsAccept(s) == s.kind = "accept"
HasTransitions(s) == s.kind # "empty" /\ (s.t0 # 0 \/ s.t1 # 0)

-----------------------------------------------------------------------------
(* The compiler adds the states of an expression to those there are.       *)

\* nfa_state_empty_convert
Convert(states, acc, t0, t1) == [states EXCEPT ![acc] = EmptyState(t0, t1)]

RECURSIVE CompileIn(_, _)
RECURSIVE CompileList(_, _)

\* A character of the expression moves from a start state to an accepting state.
CompileOne(states, s) ==
  LET n == Len(states) IN Graph(states \o <<s, AcceptState>>, n + 1, n + 2)

\* The two ends put around a repeated graph: the new start leads to the graph, and past
\* it if it may be skipped; the old accepting state leads back.
CompileRepeat(g, skip) ==
  LET n == Len(g.states)
      s == EmptyState(g.start, IF skip THEN n + 1 ELSE 0)
  IN  Graph(Convert(g.states, g.accept, g.start, n + 1) \o <<AcceptState, s>>, n + 2, n + 1)

CompileOptional(g) ==
  Graph(Append(g.states, EmptyState(g.start, g.accept)), Len(g.states) + 1, g.accept)

CompileOr(g, h) ==    \* h has the states of g, too
  LET n == Len(h.states)
      states == Convert(Convert(h.states, g.accept, n + 1, 0), h.accept, n + 1, 0)
  IN  Graph(states \o <<AcceptState, EmptyState(g.start, h.start)>>, n + 2, n + 1)

\* nfa_combine: the accepting state takes on the contents of the start that follows.
CompileList(args, states) ==
  LET g == CompileIn(args[1], states)
      h == CompileList(Tail(args), g.states)
  IN  IF Len(args) = 1 THEN g
      ELSE Graph([h.states EXCEPT ![g.accept] = h.states[h.start]], g.start, h.accept)

CompileIn(e, states) ==
  CASE Op(e) = "nil"      -> LET n == Len(states) IN
                             Graph(states \o <<EmptyState(n + 2, 0), AcceptState>>, n + 1, n + 2)
    [] Characters(e)      -> CompileOne(states, CharState(Len(states) + 2, Contained(e)))
    [] Op(e) = "compound" -> CompileList(Operands(e), states)
    [] Op(e) = "zeroplus" -> CompileRepeat(CompileIn(e[2], states), TRUE)
    [] Op(e) = "oneplus"  -> CompileRepeat(CompileIn(e[2], states), FALSE)
    [] Op(e) = "optional" -> CompileOptional(CompileIn(e[2], states))
    [] Op(e) = "or"       -> LET g == CompileIn(e[2], states) IN CompileOr(g, CompileIn(e[3], g.states))

\* The expression of no string has no states, and must not be within another.
RECURSIVE HasNoString(_)
HasNoString(e) ==
  CASE Op(e) = "t" -> TRUE
    [] Op(e) # "t" /\ (Atomic(e) \/ Op(e) \in {"set", "cset"}) -> FALSE
    [] OTHER -> \E i \in 2..Len(e) : HasNoString(e[i])

-----------------------------------------------------------------------------
(* The optimizer.  A place is <<n, "t0">> or <<n, "t1">>, or <<0, "start">>. *)

At(g, place) == IF place[1] = 0 THEN g.start ELSE g.states[place[1]][place[2]]
Put(g, place, n) ==
  IF place[1] = 0 THEN [g EXCEPT !.start = n]
  ELSE [g EXCEPT !.states[place[1]][place[2]] = n]

\* nfa_thread_epsilons: a place with an empty state of one transition is given the target
\* of that; t = [g, visited].
RECURSIVE Thread(_, _)
Thread(t, place) ==
  LET n == At(t.g, place)
      s == t.g.states[n]
      one == IF s.t0 # 0 THEN s.t0 ELSE s.t1
      skipped == s.kind = "empty" /\ (s.t0 = 0 \/ s.t1 = 0)
      g   == IF skipped THEN Put(t.g, place, one) ELSE t.g
      next == CASE skipped -> IF one = 0 THEN <<>> ELSE <<place>>
                [] ~skipped /\ IsEmpty(s)  -> << <<n, "t1">>, <<n, "t0">> >>
                [] ~IsEmpty(s) -> << <<n, "t0">> >>
  IN  IF n = 0 THEN t
      ELSE IF n \in t.visited THEN [t EXCEPT !.g = g]
      ELSE FoldLeft(Thread, [g |-> g, visited |-> t.visited \cup {n}], next)

\* nfa_fold_accept: a state with an empty transition to an accepting state accepts
\* itself, and drops the transition.
DropAccept(states, e) == e # 0 /\ IsAccept(states[e])
FoldOne(states, n) ==
  LET s  == states[n]
      d0 == DropAccept(states, s.t0)
      d1 == DropAccept(states, s.t1)
  IN  IF s.kind # "empty" THEN states
      ELSE [states EXCEPT ![n] = State(IF d0 \/ d1 THEN "accept" ELSE "empty",
                                       IF d0 THEN 0 ELSE s.t0, IF d1 THEN 0 ELSE s.t1, {})]

\* nfa_map_states applies it to a state before it goes to those the state leads to.
RECURSIVE Fold(_, _)
Fold(t, n) ==
  LET states == FoldOne(t.states, n) IN
  IF n = 0 \/ n \in t.visited THEN t
  ELSE FoldLeft(Fold, [states |-> states, visited |-> t.visited \cup {n}],
                <<states[n].t0, states[n].t1>>)

Compile(e) ==
  LET g == Thread([g |-> CompileIn(e, <<>>), visited |-> {}], <<0, "start">>).g
  IN  IF e = NoString THEN NullGraph
      ELSE IF HasNoString(e) THEN Crash
      ELSE [g EXCEPT !.states = Fold([states |-> g.states, visited |-> {}], g.start).states]

-----------------------------------------------------------------------------
(* A match.  m.stack holds the states whose empty transitions are still to *)
(* be followed, m.set those that move on a character.                      *)

Nothing == [seen |-> {}, stack |-> <<>>, set |-> <<>>, accept |-> FALSE, more |-> FALSE]

\* A state is met that was not visited in this step; whether there is more is asked of asked.
Meet(states, m, n, asked) ==
  LET s == states[n] IN
  IF m = Crash THEN m
  ELSE IF n = 0 \/ n \in m.seen THEN m
  ELSE IF asked = 0 THEN Crash
  ELSE [seen   |-> m.seen \cup {n},
        stack  |-> Append(m.stack, n),
        set    |-> IF IsEmpty(s) THEN m.set ELSE Append(m.set, n),
        accept |-> m.accept \/ IsAccept(s),
        more   |-> m.more \/ HasTransitions(states[asked])]

\* The loop of nfa_closure, and that of nfa_move_closure, which asks the first of two
\* states for both.
RECURSIVE Spread(_, _, _)
Spread(states, m, first) ==
  LET n == Last(m.stack)
      s == states[n]
      popped == [m EXCEPT !.stack = Front(m.stack)]
      m0 == Meet(states, popped, s.t0, s.t0)
      m1 == Meet(states, m0, s.t1, IF first THEN s.t0 ELSE s.t1)
  IN  IF m = Crash THEN m
      ELSE IF m.stack = <<>> THEN m
      ELSE Spread(states, IF IsEmpty(s) THEN m1 ELSE popped, first)

Closure(g) == Spread(g.states, Meet(g.states, Nothing, g.start, g.start), FALSE)

MoveClosure(g, set, ch) ==
  LET moves == SelectSeq(set, LAMBDA n : ch \in g.states[n].chars)
      met   == FoldLeft(LAMBDA m, n : Meet(g.states, m, g.states[n].t0, g.states[n].t0),
                        Nothing, moves)
  IN  Spread(g.states, met, TRUE)

\* nfa_run: the length of the match at the start of s, or -1.
RECURSIVE RunFrom(_, _, _, _, _)
RunFrom(g, s, i, set, last) ==
  LET m == MoveClosure(g, set, s[i + 1])
      l == IF m.accept THEN i + 1 ELSE last
  IN  IF i = Len(s) THEN last
      ELSE IF m = Crash THEN Crash
      ELSE IF m.set = <<>> \/ ~m.more THEN l
      ELSE RunFrom(g, s, i + 1, m.set, l)

NfaRun(g, s) ==
  LET m == Closure(g) IN
  IF g.start = 0 THEN -1
  ELSE RunFrom(g, s, 0, m.set, IF m.accept THEN 0 ELSE -1)

-----------------------------------------------------------------------------
(* The characters that may follow a state, and whether folding the accepting *)
(* states has lost some.                                                   *)

Onward(states, n) ==
  Spread(states, Meet(states, Nothing, n, n), FALSE).set

Lost(e) ==
  LET g == Thread([g |-> CompileIn(e, <<>>), visited |-> {}], <<0, "start">>).g
      f == Fold([states |-> g.states, visited |-> {}], g.start).states
      loses(n) == n # 0 /\ ToSet(Onward(g.states, n)) # ToSet(Onward(f, n))
  IN  /\ ~HasNoString(e)
      /\ \/ loses(g.start)
         \/ \E n \in DOMAIN g.states : g.states[n].kind = "char" /\ loses(g.states[n].t0)
=============================================================================

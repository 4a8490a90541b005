---------------------------- MODULE UnwindProofs ----------------------------
(***************************************************************************)
(* Control transfers are sound for every set of block names, every set of  *)
(* exception symbols that catches and handlers name, every depth of the    *)
(* stack, and every way in which a program nests its frames and transfers. *)
(***************************************************************************)
EXTENDS Unwind, LeastNumber, SequenceTheorems

\* The program captures no continuations.
Uncaptured == "capture" \notin program

Kinds ==
  {"block", "catch", "handle", "menv", "let", "throw", "hook", "foreign", "guard"}

\* What a frame may have been thrown for
Syms == Sym \cup {""}

Frames ==
  [kind : Kinds, tag : Tag \cup {""}, matches : SUBSET Sym,
   role : {"", "handler", "callback"}, visible : BOOLEAN,
   phase : {"body", "clause", "cleanup"}, cont : Int, dyn : Int, env : Int, at : Int,
   sym : Syms, starts : Int]

Stack == Seq(Frames)

\* The catches that unwind.c and ffi.c have for themselves.
Own == {"handler", "callback"}

USE DEF Own

-----------------------------------------------------------------------------
(* The latest frame of a kind.                                             *)

\* m is the last of the frames in S among the first n, 0 if there is none.
Latest(S, n, m) ==
  m \in 0 .. n /\ m \in S \cup {0} /\ \A j \in S : j <= n => j <= m

Envs(s) == {i \in DOMAIN s : s[i].kind = "menv"}

\* A frame that has made a dynamic environment.
Binding(f) == f.kind = "let" \/ (f.role = "handler" /\ f.phase = "body")

Binds(s) == {i \in DOMAIN s : Binding(s[i])}

\* There is a latest frame
LEMMA LatestExists ==
  ASSUME NEW S, S \subseteq Nat, NEW n \in Nat
  PROVE  \E m : Latest(S, n, m)
<1> DEFINE T == {j \in S : j <= n}
<1>1. CASE T = {}
  BY <1>1 DEF Latest
<1>2. CASE T # {}
  <2>1. T \subseteq Nat /\ \A j \in T : j <= n
    OBVIOUS
  <2>2. PICK m \in T : \A j \in T : j <= m
    <3> HIDE DEF T
    <3> QED BY <1>2, <2>1, GreatestNat
  <2> QED BY <2>2 DEF Latest
<1> QED BY <1>1, <1>2

\* There is only one
LEMMA LatestUnique ==
  ASSUME NEW S, NEW n \in Nat, NEW l, NEW m, 0 \notin S,
         Latest(S, n, l), Latest(S, n, m)
  PROVE  l = m
BY DEF Latest

\* It is the greatest of the set.
LEMMA LatestIsMax ==
  ASSUME NEW S, NEW n \in Nat, NEW m, S \subseteq 1 .. n, Latest(S, n, m)
  PROVE  m = Max({0} \cup S)
<1> DEFINE U == {0} \cup S
<1>1. U \subseteq Int /\ m \in U /\ \A y \in U : m >= y
  BY DEF Latest
<1>2. Max(U) \in U /\ \A y \in U : Max(U) >= y
  <2> HIDE DEF U
  <2> QED BY <1>1 DEF Max
<1>3. Max(U) >= m /\ m >= Max(U) /\ Max(U) \in Int /\ m \in Int
  <2> HIDE DEF U
  <2> QED BY <1>1, <1>2
<1> QED BY <1>3

-----------------------------------------------------------------------------
(* The matching environment as frames are passed.                          *)

\* Every MENV frame knows the one before it.
EnvsLinked(s) == \A i \in Envs(s) : Latest(Envs(s), i - 1, s[i].env)

MenvsFn(s, env, f) ==
  f = [n \in 0 .. Len(s) |->
         IF n = 0 THEN env
         ELSE IF s[Len(s) + 1 - n].kind = "menv" THEN Up(s, f[n - 1])
         ELSE f[n - 1]]

\* Passing a frame
LEMMA PassFrame ==
  ASSUME NEW s \in Stack, EnvsLinked(s), NEW i \in DOMAIN s, NEW e,
         Latest(Envs(s), i, e)
  PROVE  Latest(Envs(s), i - 1, IF s[i].kind = "menv" THEN Up(s, e) ELSE e)
<1>1. i \in 1 .. Len(s) /\ Len(s) \in Nat /\ DOMAIN s = 1 .. Len(s)
  BY DEF Stack
<1>2. CASE s[i].kind = "menv"
  <2>1. i \in Envs(s)
    BY <1>2 DEF Envs
  <2>2. e = i
    BY <1>1, <2>1 DEF Latest
  <2>3. Up(s, e) = s[i].env
    BY <2>2 DEF Up
  <2> QED BY <1>2, <2>1, <2>3 DEF EnvsLinked
<1>3. CASE s[i].kind # "menv"
  <2>1. i \notin Envs(s)
    BY <1>3 DEF Envs
  <2>2. \A j \in Envs(s) : j \in 1 .. Len(s) /\ j # i
    BY <1>1, <2>1 DEF Envs
  <2>3. e # i /\ e \in 0 .. i /\ e \in Envs(s) \cup {0}
    BY <1>1, <2>1 DEF Latest
  <2>4. \A j \in Envs(s) : j <= i - 1 => j <= e
    BY <1>1, <2>2 DEF Latest
  <2>5. Latest(Envs(s), i - 1, e)
    BY <1>1, <2>3, <2>4 DEF Latest
  <2> QED BY <1>3, <2>5
<1> QED BY <1>2, <1>3

\* The recursion has a solution
LEMMA MenvsExists ==
  ASSUME NEW s \in Stack, EnvsLinked(s), NEW env, Latest(Envs(s), Len(s), env)
  PROVE  \E f : MenvsFn(s, env, f)
<1> DEFINE L == Len(s)
           f == [n \in 0 .. L |-> CHOOSE m : Latest(Envs(s), L - n, m)]
           next(n) == IF n = 0 THEN env
                      ELSE IF s[L + 1 - n].kind = "menv" THEN Up(s, f[n - 1])
                      ELSE f[n - 1]
<1>1. L \in Nat /\ DOMAIN s = 1 .. L /\ Envs(s) \subseteq Nat /\ 0 \notin Envs(s)
  BY DEF Stack, Envs
<1>2. \A n \in 0 .. L : Latest(Envs(s), L - n, f[n])
  <2> SUFFICES ASSUME NEW n \in 0 .. L PROVE Latest(Envs(s), L - n, f[n])
    OBVIOUS
  <2>1. \E m : Latest(Envs(s), L - n, m)
    <3>1. L - n \in Nat
      BY <1>1
    <3> HIDE DEF L
    <3> QED BY <1>1, <3>1, LatestExists
  <2>2. Latest(Envs(s), L - n, CHOOSE m : Latest(Envs(s), L - n, m))
    BY <2>1
  <2> QED BY <2>2
<1>3. ASSUME NEW n \in 0 .. L PROVE f[n] = next(n)
  <2>1. CASE n = 0
    <3>1. Latest(Envs(s), L, f[0])
      BY <1>1, <1>2
    <3> HIDE DEF f, L
    <3>2. f[0] = env
      BY <1>1, <3>1, LatestUnique DEF L
    <3> QED BY <2>1, <3>2
  <2>2. CASE n # 0
    <3>1. L + 1 - n \in DOMAIN s /\ n - 1 \in 0 .. L /\ L - n \in Nat
          /\ L - (n - 1) = L + 1 - n /\ L + 1 - n - 1 = L - n
      <4> HIDE DEF L
      <4> QED BY <1>1, <2>2
    <3>2. Latest(Envs(s), L + 1 - n, f[n - 1])
      BY <1>2, <3>1
    <3>3. Latest(Envs(s), L - n, f[n])
      BY <1>2
    <3> HIDE DEF f, L
    <3>4. Latest(Envs(s), L - n, IF s[L + 1 - n].kind = "menv" THEN Up(s, f[n - 1])
                                 ELSE f[n - 1])
      <4> DEFINE i == L + 1 - n
                 e == f[n - 1]
      <4>1. i \in DOMAIN s /\ i - 1 = L - n
        BY <1>1, <3>1
      <4>3. Latest(Envs(s), i, e)
        BY <3>2
      <4> HIDE DEF i, e
      <4>2. Latest(Envs(s), i - 1, IF s[i].kind = "menv" THEN Up(s, e) ELSE e)
        BY <4>1, <4>3, PassFrame
      <4> QED BY <4>1, <4>2 DEF i, e
    <3>5. f[n] = IF s[L + 1 - n].kind = "menv" THEN Up(s, f[n - 1]) ELSE f[n - 1]
      BY <1>1, <3>1, <3>3, <3>4, LatestUnique
    <3> QED BY <2>2, <3>5
  <2> QED BY <2>1, <2>2
<1>4. f = [n \in 0 .. L |-> next(n)]
  <2>1. f = [n \in 0 .. L |-> f[n]]
    OBVIOUS
  <2> HIDE DEF f, next, L
  <2> QED BY <1>3, <2>1
<1>5. MenvsFn(s, env, f)
  BY <1>4 DEF MenvsFn
<1> QED BY <1>5

\* Passing the frames above to leaves the latest environment up to it.
LEMMA MenvOutIs ==
  ASSUME NEW s \in Stack, EnvsLinked(s), NEW env, Latest(Envs(s), Len(s), env),
         NEW to \in 0 .. Len(s)
  PROVE  Latest(Envs(s), to, MenvOut(s, to, env))
<1> DEFINE f == Menvs(s, env)
           L == Len(s)
           T == {n \in 0 .. L : ~Latest(Envs(s), L - n, f[n])}
<1>1. MenvsFn(s, env, f)
  <2>1. f = CHOOSE g : MenvsFn(s, env, g)
    BY DEF Menvs, MenvsFn
  <2> HIDE DEF f
  <2> QED BY <2>1, MenvsExists
<1>2. L \in Nat /\ DOMAIN s = 1 .. L
  BY DEF Stack
<1> HIDE DEF f
<1>3. T = {}
  <2> SUFFICES ASSUME T # {} PROVE FALSE
    OBVIOUS
  <2>1. PICK n \in T : \A y \in T : n <= y
    <3> T \subseteq Nat
      OBVIOUS
    <3> HIDE DEF T
    <3> QED BY LeastNat
  <2>2. n # 0
    <3>1. f[0] = env
      BY <1>1, <1>2 DEF MenvsFn
    <3> QED BY <1>2, <2>1, <3>1
  <2>3. /\ L + 1 - n \in DOMAIN s /\ n - 1 \in 0 .. L /\ n \in 0 .. L /\ n - 1 < n
        /\ L - (n - 1) = L + 1 - n /\ L + 1 - n - 1 = L - n
    <3>1. n \in 0 .. L
      BY <2>1
    <3> HIDE DEF L, T
    <3> QED BY <1>2, <2>2, <3>1
  <2>4. Latest(Envs(s), L + 1 - n, f[n - 1])
    BY <2>1, <2>3
  <2>5. f[n] = IF s[L + 1 - n].kind = "menv" THEN Up(s, f[n - 1]) ELSE f[n - 1]
    BY <1>1, <2>2, <2>3 DEF MenvsFn
  <2>6. Latest(Envs(s), L - n, f[n])
    <3> DEFINE i == L + 1 - n
               e == f[n - 1]
    <3>1. /\ i \in DOMAIN s /\ Latest(Envs(s), i, e) /\ i - 1 = L - n
          /\ f[n] = IF s[i].kind = "menv" THEN Up(s, e) ELSE e
      BY <2>3, <2>4, <2>5
    <3> HIDE DEF i, e
    <3>2. Latest(Envs(s), i - 1, IF s[i].kind = "menv" THEN Up(s, e) ELSE e)
      BY <3>1, PassFrame
    <3> QED BY <3>1, <3>2
  <2> QED BY <2>1, <2>6
<1>4. L - to \in 0 .. L /\ L - (L - to) = to
  BY <1>2
<1>5. Latest(Envs(s), to, f[L - to])
  BY <1>3, <1>4
<1> QED BY <1>5 DEF MenvOut, f
-----------------------------------------------------------------------------
(* What a frame may rely on in the frames below it.                        *)

\* It has saved the environments that it was pushed in.
Context(s, i) ==
  /\ Latest(Binds(s), i - 1, s[i].dyn)
  /\ s[i].kind = "let" => Latest(Binds(s), i - 1, s[i].env)
  /\ s[i].kind = "menv" => Latest(Envs(s), i - 1, s[i].env)

\* Frames that are pushed together are adjacent; a catch of unwind.c or ffi.c that is
\* below another frame is in its body, visible and matches nothing.
Shape(s, i) ==
  /\ s[i].role \in Own => /\ i > 1 /\ s[i].kind = "catch" /\ s[i].matches = {}
                          /\ s[i].phase = "body" => s[i].visible
  /\ s[i].role = "handler" => s[i - 1].kind = "throw" /\ s[i - 1].at = s[i].at
  /\ s[i].kind = "throw" => s[i].at \in 1 .. i - 1
  /\ s[i].role = "callback" <=> i > 1 /\ s[i - 1].kind = "guard"
  /\ s[i].kind = "guard" <=> i > 1 /\ s[i - 1].kind = "foreign"
  /\ i > 1 /\ s[i - 1].role \in Own => s[i - 1].phase = "body"

\* The frame whose handler runs is disabled, and is not the frame of another.
Handler(s, i) ==
  s[i].role = "handler" =>
    /\ s[i].at \in 1 .. i - 2
    /\ s[s[i].at].kind = "handle" /\ ~s[s[i].at].visible
    /\ \A j \in 1 .. i - 1 : s[j].role = "handler" => s[j].at # s[i].at

Fit(s, i) == Context(s, i) /\ Shape(s, i) /\ Handler(s, i)

\* Without failing foreign calls: the exit points below frame i that are there.
Exits(s, i) ==
  {e \in 1 .. i - 1 : s[e].kind = "block" \/ (s[e].kind = "catch" /\ s[e].visible)}

\* A catch is visible until its only cleanup, and transfers know where to go.
Clean(s, i) ==
  /\ s[i].kind = "catch" => (s[i].visible <=> s[i].phase # "cleanup")
  /\ s[i].starts = IF s[i].kind = "catch" /\ ~s[i].visible THEN 1 ELSE 0
  /\ s[i].cont \in {None, Unhandled} \cup Exits(s, i)

\* Foreign code that calls back owes no transfer, unless it calls back again.
Owing(s, i) == s[i].kind = "guard" => s[i - 1].cont = None

\* Handlers are disabled only while they run.
Disabled(s) ==
  \A i \in DOMAIN s : s[i].kind = "handle" /\ ~s[i].visible =>
    \E j \in DOMAIN s : s[j].role = "handler" /\ s[j].at = i

\* The stack as the program, or the end of a handler, leaves it.
Settled(s) ==
  \A i \in DOMAIN s : i = Len(s) =>
    /\ s[i].kind \notin {"foreign", "guard"}
    /\ s[i].role \in Own => s[i].phase = "body"

-----------------------------------------------------------------------------
(* Frames.                                                                 *)

\* A frame that is pushed
LEMMA FrameFacts ==
  ASSUME NEW k \in Kinds, dyn \in Int
  PROVE  /\ Frame(k) \in Frames /\ Frame(k).kind = k /\ Frame(k).role = ""
         /\ Frame(k).matches = {} /\ Frame(k).visible /\ Frame(k).phase = "body"
         /\ Frame(k).cont = None /\ Frame(k).dyn = dyn /\ Frame(k).starts = 0
<1>1. Frame(k) \in Frames
  BY DEF Frame, Frames, None, Syms
<1>2. /\ Frame(k).kind = k /\ Frame(k).role = "" /\ Frame(k).matches = {}
      /\ Frame(k).visible /\ Frame(k).phase = "body" /\ Frame(k).cont = None
      /\ Frame(k).dyn = dyn /\ Frame(k).starts = 0
  BY DEF Frame
<1> QED BY <1>1, <1>2

\* A change of a frame
LEMMA ChangedType ==
  ASSUME NEW f \in Frames, NEW ep \in Int, NEW b \in BOOLEAN, NEW n \in Int,
         NEW p \in {"body", "clause", "cleanup"}
  PROVE  [f EXCEPT !.cont = ep, !.visible = b, !.phase = p, !.starts = n] \in Frames
BY DEF Frames

\* A catch in its cleanup
LEMMA CleaningFacts ==
  ASSUME NEW f \in Frames, NEW ep \in Int
  PROVE  /\ Cleaning(f, ep) \in Frames
         /\ Cleaning(f, ep).kind = f.kind /\ Cleaning(f, ep).role = f.role
         /\ Cleaning(f, ep).matches = f.matches /\ ~Cleaning(f, ep).visible
         /\ Cleaning(f, ep).phase = "cleanup" /\ Cleaning(f, ep).cont = ep
         /\ Cleaning(f, ep).dyn = f.dyn /\ Cleaning(f, ep).env = f.env
         /\ Cleaning(f, ep).at = f.at /\ Cleaning(f, ep).starts = f.starts + 1
<1>1. f.starts + 1 \in Int
  <2>1. f.starts \in Int
    BY DEF Frames
  <2> QED BY <2>1
<1>2. Cleaning(f, ep) \in Frames
  BY <1>1, ChangedType DEF Cleaning
<1>3. /\ Cleaning(f, ep).kind = f.kind /\ Cleaning(f, ep).role = f.role
      /\ Cleaning(f, ep).matches = f.matches /\ Cleaning(f, ep).visible = FALSE
      /\ Cleaning(f, ep).phase = "cleanup" /\ Cleaning(f, ep).cont = ep
  BY DEF Cleaning, Frames
<1>4. /\ Cleaning(f, ep).dyn = f.dyn /\ Cleaning(f, ep).env = f.env
      /\ Cleaning(f, ep).at = f.at /\ Cleaning(f, ep).starts = f.starts + 1
  BY DEF Cleaning, Frames
<1> QED BY <1>2, <1>3, <1>4

\* A catch in its clause
LEMMA EnteredFacts ==
  ASSUME NEW f \in Frames
  PROVE  /\ Entered(f) \in Frames
         /\ Entered(f).kind = f.kind /\ Entered(f).role = f.role
         /\ Entered(f).matches = {} /\ Entered(f).visible = f.visible
         /\ Entered(f).phase = "clause" /\ Entered(f).cont = f.cont
         /\ Entered(f).dyn = f.dyn /\ Entered(f).env = f.env
         /\ Entered(f).at = f.at /\ Entered(f).starts = f.starts
<1>1. Entered(f) \in Frames
  BY DEF Entered, Frames
<1>2. /\ Entered(f).kind = f.kind /\ Entered(f).role = f.role
      /\ Entered(f).matches = {} /\ Entered(f).visible = f.visible
      /\ Entered(f).phase = "clause" /\ Entered(f).cont = f.cont
  BY DEF Entered, Frames
<1>3. /\ Entered(f).dyn = f.dyn /\ Entered(f).env = f.env
      /\ Entered(f).at = f.at /\ Entered(f).starts = f.starts
  BY DEF Entered, Frames
<1> QED BY <1>1, <1>2, <1>3

\* What fits a stack fits every other that is the same so far.
LEMMA FitAgrees ==
  ASSUME NEW s \in Stack, NEW t \in Stack, NEW i \in DOMAIN s,
         i \in DOMAIN t, \A j \in 1 .. i : t[j] = s[j], Fit(s, i)
  PROVE  Fit(t, i)
<1>1. /\ i \in 1 .. Len(s) /\ Len(s) \in Nat /\ DOMAIN s = 1 .. Len(s)
      /\ i \in 1 .. Len(t) /\ Len(t) \in Nat /\ DOMAIN t = 1 .. Len(t)
      /\ t[i] = s[i]
      /\ i > 1 => t[i - 1] = s[i - 1]
  BY DEF Stack
<1>2. \A j \in 1 .. i : j \in Binds(s) <=> j \in Binds(t)
  BY <1>1 DEF Binds
<1>3. \A j \in 1 .. i : j \in Envs(s) <=> j \in Envs(t)
  BY <1>1 DEF Envs
<1>4. \A j \in Binds(s) \cup Binds(t) \cup Envs(s) \cup Envs(t) : j \in Nat \ {0}
  BY <1>1 DEF Binds, Envs
<1>5. \A m : Latest(Binds(s), i - 1, m) => Latest(Binds(t), i - 1, m)
  BY <1>1, <1>2, <1>4 DEF Latest
<1>6. \A m : Latest(Envs(s), i - 1, m) => Latest(Envs(t), i - 1, m)
  BY <1>1, <1>3, <1>4 DEF Latest
<1>7. Context(t, i)
  BY <1>1, <1>5, <1>6 DEF Fit, Context
<1>8. Shape(t, i)
  <2> DEFINE f == s[i]
             g == s[i - 1]
  <2>1. t[i] = f /\ (i > 1 => t[i - 1] = g)
    BY <1>1
  <2>2. /\ f.role \in Own => /\ i > 1 /\ f.kind = "catch" /\ f.matches = {}
                             /\ f.phase = "body" => f.visible
        /\ f.role = "handler" => g.kind = "throw" /\ g.at = f.at
        /\ f.kind = "throw" => f.at \in 1 .. i - 1
        /\ f.role = "callback" <=> i > 1 /\ g.kind = "guard"
        /\ f.kind = "guard" <=> i > 1 /\ g.kind = "foreign"
        /\ i > 1 /\ g.role \in Own => g.phase = "body"
    BY DEF Fit, Shape
  <2> HIDE DEF f, g
  <2>3. CASE i > 1
    <3>1. t[i] = f /\ t[i - 1] = g
      BY <2>1, <2>3
    <3> QED BY <2>2, <2>3, <3>1 DEF Shape
  <2>4. CASE ~(i > 1)
    BY <2>1, <2>2, <2>4 DEF Shape
  <2> QED BY <2>3, <2>4
<1>9. Handler(t, i)
  <2>1. \A j \in 1 .. i : t[j] = s[j]
    OBVIOUS
  <2> QED BY <1>1, <2>1 DEF Fit, Handler
<1> QED BY <1>7, <1>8, <1>9 DEF Fit

\* What is latest in one set of frames is in another that is the same so far.
LEMMA LatestAgrees ==
  ASSUME NEW S, NEW T, NEW n \in Nat, NEW m, S \subseteq Nat \ {0},
         T \subseteq Nat \ {0}, \A j \in 1 .. n : j \in S <=> j \in T,
         Latest(S, n, m)
  PROVE  Latest(T, n, m)
BY DEF Latest

\* A stack whose frames fit, in the environments e and d
Whole(s, e, d) ==
  /\ s \in Stack
  /\ \A i \in DOMAIN s : Fit(s, i)
  /\ Latest(Envs(s), Len(s), e)
  /\ Latest(Binds(s), Len(s), d)

LEMMA StackFacts ==
  ASSUME NEW s \in Stack
  PROVE  /\ Len(s) \in Nat /\ DOMAIN s = 1 .. Len(s)
         /\ s # <<>> <=> Len(s) # 0
         /\ \A i \in DOMAIN s : s[i] \in Frames
         /\ Envs(s) \subseteq Nat \ {0} /\ Binds(s) \subseteq Nat \ {0}
         /\ Envs(s) \subseteq 1 .. Len(s) /\ Binds(s) \subseteq 1 .. Len(s)
BY DEF Stack, Envs, Binds

\* The frames up to the nth
LEMMA PrefixFacts ==
  ASSUME NEW s \in Stack, NEW n \in 0 .. Len(s)
  PROVE  /\ SubSeq(s, 1, n) \in Stack /\ Len(SubSeq(s, 1, n)) = n
         /\ \A j \in 1 .. n : SubSeq(s, 1, n)[j] = s[j]
BY StackFacts DEF Stack

\* They are whole in the environments that were there then.
LEMMA PrefixWhole ==
  ASSUME NEW s \in Stack, \A i \in DOMAIN s : Fit(s, i), NEW n \in 0 .. Len(s),
         NEW e, NEW d, Latest(Envs(s), n, e), Latest(Binds(s), n, d)
  PROVE  Whole(SubSeq(s, 1, n), e, d)
<1> DEFINE t == SubSeq(s, 1, n)
<1>1. t \in Stack /\ Len(t) = n /\ \A j \in 1 .. n : t[j] = s[j]
  BY PrefixFacts
<1> HIDE DEF t
<1>2. /\ n \in Nat /\ DOMAIN t = 1 .. n /\ 1 .. n \subseteq DOMAIN s
      /\ DOMAIN s = 1 .. Len(s)
  BY <1>1, StackFacts
<1>3. ASSUME NEW i \in DOMAIN t PROVE Fit(t, i)
  <2>1. i \in DOMAIN s /\ \A j \in 1 .. i : t[j] = s[j]
    BY <1>1, <1>2
  <2> QED BY <1>1, <2>1, FitAgrees
<1>4. Latest(Envs(t), n, e)
  <2>1. \A j \in 1 .. n : j \in Envs(s) <=> j \in Envs(t)
    BY <1>1, <1>2 DEF Envs
  <2> QED BY <1>1, <1>2, <2>1, LatestAgrees, StackFacts
<1>5. Latest(Binds(t), n, d)
  <2>1. \A j \in 1 .. n : j \in Binds(s) <=> j \in Binds(t)
    BY <1>1, <1>2 DEF Binds
  <2> QED BY <1>1, <1>2, <2>1, LatestAgrees, StackFacts
<1> QED BY <1>1, <1>3, <1>4, <1>5 DEF Whole, t

\* A frame on top of the first n
LEMMA AppendFacts ==
  ASSUME NEW s \in Stack, NEW n \in 0 .. Len(s), NEW f \in Frames
  PROVE  /\ Append(SubSeq(s, 1, n), f) \in Stack
         /\ Len(Append(SubSeq(s, 1, n), f)) = n + 1
         /\ \A j \in 1 .. n : Append(SubSeq(s, 1, n), f)[j] = s[j]
         /\ Append(SubSeq(s, 1, n), f)[n + 1] = f
<1> DEFINE t == SubSeq(s, 1, n)
<1>1. t \in Stack /\ Len(t) = n /\ \A j \in 1 .. n : t[j] = s[j]
  BY PrefixFacts
<1> HIDE DEF t
<1>2. /\ Append(t, f) \in Stack /\ Len(Append(t, f)) = n + 1
      /\ \A j \in 1 .. n : Append(t, f)[j] = t[j]
      /\ Append(t, f)[n + 1] = f
  BY <1>1 DEF Stack
<1> QED BY <1>1, <1>2 DEF t

\* The topmost frame of a stack that is pushed, or takes the place of a frame l of s.
LEMMA AppendWhole ==
  ASSUME NEW s \in Stack, \A i \in DOMAIN s : Fit(s, i), NEW n \in 0 .. Len(s),
         NEW f \in Frames, NEW e, NEW d,
         Fit(Append(SubSeq(s, 1, n), f), n + 1),
         Latest(Envs(Append(SubSeq(s, 1, n), f)), n + 1, e),
         Latest(Binds(Append(SubSeq(s, 1, n), f)), n + 1, d)
  PROVE  Whole(Append(SubSeq(s, 1, n), f), e, d)
<1> DEFINE t == Append(SubSeq(s, 1, n), f)
<1>1. t \in Stack /\ Len(t) = n + 1 /\ (\A j \in 1 .. n : t[j] = s[j])
  BY AppendFacts
<1>2. Fit(t, n + 1) /\ Latest(Envs(t), n + 1, e) /\ Latest(Binds(t), n + 1, d)
  OBVIOUS
<1> HIDE DEF t
<1>3. /\ n \in Nat /\ DOMAIN t = 1 .. n + 1 /\ 1 .. n \subseteq DOMAIN s
  BY <1>1, StackFacts
<1>4. ASSUME NEW i \in 1 .. n PROVE Fit(t, i)
  <2>1. i \in DOMAIN s /\ i \in DOMAIN t /\ \A j \in 1 .. i : t[j] = s[j]
    BY <1>1, <1>3
  <2> QED BY <1>1, <2>1, FitAgrees
<1>5. \A i \in DOMAIN t : Fit(t, i)
  BY <1>2, <1>3, <1>4
<1> QED BY <1>1, <1>2, <1>5 DEF Whole, t

\* A catch that is at its cleanup, or its clause, with the frames above it gone
LEMMA CatchWhole ==
  ASSUME NEW s \in Stack, \A i \in DOMAIN s : Fit(s, i), NEW l \in DOMAIN s,
         s[l].kind = "catch", NEW f \in Frames, f.kind = "catch",
         f.role = s[l].role, f.dyn = s[l].dyn, f.at = s[l].at, f.phase # "body",
         f.matches = s[l].matches \/ f.matches = {}, NEW e, Latest(Envs(s), l, e)
  PROVE  /\ Whole(Append(SubSeq(s, 1, l - 1), f), e, s[l].dyn)
         /\ Len(Append(SubSeq(s, 1, l - 1), f)) = l
         /\ \A j \in 1 .. l - 1 : Append(SubSeq(s, 1, l - 1), f)[j] = s[j]
         /\ Append(SubSeq(s, 1, l - 1), f)[l] = f
<1> DEFINE t == Append(SubSeq(s, 1, l - 1), f)
           n == l - 1
<1>1. Len(s) \in Nat /\ DOMAIN s = 1 .. Len(s) /\ l \in 1 .. Len(s)
  BY StackFacts
<1>2. n \in 0 .. Len(s) /\ n + 1 = l
  BY <1>1
<1>3. t \in Stack /\ Len(t) = l /\ (\A j \in 1 .. n : t[j] = s[j]) /\ t[l] = f
  <2> HIDE DEF n
  <2>1. LET u == Append(SubSeq(s, 1, n), f)
        IN u \in Stack /\ Len(u) = n + 1 /\ (\A j \in 1 .. n : u[j] = s[j]) /\ u[n + 1] = f
    BY <1>2, AppendFacts
  <2> QED BY <1>2, <2>1 DEF n
<1> HIDE DEF t
<1>4. DOMAIN t = 1 .. l
  BY <1>1, <1>3, StackFacts
<1>5. Fit(s, l)
  OBVIOUS
<1>6. \A j \in 1 .. n : j \in Binds(s) <=> j \in Binds(t)
  BY <1>1, <1>3, <1>4 DEF Binds
<1>7. \A j \in 1 .. l : j \in Envs(s) <=> j \in Envs(t)
  BY <1>1, <1>3, <1>4 DEF Envs
<1>8. Latest(Binds(s), n, s[l].dyn) /\ Latest(Binds(t), n, s[l].dyn)
  <2>1. Latest(Binds(s), n, s[l].dyn) /\ n \in Nat
    BY <1>1, <1>5 DEF Fit, Context
  <2> QED BY <1>3, <1>6, <2>1, LatestAgrees, StackFacts
<1>9. Fit(t, l)
  <2>1. Context(t, l)
    BY <1>3, <1>8 DEF Context
  <2>2. Shape(t, l)
    <3>1. /\ f.role \in Own => l > 1 /\ f.matches = {}
          /\ f.role = "handler" => s[l - 1].kind = "throw" /\ s[l - 1].at = f.at
          /\ f.role = "callback" <=> l > 1 /\ s[l - 1].kind = "guard"
          /\ ~(l > 1 /\ s[l - 1].kind = "foreign")
          /\ l > 1 /\ s[l - 1].role \in Own => s[l - 1].phase = "body"
      <4>1. Shape(s, l)
        BY <1>5 DEF Fit
      <4>2. /\ s[l].role \in Own => l > 1 /\ s[l].matches = {}
            /\ s[l].role = "handler" => s[l - 1].kind = "throw" /\ s[l - 1].at = s[l].at
            /\ s[l].role = "callback" <=> l > 1 /\ s[l - 1].kind = "guard"
            /\ s[l].kind = "guard" <=> l > 1 /\ s[l - 1].kind = "foreign"
            /\ l > 1 /\ s[l - 1].role \in Own => s[l - 1].phase = "body"
        BY <4>1 DEF Shape
      <4> QED BY <4>2
    <3>2. l > 1 => t[l - 1] = s[l - 1]
      BY <1>1, <1>3
    <3>3. f.role = "handler" => l > 1 /\ f.role \in Own
      BY <3>1
    <3> QED BY <1>3, <3>1, <3>2, <3>3 DEF Shape
  <2>3. Handler(t, l)
    <3> SUFFICES ASSUME f.role = "handler"
                 PROVE  /\ f.at \in 1 .. l - 2
                        /\ t[f.at].kind = "handle" /\ ~t[f.at].visible
                        /\ \A j \in 1 .. l - 1 : t[j].role = "handler" => t[j].at # f.at
      BY <1>3 DEF Handler
    <3>1. /\ f.at \in 1 .. l - 2
          /\ s[f.at].kind = "handle" /\ ~s[f.at].visible
          /\ \A j \in 1 .. l - 1 : s[j].role = "handler" => s[j].at # f.at
      BY <1>5 DEF Fit, Handler
    <3>2. f.at \in 1 .. n
      BY <1>1, <3>1
    <3> QED BY <1>3, <3>1, <3>2
  <2> QED BY <2>1, <2>2, <2>3 DEF Fit
<1>10. Latest(Envs(t), l, e)
  BY <1>1, <1>3, <1>7, LatestAgrees, StackFacts
<1>11. Latest(Binds(t), l, s[l].dyn)
  <2>1. l \notin Binds(t)
    BY <1>3 DEF Binds, Binding
  <2>2. Binds(t) \subseteq 1 .. l
    BY <1>3, StackFacts
  <2>3. \A j \in Binds(t) : j <= l - 1
    BY <1>1, <2>1, <2>2
  <2> QED BY <1>1, <1>8, <2>3 DEF Latest
<1>12. Whole(t, e, s[l].dyn)
  <2> HIDE DEF n
  <2>1. t = Append(SubSeq(s, 1, n), f)
    BY DEF t, n
  <2>2. /\ Fit(Append(SubSeq(s, 1, n), f), n + 1)
        /\ Latest(Envs(Append(SubSeq(s, 1, n), f)), n + 1, e)
        /\ Latest(Binds(Append(SubSeq(s, 1, n), f)), n + 1, s[l].dyn)
    BY <1>2, <1>9, <1>10, <1>11, <2>1
  <2> QED BY <1>2, <2>1, <2>2, AppendWhole
<1> QED BY <1>3, <1>12 DEF t

-----------------------------------------------------------------------------
(* Leaving.                                                                *)

\* The greatest number of a bounded set
LEMMA MaxFacts ==
  ASSUME NEW U, U \subseteq Nat, U # {}, NEW n \in Nat, \A x \in U : x <= n
  PROVE  Max(U) \in U /\ \A y \in U : y <= Max(U)
<1>1. PICK x \in U : \A y \in U : y <= x
  BY GreatestNat
<1>2. \A y \in U : x >= y
  BY <1>1
<1> QED BY <1>1, <1>2 DEF Max

\* In a settled stack the catches of unwind.c and ffi.c can be seen, among them the
\* one above each guard.
LEMMA Guarded ==
  ASSUME NEW s \in Stack, \A i \in DOMAIN s : Fit(s, i), Settled(s)
  PROVE  /\ \A i \in DOMAIN s : s[i].role \in Own => s[i].kind = "catch" /\ s[i].visible
         /\ \A i \in DOMAIN s : s[i].kind = "guard" =>
              i + 1 \in DOMAIN s /\ s[i + 1].kind = "catch" /\ s[i + 1].visible
         /\ \A i \in DOMAIN s : s[i].kind = "foreign" =>
              i + 1 \in DOMAIN s /\ s[i + 1].kind = "guard"
<1>1. /\ Len(s) \in Nat /\ DOMAIN s = 1 .. Len(s)
      /\ \A i \in DOMAIN s : Shape(s, i)
  BY StackFacts DEF Fit
<1>2. ASSUME NEW i \in DOMAIN s, s[i].role \in Own
      PROVE  s[i].kind = "catch" /\ s[i].visible
  <2>1. s[i].phase = "body"
    <3>1. CASE i = Len(s)
      BY <1>1, <1>2, <3>1 DEF Settled
    <3>2. CASE i # Len(s)
      <4> DEFINE k == i + 1
      <4>1. k \in DOMAIN s /\ k - 1 = i /\ k > 1
        BY <1>1, <3>2
      <4> HIDE DEF k
      <4>2. Shape(s, k)
        BY <1>1, <4>1
      <4> QED BY <1>2, <4>1, <4>2 DEF Shape
    <3> QED BY <3>1, <3>2
  <2> QED BY <1>1, <1>2, <2>1 DEF Shape
<1>3. ASSUME NEW i \in DOMAIN s, s[i].kind \in {"guard", "foreign"}
      PROVE  /\ i + 1 \in DOMAIN s
             /\ s[i].kind = "guard" => s[i + 1].role = "callback"
             /\ s[i].kind = "foreign" => s[i + 1].kind = "guard"
  <2>1. i # Len(s)
    BY <1>1, <1>3 DEF Settled
  <2> DEFINE k == i + 1
  <2>2. k \in DOMAIN s /\ k - 1 = i /\ k > 1
    BY <1>1, <2>1
  <2>3. k \in DOMAIN s /\ (s[i].kind = "guard" => s[k].role = "callback")
        /\ (s[i].kind = "foreign" => s[k].kind = "guard")
    <3> HIDE DEF k
    <3>1. Shape(s, k)
      BY <1>1, <2>2
    <3> QED BY <2>2, <3>1 DEF Shape
  <2> QED BY <2>3
<1>4. \A i \in DOMAIN s : s[i].kind = "guard" =>
        i + 1 \in DOMAIN s /\ s[i + 1].kind = "catch" /\ s[i + 1].visible
  BY <1>2, <1>3
<1>5. \A i \in DOMAIN s : s[i].kind = "foreign" =>
        i + 1 \in DOMAIN s /\ s[i + 1].kind = "guard"
  BY <1>3
<1> QED BY <1>2, <1>4, <1>5

\* A transfer first stops at the exit point, or at a catch above it; no catch that can
\* be seen is further up.
LEMMA LandingFacts ==
  ASSUME NEW s \in Stack, \A i \in DOMAIN s : Fit(s, i), Settled(s),
         NEW ep \in 0 .. Len(s)
  PROVE  /\ Landing(s, ep) \in ep .. Len(s)
         /\ \A j \in DOMAIN s : s[j].kind = "catch" /\ s[j].visible => j <= Landing(s, ep)
         /\ Landing(s, ep) # ep => /\ Landing(s, ep) \in DOMAIN s
                                   /\ s[Landing(s, ep)].kind = "catch"
                                   /\ s[Landing(s, ep)].visible
<1> DEFINE U == Stops(s, ep) \cup Bars(s, ep) \cup {ep}
           l == Landing(s, ep)
<1>1. Len(s) \in Nat /\ DOMAIN s = 1 .. Len(s)
  BY StackFacts
<1>2. /\ \A j \in U : j = ep \/ j \in Stops(s, ep) \/ j \in Bars(s, ep)
      /\ \A j \in Stops(s, ep) : j \in DOMAIN s /\ j > ep /\ s[j].kind = "catch" /\ s[j].visible
      /\ \A j \in Bars(s, ep) : j \in DOMAIN s /\ j > ep /\ s[j].kind = "guard"
  BY DEF Stops, Bars
<1>3. U \subseteq Nat /\ U # {} /\ \A j \in U : j <= Len(s)
  BY <1>1, <1>2
<1>4. l \in U /\ \A y \in U : y <= l
  <2>1. l = Max(U)
    BY DEF Landing
  <2> HIDE DEF U, l
  <2> QED BY <1>1, <1>3, <2>1, MaxFacts
<1> HIDE DEF l
<1>5. l \in ep .. Len(s)
  BY <1>1, <1>2, <1>4
<1>6. ASSUME NEW j \in DOMAIN s, s[j].kind = "catch", s[j].visible PROVE j <= l
  <2>1. CASE j > ep
    <3>1. j \in U
      BY <1>6, <2>1 DEF Stops
    <3> QED BY <1>4, <3>1
  <2>2. CASE ~(j > ep)
    BY <1>1, <1>5, <2>2
  <2> QED BY <2>1, <2>2
<1>7. ASSUME l # ep
      PROVE  l \in DOMAIN s /\ s[l].kind = "catch" /\ s[l].visible
  <2>1. CASE l \in Stops(s, ep)
    BY <1>2, <2>1
  <2>2. CASE l \in Bars(s, ep)
    <3>1. l \in DOMAIN s /\ s[l].kind = "guard"
      BY <1>2, <2>2
    <3>2. l + 1 \in DOMAIN s /\ s[l + 1].kind = "catch" /\ s[l + 1].visible
      BY <3>1, Guarded
    <3>3. l + 1 <= l
      BY <1>6, <3>2
    <3> QED BY <1>1, <3>1, <3>3
  <2> QED BY <1>4, <1>2, <1>7, <2>1, <2>2
<1> QED BY <1>5, <1>6, <1>7 DEF l

\* What is left of the stack s: the topmost frame may be another, of the same kind.
Left(s, t) ==
  /\ Len(t) <= Len(s)
  /\ \A i \in DOMAIN t :
       /\ t[i].kind = s[i].kind /\ t[i].role = s[i].role /\ t[i].at = s[i].at
       /\ i < Len(t) \/ s[i].kind # "catch" => t[i] = s[i]
       /\ i = Len(t) => t[i].kind \notin {"foreign", "guard"}
  /\ \A i \in DOMAIN s : i > Len(t) => ~(s[i].kind = "catch" /\ s[i].visible)

\* A transfer to ep can reach it.
Target(s, ep) == ep = Unhandled \/ ep \in Exits(s, Len(s) + 1)

AllClean(s) == \A i \in DOMAIN s : Clean(s, i)

\* What a clean frame needs is in the frames below it.
LEMMA CleanAgrees ==
  ASSUME NEW s, NEW t, NEW i \in Nat, \A j \in 1 .. i - 1 : t[j] = s[j],
         t[i] = s[i], Clean(s, i)
  PROVE  Clean(t, i)
<1>1. Exits(t, i) = Exits(s, i)
  BY DEF Exits
<1> QED BY <1>1 DEF Clean

\* uw_unwind_to_exit_point leaves the environments as the frame that it stops at has
\* them; it stops at no guard, passes no catch that can be seen, and finds its way
\* when all frames are clean.
LEMMA Leaving ==
  ASSUME NEW s \in Stack, \A i \in DOMAIN s : Fit(s, i), Settled(s), NEW ep \in Int,
         NEW env, Latest(Envs(s), Len(s), env), LeaveFrom(s, ep, env)
  PROVE  /\ \/ dead' \in {"lost", "unhandled"} /\ UNCHANGED <<stk, menv, dyn>>
            \/ dead' = dead /\ Whole(stk', menv', dyn') /\ Left(s, stk')
         /\ AllClean(s) /\ Target(s, ep) =>
              \/ dead' = "unhandled"
              \/ dead' = dead /\ AllClean(stk')
<1> DEFINE l == Landing(s, ep)
<1>1. Len(s) \in Nat /\ DOMAIN s = 1 .. Len(s) /\ EnvsLinked(s)
  <2>1. \A i \in DOMAIN s : s[i].kind = "menv" => Latest(Envs(s), i - 1, s[i].env)
    BY DEF Fit, Context
  <2> QED BY <2>1, StackFacts DEF EnvsLinked, Envs
<1>2. \A to \in 0 .. Len(s) : Latest(Envs(s), to, MenvOut(s, to, env))
  BY <1>1, MenvOutIs
<1>3. \A i \in DOMAIN s : s[i] \in Frames
  BY StackFacts
<1>4. CASE ep \notin 0 .. Len(s)
  <2>1. dead' = "lost" /\ UNCHANGED <<stk, menv, dyn>>
    BY <1>4 DEF LeaveFrom, Die
  <2>2. ~Target(s, ep)
    BY <1>1, <1>4 DEF Target, Exits, Unhandled
  <2> QED BY <2>1, <2>2
<1>5. ASSUME ep \in 0 .. Len(s)
      PROVE  /\ l \in ep .. Len(s)
             /\ \A j \in DOMAIN s : s[j].kind = "catch" /\ s[j].visible => j <= l
             /\ l # ep => l \in DOMAIN s /\ s[l].kind = "catch" /\ s[l].visible
  BY <1>5, LandingFacts
<1>6. CASE ep \in 0 .. Len(s) /\ l = ep
  <2>1. Arrive(s, ep, env)
    BY <1>6 DEF LeaveFrom
  <2>2. CASE ep = Unhandled
    <3>1. dead' = "unhandled" /\ UNCHANGED <<stk, menv, dyn>>
      BY <2>1, <2>2 DEF Arrive, Die
    <3> QED BY <3>1
  <2>3. CASE ep # Unhandled /\ s[ep].kind = "block"
    <3>1. /\ stk' = SubSeq(s, 1, ep - 1) /\ menv' = MenvOut(s, ep, env)
          /\ dyn' = s[ep].dyn /\ dead' = dead
      BY <2>1, <2>3 DEF Arrive
    <3>2. ep \in DOMAIN s /\ ep - 1 \in 0 .. Len(s)
      BY <1>1, <1>6, <2>3 DEF Unhandled
    <3>3. Fit(s, ep)
      BY <3>2
    <3>4. Latest(Binds(s), ep - 1, s[ep].dyn)
      BY <3>3 DEF Fit, Context
    <3>5. Latest(Envs(s), ep - 1, MenvOut(s, ep, env))
      <4>1. Latest(Envs(s), ep, MenvOut(s, ep, env))
        BY <1>2, <1>6
      <4> QED BY <2>3, <3>2, <1>1, <4>1, PassFrame
    <3>6. Whole(stk', menv', dyn')
      BY <3>1, <3>2, <3>4, <3>5, PrefixWhole
    <3>7. /\ Len(stk') = ep - 1 /\ DOMAIN stk' = 1 .. ep - 1
          /\ \A j \in 1 .. ep - 1 : stk'[j] = s[j]
      BY <3>1, <3>2, PrefixFacts, StackFacts
    <3>8. ep - 1 \in DOMAIN s => s[ep - 1].kind \notin {"foreign", "guard"}
      <4>1. s[ep].role \notin Own
        BY <2>3, <3>3 DEF Fit, Shape
      <4>2. Shape(s, ep)
        BY <3>3 DEF Fit
      <4>3. ep - 1 \in DOMAIN s => ep > 1
        BY <1>1, <3>2
      <4> QED BY <2>3, <4>1, <4>2, <4>3 DEF Shape
    <3>9. Left(s, stk')
      <4>1. \A i \in DOMAIN s : i > ep - 1 => ~(s[i].kind = "catch" /\ s[i].visible)
        <5> SUFFICES ASSUME NEW i \in DOMAIN s, i > ep - 1, s[i].kind = "catch",
                            s[i].visible
                     PROVE  FALSE
          OBVIOUS
        <5>1. i <= ep
          BY <1>5, <1>6
        <5>2. i = ep
          BY <1>1, <3>2, <5>1
        <5> QED BY <2>3, <5>2
      <4>2. \A i \in DOMAIN stk' :
              /\ stk'[i] = s[i]
              /\ i = Len(stk') => stk'[i].kind \notin {"foreign", "guard"}
        BY <1>1, <3>2, <3>7, <3>8
      <4> QED BY <1>1, <3>2, <3>7, <4>1, <4>2 DEF Left
    <3>10. ASSUME AllClean(s) PROVE AllClean(stk')
      <4> SUFFICES ASSUME NEW i \in DOMAIN stk' PROVE Clean(stk', i)
        BY DEF AllClean
      <4>1. i \in Nat /\ i \in DOMAIN s /\ (\A j \in 1 .. i : stk'[j] = s[j])
        BY <1>1, <3>2, <3>7
      <4>2. (\A j \in 1 .. i - 1 : stk'[j] = s[j]) /\ stk'[i] = s[i] /\ Clean(s, i)
        BY <1>1, <3>10, <4>1 DEF AllClean
      <4> QED BY <4>1, <4>2, CleanAgrees
    <3> QED BY <3>1, <3>6, <3>9, <3>10
  <2>4. CASE ep # Unhandled /\ s[ep].kind = "catch"
    <3> DEFINE f == Entered(s[ep])
    <3>1. /\ stk' = Append(SubSeq(s, 1, ep - 1), f) /\ menv' = MenvOut(s, ep, env)
          /\ dyn' = s[ep].dyn /\ dead' = dead
      BY <2>1, <2>4 DEF Arrive
    <3>2. ep \in DOMAIN s /\ s[ep] \in Frames
      BY <1>1, <1>3, <1>6, <2>4 DEF Unhandled
    <3>3. Latest(Envs(s), ep, MenvOut(s, ep, env))
      BY <1>2, <1>6
    <3>4. /\ f \in Frames /\ f.kind = "catch" /\ f.role = s[ep].role /\ f.at = s[ep].at
          /\ f.dyn = s[ep].dyn /\ f.phase = "clause" /\ f.matches = {}
          /\ f.visible = s[ep].visible /\ f.starts = s[ep].starts /\ f.cont = s[ep].cont
      BY <2>4, <3>2, EnteredFacts
    <3> HIDE DEF f
    <3>5. /\ Whole(stk', menv', dyn') /\ Len(stk') = ep /\ stk'[ep] = f
          /\ \A j \in 1 .. ep - 1 : stk'[j] = s[j]
      BY <2>4, <3>1, <3>2, <3>3, <3>4, CatchWhole
    <3>6. DOMAIN stk' = 1 .. ep
      BY <3>5, StackFacts DEF Whole
    <3>7. Left(s, stk')
      <4>1. \A i \in DOMAIN s : i > ep => ~(s[i].kind = "catch" /\ s[i].visible)
        BY <1>1, <1>5, <1>6
      <4>2. \A i \in DOMAIN stk' : i = ep \/ (i < ep /\ stk'[i] = s[i])
        BY <1>1, <3>2, <3>5, <3>6
      <4> QED BY <1>1, <2>4, <3>2, <3>4, <3>5, <4>1, <4>2 DEF Left
    <3>8. ASSUME AllClean(s), Target(s, ep) PROVE AllClean(stk')
      <4> SUFFICES ASSUME NEW i \in DOMAIN stk' PROVE Clean(stk', i)
        BY DEF AllClean
      <4>1. i \in Nat /\ i \in DOMAIN s /\ (\A j \in 1 .. i - 1 : stk'[j] = s[j])
            /\ (i = ep \/ stk'[i] = s[i])
        BY <1>1, <3>2, <3>5, <3>6
      <4>2. Clean(s, i)
        BY <3>8, <4>1 DEF AllClean
      <4>3. CASE i # ep
        BY <4>1, <4>2, <4>3, CleanAgrees
      <4>4. CASE i = ep
        <5>1. s[ep].visible = TRUE
          <6>1. ep \in Exits(s, Len(s) + 1)
            BY <2>4, <3>8 DEF Target
          <6>2. s[ep].visible \in BOOLEAN
            BY <3>2 DEF Frames
          <6> QED BY <2>4, <6>1, <6>2 DEF Exits
        <5>2. Exits(stk', i) = Exits(s, i)
          BY <4>1 DEF Exits
        <5>3. s[ep].starts = 0
          BY <2>4, <4>2, <4>4, <5>1 DEF Clean
        <5>4. s[ep].cont \in {None, Unhandled} \cup Exits(s, i)
          BY <4>2, <4>4 DEF Clean
        <5> QED BY <3>4, <3>5, <4>4, <5>1, <5>2, <5>3, <5>4 DEF Clean
      <4> QED BY <4>3, <4>4
    <3> QED BY <3>1, <3>5, <3>7, <3>8
  <2>5. CASE ep # Unhandled /\ s[ep].kind \notin {"block", "catch"}
    <3>1. dead' = "lost" /\ UNCHANGED <<stk, menv, dyn>>
      BY <2>1, <2>5 DEF Arrive, Die
    <3>2. ~Target(s, ep)
      BY <2>5 DEF Target, Exits
    <3> QED BY <3>1, <3>2
  <2> QED BY <2>2, <2>3, <2>4, <2>5
<1>7. CASE ep \in 0 .. Len(s) /\ l # ep
  <2> DEFINE f == Cleaning(s[l], ep)
  <2>1. /\ l \in DOMAIN s /\ s[l].kind = "catch" /\ s[l].visible /\ l > ep
        /\ s[l] \in Frames /\ l \in 0 .. Len(s)
    BY <1>1, <1>3, <1>5, <1>7
  <2>2. StopAt(s, l, ep, env)
    BY <1>7, <2>1 DEF LeaveFrom
  <2>3. /\ stk' = Append(SubSeq(s, 1, l - 1), f) /\ menv' = MenvOut(s, l, env)
        /\ dyn' = s[l].dyn /\ dead' = dead
    BY <2>2 DEF StopAt
  <2>4. Latest(Envs(s), l, MenvOut(s, l, env))
    BY <1>2, <2>1
  <2>5. /\ f \in Frames /\ f.kind = "catch" /\ f.role = s[l].role /\ f.at = s[l].at
        /\ f.dyn = s[l].dyn /\ f.phase = "cleanup" /\ f.matches = s[l].matches
        /\ ~f.visible /\ f.starts = s[l].starts + 1 /\ f.cont = ep
    BY <2>1, CleaningFacts
  <2> HIDE DEF f, l
  <2>6. /\ Whole(stk', menv', dyn') /\ Len(stk') = l /\ stk'[l] = f
        /\ \A j \in 1 .. l - 1 : stk'[j] = s[j]
    <3>1. l \in DOMAIN s /\ s[l].kind = "catch" /\ f.phase # "body"
          /\ (f.matches = s[l].matches \/ f.matches = {})
      BY <2>1, <2>5
    <3>2. /\ Whole(Append(SubSeq(s, 1, l - 1), f), MenvOut(s, l, env), s[l].dyn)
          /\ Len(Append(SubSeq(s, 1, l - 1), f)) = l
          /\ \A j \in 1 .. l - 1 : Append(SubSeq(s, 1, l - 1), f)[j] = s[j]
          /\ Append(SubSeq(s, 1, l - 1), f)[l] = f
      BY <2>4, <2>5, <3>1, CatchWhole
    <3> QED BY <2>3, <3>2
  <2>7. DOMAIN stk' = 1 .. l
    BY <2>6, StackFacts DEF Whole
  <2>8. Left(s, stk')
    <3>1. \A i \in DOMAIN s : i > l => ~(s[i].kind = "catch" /\ s[i].visible)
      BY <1>1, <1>5, <1>7
    <3>2. \A i \in DOMAIN stk' : i = l \/ (i < l /\ stk'[i] = s[i])
      BY <1>1, <2>1, <2>6, <2>7
    <3> QED BY <1>1, <2>1, <2>5, <2>6, <3>1, <3>2 DEF Left
  <2>9. ASSUME AllClean(s), Target(s, ep) PROVE AllClean(stk')
    <3> SUFFICES ASSUME NEW i \in DOMAIN stk' PROVE Clean(stk', i)
      BY DEF AllClean
    <3>1. i \in Nat /\ i \in DOMAIN s /\ (\A j \in 1 .. i - 1 : stk'[j] = s[j])
          /\ (i = l \/ stk'[i] = s[i])
      BY <1>1, <2>1, <2>6, <2>7
    <3>2. Clean(s, i)
      BY <2>9, <3>1 DEF AllClean
    <3>3. CASE i # l
      BY <3>1, <3>2, <3>3, CleanAgrees
    <3>4. CASE i = l
      <4>1. Exits(stk', i) = Exits(s, i)
        BY <3>1 DEF Exits
      <4>2. s[l].starts = 0
        BY <2>1, <3>2, <3>4 DEF Clean
      <4>3. ep \in {Unhandled} \cup Exits(s, l)
        BY <1>1, <2>1, <2>9 DEF Target, Exits
      <4> QED BY <2>5, <2>6, <3>4, <4>1, <4>2, <4>3 DEF Clean
    <3> QED BY <3>3, <3>4
  <2> QED BY <2>3, <2>6, <2>8, <2>9
<1> QED BY <1>4, <1>6, <1>7

\* What becomes of the disabled handlers and of what foreign code owes
LEMMA LeftFacts ==
  ASSUME NEW s \in Stack, \A i \in DOMAIN s : Fit(s, i), Settled(s), NEW t \in Stack,
         Left(s, t)
  PROVE  /\ Disabled(s) => Disabled(t)
         /\ (\A i \in DOMAIN s : Owing(s, i)) => \A i \in DOMAIN t : Owing(t, i)
<1>1. /\ Len(s) \in Nat /\ DOMAIN s = 1 .. Len(s)
      /\ Len(t) \in Nat /\ DOMAIN t = 1 .. Len(t) /\ DOMAIN t \subseteq DOMAIN s
  BY StackFacts DEF Left
<1>2. ASSUME Disabled(s) PROVE Disabled(t)
  <2> SUFFICES ASSUME NEW i \in DOMAIN t, t[i].kind = "handle", ~t[i].visible
               PROVE  \E j \in DOMAIN t : t[j].role = "handler" /\ t[j].at = i
    BY DEF Disabled
  <2>1. i \in DOMAIN s /\ s[i].kind = "handle"
    BY <1>1 DEF Left
  <2>2. t[i] = s[i]
    BY <2>1 DEF Left
  <2>3. PICK j \in DOMAIN s : s[j].role = "handler" /\ s[j].at = i
    BY <1>2, <2>1, <2>2 DEF Disabled
  <2>4. s[j].kind = "catch" /\ s[j].visible
    BY <2>3, Guarded
  <2>5. j \in DOMAIN t
    BY <1>1, <2>4 DEF Left
  <2> QED BY <2>3, <2>5 DEF Left
<1>3. ASSUME \A i \in DOMAIN s : Owing(s, i), NEW i \in DOMAIN t PROVE Owing(t, i)
  <2> SUFFICES ASSUME t[i].kind = "guard" PROVE t[i - 1].cont = None
    BY DEF Owing
  <2>1. i \in DOMAIN s /\ s[i].kind = "guard"
    BY <1>1 DEF Left
  <2>2. i > 1
    BY <2>1 DEF Fit, Shape
  <2>3. i - 1 \in DOMAIN t /\ i - 1 < Len(t)
    BY <1>1, <2>2
  <2>4. t[i - 1] = s[i - 1]
    BY <2>3 DEF Left
  <2> QED BY <1>3, <2>1, <2>4 DEF Owing
<1> QED BY <1>2, <1>3

-----------------------------------------------------------------------------
(* Pushing, popping, enabling and disabling.                               *)

\* A handler frame that is enabled or disabled
Seen(s, k, b) == [s EXCEPT ![k].visible = b]

LEMMA VisibleFacts ==
  ASSUME NEW s \in Stack, \A i \in DOMAIN s : Fit(s, i), NEW k \in DOMAIN s,
         s[k].kind = "handle", NEW b \in BOOLEAN,
         b => \A j \in DOMAIN s : s[j].role = "handler" => s[j].at # k
  PROVE  /\ Seen(s, k, b) \in Stack /\ Len(Seen(s, k, b)) = Len(s)
         /\ \A i \in DOMAIN s : i # k => Seen(s, k, b)[i] = s[i]
         /\ Seen(s, k, b)[k].visible = b
         /\ \A i \in DOMAIN s :
              /\ Seen(s, k, b)[i].kind = s[i].kind /\ Seen(s, k, b)[i].role = s[i].role
              /\ Seen(s, k, b)[i].at = s[i].at /\ Seen(s, k, b)[i].cont = s[i].cont
              /\ Seen(s, k, b)[i].starts = s[i].starts
              /\ Seen(s, k, b)[i].phase = s[i].phase
         /\ \A i \in DOMAIN s : Fit(Seen(s, k, b), i)
         /\ Envs(Seen(s, k, b)) = Envs(s) /\ Binds(Seen(s, k, b)) = Binds(s)
<1> DEFINE t == Seen(s, k, b)
           f == [s[k] EXCEPT !.visible = b]
<1>1. Len(s) \in Nat /\ DOMAIN s = 1 .. Len(s) /\ s[k] \in Frames
  BY StackFacts
<1>2. f \in Frames
  BY <1>1 DEF Frames
<1>3. /\ f.kind = s[k].kind /\ f.role = s[k].role /\ f.at = s[k].at
      /\ f.cont = s[k].cont /\ f.starts = s[k].starts /\ f.phase = s[k].phase
      /\ f.dyn = s[k].dyn /\ f.env = s[k].env
  BY <1>1 DEF Frames
<1>4. f.visible = b
  BY <1>1 DEF Frames
<1> HIDE DEF f
<1>5. /\ t \in Stack /\ Len(t) = Len(s) /\ t[k] = f
      /\ \A i \in DOMAIN s : i # k => t[i] = s[i]
  <2>1. t = [s EXCEPT ![k] = f]
    BY DEF Seen, f
  <2> HIDE DEF t
  <2> QED BY <1>1, <1>2, <2>1 DEF Stack
<1> HIDE DEF t
<1>6. DOMAIN t = DOMAIN s
  BY <1>1, <1>5, StackFacts
<1>7. \A i \in DOMAIN s :
        /\ t[i].kind = s[i].kind /\ t[i].role = s[i].role /\ t[i].at = s[i].at
        /\ t[i].cont = s[i].cont /\ t[i].starts = s[i].starts
        /\ t[i].phase = s[i].phase /\ t[i].dyn = s[i].dyn /\ t[i].env = s[i].env
  BY <1>3, <1>5
<1>8. Envs(t) = Envs(s) /\ Binds(t) = Binds(s)
  BY <1>6, <1>7 DEF Envs, Binds, Binding
<1>9. ASSUME NEW i \in DOMAIN s PROVE Fit(t, i)
  <2>1. Context(s, i) /\ Shape(s, i) /\ Handler(s, i)
    BY DEF Fit
  <2>2. Context(t, i)
    BY <1>7, <1>8, <2>1 DEF Context
  <2>3. Shape(t, i)
    <3>1. i > 1 => i - 1 \in DOMAIN s
      BY <1>1
    <3>2. /\ t[i].kind = s[i].kind /\ t[i].role = s[i].role /\ t[i].at = s[i].at
          /\ t[i].phase = s[i].phase
      BY <1>7
    <3>3. i > 1 => /\ t[i - 1].kind = s[i - 1].kind /\ t[i - 1].role = s[i - 1].role
                   /\ t[i - 1].at = s[i - 1].at /\ t[i - 1].phase = s[i - 1].phase
      BY <1>7, <3>1
    <3>4. s[i].role \in Own => t[i] = s[i]
      <4>1. s[k].role \notin Own
        BY DEF Fit, Shape
      <4> QED BY <1>5, <4>1
    <3>5. /\ s[i].role \in Own => i > 1 /\ s[i].kind = "catch" /\ s[i].matches = {}
          /\ s[i].role \in Own => (s[i].phase = "body" => s[i].visible)
      BY <2>1 DEF Shape
    <3>6. /\ t[i].role \in Own => i > 1 /\ t[i].kind = "catch" /\ t[i].matches = {}
          /\ t[i].role \in Own => (t[i].phase = "body" => t[i].visible)
      BY <3>2, <3>4, <3>5
    <3>7. /\ s[i].role = "handler" => s[i - 1].kind = "throw" /\ s[i - 1].at = s[i].at
          /\ s[i].kind = "throw" => s[i].at \in 1 .. i - 1
          /\ s[i].role = "callback" <=> i > 1 /\ s[i - 1].kind = "guard"
          /\ s[i].kind = "guard" <=> i > 1 /\ s[i - 1].kind = "foreign"
          /\ i > 1 /\ s[i - 1].role \in Own => s[i - 1].phase = "body"
      BY <2>1 DEF Shape
    <3>8. s[i].role = "handler" => i > 1
      BY <3>5
    <3>9. /\ t[i].role = "handler" => t[i - 1].kind = "throw" /\ t[i - 1].at = t[i].at
          /\ t[i].kind = "throw" => t[i].at \in 1 .. i - 1
          /\ t[i].role = "callback" <=> i > 1 /\ t[i - 1].kind = "guard"
          /\ t[i].kind = "guard" <=> i > 1 /\ t[i - 1].kind = "foreign"
          /\ i > 1 /\ t[i - 1].role \in Own => t[i - 1].phase = "body"
      BY <3>2, <3>3, <3>7, <3>8
    <3> QED BY <3>6, <3>9 DEF Shape
  <2>4. Handler(t, i)
    <3> SUFFICES ASSUME t[i].role = "handler"
                 PROVE  /\ t[i].at \in 1 .. i - 2
                        /\ t[t[i].at].kind = "handle" /\ ~t[t[i].at].visible
                        /\ \A j \in 1 .. i - 1 : t[j].role = "handler" => t[j].at # t[i].at
      BY DEF Handler
    <3> DEFINE a == s[i].at
    <3>1. t[i].at = a /\ s[i].role = "handler"
      BY <1>7
    <3>2. /\ a \in 1 .. i - 2 /\ s[a].kind = "handle" /\ ~s[a].visible
          /\ \A j \in 1 .. i - 1 : s[j].role = "handler" => s[j].at # a
      BY <2>1, <3>1 DEF Handler
    <3> HIDE DEF a
    <3>3. a \in DOMAIN s /\ \A j \in 1 .. i - 1 : j \in DOMAIN s
      BY <1>1, <3>2
    <3>4. ~t[a].visible
      <4>1. CASE a # k
        BY <1>5, <3>2, <3>3, <4>1
      <4>2. CASE a = k
        <5>1. s[i].at = k
          BY <4>2 DEF a
        <5>2. ~b
          BY <3>1, <5>1
        <5> QED BY <1>4, <1>5, <4>2, <5>2
      <4> QED BY <4>1, <4>2
    <3>5. t[a].kind = "handle"
      BY <1>7, <3>2, <3>3
    <3>6. \A j \in 1 .. i - 1 : t[j].role = "handler" => t[j].at # a
      BY <1>7, <3>2, <3>3
    <3> QED BY <3>1, <3>2, <3>4, <3>5, <3>6
  <2> QED BY <2>2, <2>3, <2>4 DEF Fit
<1>10. t[k].visible = b
  BY <1>4, <1>5
<1> QED BY <1>5, <1>7, <1>8, <1>9, <1>10 DEF t

\* A frame is pushed, as the kth.
LEMMA PushWhole ==
  ASSUME NEW s, NEW e, NEW d, Whole(s, e, d), NEW f \in Frames, f.dyn = d,
         f.kind = "let" => f.env = d, f.kind = "menv" => f.env = e,
         NEW k \in Nat, k = Len(s) + 1,
         Shape(Append(s, f), k), Handler(Append(s, f), k)
  PROVE  /\ Whole(Append(s, f), IF f.kind = "menv" THEN k ELSE e,
                  IF Binding(f) THEN k ELSE d)
         /\ Len(Append(s, f)) = k /\ Append(s, f)[k] = f
         /\ \A j \in 1 .. k - 1 : Append(s, f)[j] = s[j]
<1> DEFINE t == Append(s, f)
           n == k - 1
           e2 == IF f.kind = "menv" THEN k ELSE e
           d2 == IF Binding(f) THEN k ELSE d
<1>1. /\ s \in Stack /\ n \in Nat /\ n = Len(s) /\ k = n + 1 /\ DOMAIN s = 1 .. n
      /\ Shape(t, k) /\ Handler(t, k) /\ (\A i \in DOMAIN s : Fit(s, i))
      /\ Latest(Envs(s), n, e) /\ Latest(Binds(s), n, d)
  BY StackFacts DEF Whole
<1>2. /\ t \in Stack /\ Len(t) = k /\ t[k] = f
      /\ \A j \in 1 .. n : t[j] = s[j]
  BY <1>1 DEF Stack
<1>3. t = Append(SubSeq(s, 1, n), f)
  BY <1>1, SubSeqFull DEF Stack
<1> HIDE DEF t
<1>4. DOMAIN t = 1 .. k
  BY <1>1, <1>2, StackFacts
<1>5. \A j \in 1 .. n : (j \in Envs(s) <=> j \in Envs(t)) /\ (j \in Binds(s) <=> j \in Binds(t))
  BY <1>1, <1>2, <1>4 DEF Envs, Binds
<1>6. Latest(Envs(t), n, e) /\ Latest(Binds(t), n, d)
  BY <1>1, <1>2, <1>5, LatestAgrees, StackFacts
<1>7. Envs(t) \subseteq 1 .. k /\ Binds(t) \subseteq 1 .. k
  BY <1>2, StackFacts
<1>8. Latest(Envs(t), k, e2)
  <2>1. CASE f.kind = "menv"
    <3>1. k \in Envs(t)
      BY <1>1, <1>2, <1>4, <2>1 DEF Envs
    <3> QED BY <1>1, <1>7, <2>1, <3>1 DEF Latest
  <2>2. CASE f.kind # "menv"
    <3>1. k \notin Envs(t)
      BY <1>2, <2>2 DEF Envs
    <3>2. \A j \in Envs(t) : j <= n
      BY <1>1, <1>7, <3>1
    <3> QED BY <1>1, <1>6, <2>2, <3>2 DEF Latest
  <2> QED BY <2>1, <2>2
<1>9. Latest(Binds(t), k, d2)
  <2>1. CASE Binding(f)
    <3>1. k \in Binds(t)
      BY <1>1, <1>2, <1>4, <2>1 DEF Binds
    <3> QED BY <1>1, <1>7, <2>1, <3>1 DEF Latest
  <2>2. CASE ~Binding(f)
    <3>1. k \notin Binds(t)
      BY <1>2, <2>2 DEF Binds
    <3>2. \A j \in Binds(t) : j <= n
      BY <1>1, <1>7, <3>1
    <3> QED BY <1>1, <1>6, <2>2, <3>2 DEF Latest
  <2> QED BY <2>1, <2>2
<1>10. Fit(t, k)
  <2>1. Context(t, k)
    BY <1>2, <1>6 DEF Context
  <2> QED BY <1>1, <2>1 DEF Fit
<1>11. Whole(t, e2, d2)
  <2> HIDE DEF e2, d2, n
  <2>1. n \in 0 .. Len(s)
    BY <1>1
  <2>2. /\ Fit(Append(SubSeq(s, 1, n), f), n + 1)
        /\ Latest(Envs(Append(SubSeq(s, 1, n), f)), n + 1, e2)
        /\ Latest(Binds(Append(SubSeq(s, 1, n), f)), n + 1, d2)
    BY <1>1, <1>3, <1>8, <1>9, <1>10
  <2> QED BY <1>1, <1>3, <2>1, <2>2, AppendWhole
<1> QED BY <1>2, <1>11 DEF t

\* So is a frame of no special place.
LEMMA PushPlain ==
  ASSUME NEW s, NEW e, NEW d, Whole(s, e, d), Settled(s), NEW f \in Frames, f.dyn = d,
         f.kind = "let" => f.env = d, f.kind = "menv" => f.env = e,
         f.role \notin Own, f.kind \notin {"guard", "throw"},
         NEW k \in Nat, k = Len(s) + 1
  PROVE  /\ Whole(Append(s, f), IF f.kind = "menv" THEN k ELSE e,
                  IF f.kind = "let" THEN k ELSE d)
         /\ Len(Append(s, f)) = k /\ Append(s, f)[k] = f
         /\ \A j \in 1 .. k - 1 : Append(s, f)[j] = s[j]
<1> DEFINE t == Append(s, f)
           n == k - 1
<1>1. s \in Stack /\ n \in Nat /\ n = Len(s) /\ DOMAIN s = 1 .. n
  <2>1. s \in Stack
    BY DEF Whole
  <2>2. Len(s) \in Nat /\ DOMAIN s = 1 .. Len(s)
    BY <2>1, StackFacts
  <2>3. n = Len(s)
    BY <2>2
  <2> QED BY <2>1, <2>2, <2>3
<1>2. /\ t \in Stack /\ Len(t) = k /\ t[k] = f
      /\ \A j \in 1 .. n : t[j] = s[j]
  BY <1>1 DEF Stack
<1> HIDE DEF t
<1>3. k > 1 => /\ t[k - 1].kind \notin {"foreign", "guard"}
               /\ t[k - 1].role \in Own => t[k - 1].phase = "body"
  <2> SUFFICES ASSUME k > 1
               PROVE  /\ t[n].kind \notin {"foreign", "guard"}
                      /\ t[n].role \in Own => t[n].phase = "body"
    OBVIOUS
  <2>1. n \in DOMAIN s /\ t[n] = s[n]
    BY <1>1, <1>2
  <2>2. s[n].kind \notin {"foreign", "guard"} /\ (s[n].role \in Own => s[n].phase = "body")
    BY <1>1, <2>1 DEF Settled
  <2> HIDE DEF n
  <2> QED BY <2>1, <2>2
<1>5. Shape(t, k)
  BY <1>2, <1>3 DEF Shape
<1>6. Handler(t, k)
  BY <1>2 DEF Handler
<1>7. Binding(f) <=> f.kind = "let"
  BY DEF Binding
<1> QED BY <1>5, <1>6, <1>7, PushWhole DEF t

\* The topmost frame is popped.
LEMMA PopWhole ==
  ASSUME NEW s, NEW e, NEW d, Whole(s, e, d), NEW n \in Nat \ {0}, n = Len(s)
  PROVE  /\ Whole(SubSeq(s, 1, n - 1), IF s[n].kind = "menv" THEN s[n].env ELSE e,
                  s[n].dyn)
         /\ ~Binding(s[n]) => s[n].dyn = d
         /\ s[n].kind = "let" => s[n].env = s[n].dyn
         /\ s[n].kind = "menv" => e = n
         /\ s[n].role # "callback" /\ s[n].kind # "guard" => Settled(SubSeq(s, 1, n - 1))
         /\ Len(SubSeq(s, 1, n - 1)) = n - 1
         /\ \A j \in 1 .. n - 1 : SubSeq(s, 1, n - 1)[j] = s[j]
<1> DEFINE t == SubSeq(s, 1, n - 1)
<1>1. /\ s \in Stack /\ DOMAIN s = 1 .. n /\ n - 1 \in 0 .. Len(s) /\ n \in DOMAIN s
      /\ (\A i \in DOMAIN s : Fit(s, i)) /\ Latest(Envs(s), n, e) /\ Latest(Binds(s), n, d)
      /\ n - 1 \in Nat
  BY StackFacts DEF Whole
<1>2. Context(s, n) /\ Shape(s, n)
  BY <1>1 DEF Fit
<1>3. Latest(Binds(s), n - 1, s[n].dyn)
  BY <1>2 DEF Context
<1>4. Latest(Envs(s), n - 1, IF s[n].kind = "menv" THEN s[n].env ELSE e)
  <2>1. CASE s[n].kind = "menv"
    BY <1>2, <2>1 DEF Context
  <2>2. CASE s[n].kind # "menv"
    <3>1. n \notin Envs(s)
      BY <2>2 DEF Envs
    <3>2. e \in 0 .. n - 1
      BY <1>1, <3>1 DEF Latest
    <3> QED BY <1>1, <2>2, <3>2 DEF Latest
  <2> QED BY <2>1, <2>2
<1>5. s[n].kind = "menv" => e = n
  <2>1. s[n].kind = "menv" => n \in Envs(s)
    BY <1>1 DEF Envs
  <2> QED BY <1>1, <2>1 DEF Latest
<1>6. s[n].kind = "let" => s[n].env = s[n].dyn
  <2>1. 0 \notin Binds(s)
    BY <1>1 DEF Binds
  <2>2. s[n].kind = "let" => Latest(Binds(s), n - 1, s[n].env)
    BY <1>2 DEF Context
  <2> QED BY <1>1, <1>3, <2>1, <2>2, LatestUnique
<1>7. ~Binding(s[n]) => s[n].dyn = d
  <2> SUFFICES ASSUME ~Binding(s[n]) PROVE s[n].dyn = d
    OBVIOUS
  <2>1. 0 \notin Binds(s) /\ n \notin Binds(s)
    BY <1>1 DEF Binds
  <2>2. d \in 0 .. n - 1
    BY <1>1, <2>1 DEF Latest
  <2>3. Latest(Binds(s), n - 1, d)
    BY <1>1, <2>2 DEF Latest
  <2> QED BY <1>1, <1>3, <2>1, <2>3, LatestUnique
<1>8. /\ Len(t) = n - 1 /\ t \in Stack
      /\ \A j \in 1 .. n - 1 : t[j] = s[j]
  BY <1>1, PrefixFacts
<1>9. Whole(t, IF s[n].kind = "menv" THEN s[n].env ELSE e, s[n].dyn)
  BY <1>1, <1>3, <1>4, PrefixWhole
<1> HIDE DEF t
<1>10. ASSUME s[n].role # "callback", s[n].kind # "guard" PROVE Settled(t)
  <2> SUFFICES ASSUME NEW i \in DOMAIN t, i = Len(t)
               PROVE  /\ t[i].kind \notin {"foreign", "guard"}
                      /\ t[i].role \in Own => t[i].phase = "body"
    BY DEF Settled
  <2>1. i = n - 1 /\ n > 1 /\ t[i] = s[n - 1]
    BY <1>1, <1>8, StackFacts
  <2> QED BY <1>2, <1>10, <2>1 DEF Shape
<1> QED BY <1>5, <1>6, <1>7, <1>8, <1>9, <1>10 DEF t

-----------------------------------------------------------------------------
(* Throwing.                                                               *)

\* What follows when control leaves the stack s, or goes on in it: the process ends,
\* or the stack is again whole.
Sequel(s) ==
  \/ dead' \in {"lost", "unhandled"} /\ UNCHANGED <<stk, menv, dyn>>
  \/ /\ dead' = dead
     /\ Whole(stk', menv', dyn')
     /\ \A i \in DOMAIN stk' : i = Len(stk') => stk'[i].kind \notin {"foreign", "guard"}
     /\ Disabled(s) => Disabled(stk')
     /\ (\A i \in DOMAIN s : Owing(s, i)) => \A i \in DOMAIN stk' : Owing(stk', i)
     /\ \A i \in DOMAIN stk' : stk'[i].kind = "hook" =>
          hook \/ \E j \in DOMAIN s : s[j].kind = "hook"
     /\ \A i \in DOMAIN s : i > Len(stk') => ~(s[i].kind = "catch" /\ s[i].visible)

\* The transfer finds its way.
Arrives == dead' = "unhandled" \/ (dead' = dead /\ AllClean(stk'))

\* Leaving is such a sequel.
LEMMA LeaveSequel ==
  ASSUME NEW s \in Stack, \A i \in DOMAIN s : Fit(s, i), Settled(s), NEW ep \in Int,
         Latest(Envs(s), Len(s), menv), Leave(s, ep)
  PROVE  /\ Sequel(s)
         /\ AllClean(s) /\ Target(s, ep) => Arrives
<1>1. /\ \/ dead' \in {"lost", "unhandled"} /\ UNCHANGED <<stk, menv, dyn>>
         \/ dead' = dead /\ Whole(stk', menv', dyn') /\ Left(s, stk')
      /\ AllClean(s) /\ Target(s, ep) => dead' = "unhandled" \/ (dead' = dead /\ AllClean(stk'))
  BY Leaving DEF Leave
<1>2. CASE dead' \in {"lost", "unhandled"} /\ UNCHANGED <<stk, menv, dyn>>
  BY <1>1, <1>2 DEF Sequel, Arrives
<1>3. CASE dead' = dead /\ Whole(stk', menv', dyn') /\ Left(s, stk')
  <2> DEFINE t == stk'
  <2>1. t \in Stack /\ Left(s, t)
    BY <1>3 DEF Whole
  <2> HIDE DEF t
  <2>2. /\ Len(s) \in Nat /\ DOMAIN s = 1 .. Len(s) /\ Len(t) \in Nat
        /\ DOMAIN t = 1 .. Len(t) /\ DOMAIN t \subseteq DOMAIN s
    BY <2>1, StackFacts DEF Left
  <2>3. /\ Disabled(s) => Disabled(t)
        /\ (\A i \in DOMAIN s : Owing(s, i)) => \A i \in DOMAIN t : Owing(t, i)
    BY <2>1, LeftFacts
  <2>4. /\ \A i \in DOMAIN t : i = Len(t) => t[i].kind \notin {"foreign", "guard"}
        /\ \A i \in DOMAIN t : t[i].kind = "hook" => \E j \in DOMAIN s : s[j].kind = "hook"
        /\ \A i \in DOMAIN s : i > Len(t) => ~(s[i].kind = "catch" /\ s[i].visible)
    BY <2>1, <2>2 DEF Left
  <2>5. Sequel(s)
    BY <1>3, <2>3, <2>4 DEF Sequel, t
  <2> QED BY <1>1, <2>5 DEF Arrives
<1> QED BY <1>1, <1>2, <1>3

\* Two frames are pushed.
LEMMA PushTwo ==
  ASSUME NEW s \in Stack, NEW a \in Frames, NEW b \in Frames
  PROVE  s \o <<a, b>> = Append(Append(s, a), b)
BY DEF Stack

\* The frames of a handler that is invoked, for frame i
ThrowFrame(sym, i) == [Frame("throw") EXCEPT !.sym = sym, !.at = i]
HandlerFrame(i) == [Frame("catch") EXCEPT !.role = "handler", !.at = i]

ForHandler(a, b, i, d) ==
  /\ a \in Frames /\ a.kind = "throw" /\ a.role \notin Own /\ a.at = i /\ a.dyn = d
  /\ a.cont = None /\ a.starts = 0
  /\ b \in Frames /\ b.kind = "catch" /\ b.role = "handler" /\ b.at = i /\ b.dyn = d
  /\ b.cont = None /\ b.starts = 0 /\ b.phase = "body" /\ b.visible = TRUE
  /\ b.matches = {}

LEMMA InvokeFrames ==
  ASSUME dyn \in Int, NEW i \in Int, NEW sym \in Syms
  PROVE  ForHandler(ThrowFrame(sym, i), HandlerFrame(i), i, dyn)
<1> DEFINE a == [Frame("throw") EXCEPT !.sym = sym, !.at = i]
           b == [Frame("catch") EXCEPT !.role = "handler", !.at = i]
<1>1. Frame("throw") \in Frames /\ Frame("catch") \in Frames
  BY FrameFacts DEF Kinds
<1>2. a \in Frames /\ b \in Frames
  <2>1. \A f \in Frames : [f EXCEPT !.sym = sym, !.at = i] \in Frames
    BY DEF Frames
  <2>2. \A f \in Frames : [f EXCEPT !.role = "handler", !.at = i] \in Frames
    BY DEF Frames
  <2> QED BY <1>1, <2>1, <2>2
<1>3. /\ a.kind = "throw" /\ a.role \notin Own /\ a.at = i
      /\ a.dyn = dyn /\ a.cont = None /\ a.starts = 0 /\ a.phase = "body"
  BY DEF Frame
<1>4. /\ b.kind = "catch" /\ b.role = "handler" /\ b.at = i
      /\ b.dyn = dyn /\ b.cont = None /\ b.starts = 0 /\ b.phase = "body"
      /\ b.visible = TRUE /\ b.matches = {}
  BY DEF Frame
<1> QED BY <1>2, <1>3, <1>4 DEF ThrowFrame, HandlerFrame, ForHandler


\* A handler frame is disabled.
Off(s, k) == [s EXCEPT ![k].visible = FALSE]

LEMMA OffFacts ==
  ASSUME NEW s \in Stack, \A i \in DOMAIN s : Fit(s, i), NEW k \in DOMAIN s,
         s[k].kind = "handle"
  PROVE  /\ Off(s, k) \in Stack /\ Len(Off(s, k)) = Len(s)
         /\ \A i \in DOMAIN s : i # k => Off(s, k)[i] = s[i]
         /\ ~Off(s, k)[k].visible
         /\ \A i \in DOMAIN s :
              /\ Off(s, k)[i].kind = s[i].kind /\ Off(s, k)[i].role = s[i].role
              /\ Off(s, k)[i].at = s[i].at /\ Off(s, k)[i].cont = s[i].cont
              /\ Off(s, k)[i].starts = s[i].starts
              /\ Off(s, k)[i].phase = s[i].phase
         /\ \A i \in DOMAIN s : Fit(Off(s, k), i)
         /\ Envs(Off(s, k)) = Envs(s) /\ Binds(Off(s, k)) = Binds(s)
<1> DEFINE b == FALSE
           t == Off(s, k)
<1>1. b \in BOOLEAN /\ t = Seen(s, k, b) /\ b = FALSE
  BY DEF Off, Seen
<1> HIDE DEF b, t
<1>2. /\ Seen(s, k, b) \in Stack /\ Len(Seen(s, k, b)) = Len(s)
      /\ \A i \in DOMAIN s : i # k => Seen(s, k, b)[i] = s[i]
      /\ Seen(s, k, b)[k].visible = b
      /\ \A i \in DOMAIN s :
           /\ Seen(s, k, b)[i].kind = s[i].kind /\ Seen(s, k, b)[i].role = s[i].role
           /\ Seen(s, k, b)[i].at = s[i].at /\ Seen(s, k, b)[i].cont = s[i].cont
           /\ Seen(s, k, b)[i].starts = s[i].starts
           /\ Seen(s, k, b)[i].phase = s[i].phase
      /\ \A i \in DOMAIN s : Fit(Seen(s, k, b), i)
      /\ Envs(Seen(s, k, b)) = Envs(s) /\ Binds(Seen(s, k, b)) = Binds(s)
  BY <1>1, VisibleFacts
<1> QED BY <1>1, <1>2 DEF t

\* The stack as a handler is invoked: the handler's frame is disabled, and the new
\* dynamic environment is that of its catch.
LEMMA InvokeStack ==
  ASSUME NEW s, NEW e, NEW d, Whole(s, e, d), Settled(s), NEW i \in DOMAIN s,
         s[i].kind = "handle", s[i].visible,
         NEW a, NEW b, ForHandler(a, b, i, d),
         NEW m \in Nat, m = Len(s) + 2
  PROVE  LET v == Append(Append(Off(s, i), a), b)
         IN  /\ Whole(v, e, m) /\ Len(v) = m /\ v[m] = b
             /\ Disabled(s) => Disabled(v)
             /\ (\A j \in DOMAIN s : Owing(s, j)) => \A j \in DOMAIN v : Owing(v, j)
             /\ \A j \in DOMAIN v : v[j].kind = "hook" =>
                  \E h \in DOMAIN s : s[h].kind = "hook"
             /\ AllClean(s) => AllClean(v)
<1> DEFINE n == Len(s)
           k == n + 1
           t == Off(s, i)
           u == Append(t, a)
           v == Append(u, b)
<1>1. /\ s \in Stack /\ n \in Nat /\ k \in Nat /\ DOMAIN s = 1 .. n /\ i \in 1 .. n
      /\ \A j \in DOMAIN s : Fit(s, j)
      /\ Latest(Envs(s), n, e) /\ Latest(Binds(s), n, d)
  BY StackFacts DEF Whole
<1>2. /\ t \in Stack /\ Len(t) = n /\ (\A j \in DOMAIN s : j # i => t[j] = s[j])
      /\ ~t[i].visible
      /\ \A j \in DOMAIN s :
           /\ t[j].kind = s[j].kind /\ t[j].role = s[j].role /\ t[j].at = s[j].at
           /\ t[j].cont = s[j].cont /\ t[j].starts = s[j].starts /\ t[j].phase = s[j].phase
      /\ \A j \in DOMAIN s : Fit(t, j)
      /\ Envs(t) = Envs(s) /\ Binds(t) = Binds(s)
  <2>1. /\ Off(s, i) \in Stack /\ Len(Off(s, i)) = Len(s)
        /\ \A j \in DOMAIN s : j # i => Off(s, i)[j] = s[j]
        /\ ~Off(s, i)[i].visible
        /\ \A j \in DOMAIN s :
             /\ Off(s, i)[j].kind = s[j].kind /\ Off(s, i)[j].role = s[j].role
             /\ Off(s, i)[j].at = s[j].at /\ Off(s, i)[j].cont = s[j].cont
             /\ Off(s, i)[j].starts = s[j].starts
             /\ Off(s, i)[j].phase = s[j].phase
        /\ \A j \in DOMAIN s : Fit(Off(s, i), j)
        /\ Envs(Off(s, i)) = Envs(s) /\ Binds(Off(s, i)) = Binds(s)
    BY <1>1, OffFacts
  <2> QED BY <2>1
<1>3. /\ a \in Frames /\ a.kind = "throw" /\ a.role \notin Own /\ a.at = i /\ a.dyn = d
      /\ a.cont = None /\ a.starts = 0
      /\ b \in Frames /\ b.kind = "catch" /\ b.role = "handler" /\ b.at = i /\ b.dyn = d
      /\ b.cont = None /\ b.starts = 0 /\ b.phase = "body" /\ b.visible = TRUE
      /\ b.matches = {}
  BY DEF ForHandler
<1>4. n = Len(s) /\ k = n + 1 /\ m = k + 1 /\ t = Off(s, i) /\ u = Append(t, a) /\ v = Append(u, b)
  BY <1>1
<1> HIDE DEF n, k, t, u, v
<1>5. /\ k - 1 = n /\ m - 1 = k /\ m - 2 = n /\ n >= 1 /\ DOMAIN t = 1 .. n
      /\ k = n + 1 /\ m = k + 1
  <2>1. k - 1 = n /\ m - 1 = k /\ m - 2 = n /\ k = n + 1 /\ m = k + 1
    BY <1>1, <1>4
  <2>3. n >= 1
    BY <1>1
  <2>4. DOMAIN t = 1 .. n
    BY <1>2, StackFacts
  <2> QED BY <2>1, <2>3, <2>4
<1>6. Whole(t, e, d)
  BY <1>1, <1>2, <1>5 DEF Whole
<1>7. /\ u \in Stack /\ Len(u) = k /\ u[k] = a /\ \A j \in 1 .. n : u[j] = t[j]
  BY <1>2, <1>3, <1>4, <1>5 DEF Stack
<1>8. /\ t[n].kind \notin {"foreign", "guard"} /\ (t[n].role \in Own => t[n].phase = "body")
  BY <1>1, <1>2, <1>4 DEF Settled
<1>9. Shape(u, k) /\ Handler(u, k)
  <2>1. k - 1 = n /\ u[k - 1] = t[n] /\ k > 1
    BY <1>1, <1>5, <1>7
  <2>2. Shape(u, k)
    BY <1>3, <1>1, <1>7, <1>8, <2>1 DEF Shape
  <2>3. Handler(u, k)
    BY <1>3, <1>7 DEF Handler
  <2> QED BY <2>2, <2>3
<1>10. ~Binding(a) /\ Binding(b)
  BY <1>3 DEF Binding
<1>11. Whole(u, e, d)
  <2>1. Whole(u, IF a.kind = "menv" THEN k ELSE e, IF Binding(a) THEN k ELSE d)
    <3>1. k = Len(t) + 1 /\ a.kind # "let" /\ a.kind # "menv"
      BY <1>3, <1>2, <1>5
    <3> QED BY <1>1, <1>3, <1>4, <1>5, <1>6, <1>9, <3>1, PushWhole
  <2> QED BY <1>3, <1>10, <2>1
<1>12. /\ v \in Stack /\ Len(v) = m /\ v[m] = b /\ \A j \in 1 .. k : v[j] = u[j]
  BY <1>3, <1>4, <1>5, <1>7 DEF Stack
<1>13. m - 1 = k /\ v[m - 1] = a /\ v[k] = a /\ m > 1 /\ (\A j \in 1 .. n : v[j] = t[j])
  BY <1>1, <1>5, <1>7, <1>12
<1>14. Shape(v, m)
  BY <1>3, <1>12, <1>13 DEF Shape
<1>15. Handler(v, m)
  <2>1. i \in 1 .. m - 2 /\ v[i] = t[i]
    BY <1>1, <1>5, <1>13
  <2>2. v[i].kind = "handle" /\ ~v[i].visible
    BY <1>2, <2>1
  <2>3. ASSUME NEW j \in 1 .. m - 1, v[j].role = "handler" PROVE v[j].at # i
    <3>1. j \in 1 .. n
      <4>1. a.role # "handler" /\ v[k] = a
        BY <1>3, <1>13
      <4>2. j # k
        BY <2>3, <4>1
      <4> QED BY <1>5, <4>2
    <3>2. s[j].role = "handler" /\ s[j].at = v[j].at /\ j \in DOMAIN s
      <4>1. j \in DOMAIN s /\ v[j] = t[j]
        BY <1>1, <1>13, <3>1
      <4> QED BY <1>2, <2>3, <4>1
    <3>3. ~s[s[j].at].visible
      BY <1>1, <3>2 DEF Fit, Handler
    <3> QED BY <3>2, <3>3
  <2> QED BY <1>3, <1>12, <2>1, <2>2, <2>3 DEF Handler
<1>16. Whole(v, e, m)
  <2>1. Whole(v, IF b.kind = "menv" THEN m ELSE e, IF Binding(b) THEN m ELSE d)
    <3>1. m = Len(u) + 1 /\ b.kind # "let" /\ b.kind # "menv"
      BY <1>3, <1>5, <1>7
    <3> QED BY <1>3, <1>4, <1>5, <1>11, <1>14, <1>15, <3>1, PushWhole
  <2> QED BY <1>3, <1>10, <2>1
<1>17. DOMAIN v = 1 .. m
  BY <1>12, StackFacts
<1>18. \A j \in DOMAIN v : j = m \/ j = k \/ (j \in DOMAIN s /\ v[j] = t[j])
  BY <1>1, <1>5, <1>13, <1>17
<1>19. ASSUME Disabled(s) PROVE Disabled(v)
  <2> SUFFICES ASSUME NEW h \in DOMAIN v, v[h].kind = "handle", ~v[h].visible
               PROVE  \E j \in DOMAIN v : v[j].role = "handler" /\ v[j].at = h
    BY DEF Disabled
  <2>1. h \in DOMAIN s /\ v[h] = t[h]
    BY <1>3, <1>12, <1>13, <1>18
  <2>2. CASE h = i
    <3>1. m \in DOMAIN v
      BY <1>5, <1>17
    <3> QED BY <1>3, <1>12, <2>2, <3>1
  <2>3. CASE h # i
    <3>1. s[h].kind = "handle" /\ ~s[h].visible
      BY <1>2, <2>1, <2>3
    <3>2. PICK j \in DOMAIN s : s[j].role = "handler" /\ s[j].at = h
      BY <1>19, <2>1, <3>1 DEF Disabled
    <3>3. j \in DOMAIN v /\ v[j].role = "handler" /\ v[j].at = h
      BY <1>1, <1>2, <1>5, <1>13, <1>17, <3>2
    <3> QED BY <3>3
  <2> QED BY <2>2, <2>3
<1>20. ASSUME \A j \in DOMAIN s : Owing(s, j), NEW j \in DOMAIN v PROVE Owing(v, j)
  <2> SUFFICES ASSUME v[j].kind = "guard" PROVE v[j - 1].cont = None
    BY DEF Owing
  <2>1. j \in DOMAIN s /\ s[j].kind = "guard"
    BY <1>3, <1>2, <1>12, <1>13, <1>18
  <2>2. j > 1
    BY <1>1, <2>1 DEF Fit, Shape
  <2>3. j - 1 \in DOMAIN s /\ v[j - 1] = t[j - 1]
    BY <1>1, <1>13, <2>1, <2>2
  <2> QED BY <1>2, <1>20, <2>1, <2>3 DEF Owing
<1>21. \A j \in DOMAIN v : v[j].kind = "hook" => \E h \in DOMAIN s : s[h].kind = "hook"
  BY <1>3, <1>2, <1>12, <1>13, <1>18
<1>25. ASSUME AllClean(s) PROVE AllClean(v)
  <2> SUFFICES ASSUME NEW j \in DOMAIN v PROVE Clean(v, j)
    BY DEF AllClean
  <2>1. CASE j = m
    BY <1>3, <1>12, <2>1 DEF Clean
  <2>2. CASE j = k
    BY <1>3, <1>13, <2>2 DEF Clean
  <2>3. CASE j \in DOMAIN s /\ v[j] = t[j]
    <3>1. Clean(s, j)
      BY <1>25, <2>3 DEF AllClean
    <3>2. \A x \in Exits(s, j) : x \in Exits(v, j)
      <4> SUFFICES ASSUME NEW x \in Exits(s, j) PROVE x \in Exits(v, j)
        OBVIOUS
      <4>1. /\ x \in 1 .. j - 1 /\ x \in DOMAIN s /\ v[x] = t[x]
            /\ s[x].kind = "block" \/ (s[x].kind = "catch" /\ s[x].visible)
        BY <1>1, <1>13, <2>3 DEF Exits
      <4>2. x # i
        BY <4>1
      <4> QED BY <1>2, <4>1, <4>2 DEF Exits
    <3>3. j # i => v[j] = s[j]
      BY <1>2, <2>3
    <3>4. v[j].cont = s[j].cont /\ v[j].starts = s[j].starts /\ v[j].kind = s[j].kind
      BY <1>2, <2>3
    <3>5. CASE j # i
      BY <3>1, <3>2, <3>3, <3>5 DEF Clean
    <3>6. CASE j = i
      BY <3>1, <3>2, <3>4, <3>6 DEF Clean
    <3> QED BY <3>5, <3>6
  <2> QED BY <1>18, <2>1, <2>2, <2>3
<1> QED BY <1>12, <1>16, <1>19, <1>20, <1>21, <1>25 DEF v, u, t

\* A handler is invoked.
LEMMA InvokeSound ==
  ASSUME NEW s, Whole(s, menv, dyn), Settled(s), NEW i \in DOMAIN s,
         s[i].kind = "handle", s[i].visible, NEW sym \in Syms,
         Invoke(s, i, sym)
  PROVE  /\ Sequel(s) /\ UNCHANGED <<hook, reentry>>
         /\ AllClean(s) => Arrives
<1> DEFINE n == Len(s)
           a == ThrowFrame(sym, i)
           b == HandlerFrame(i)
           t == Off(s, i)
           v == Append(Append(t, a), b)
           k == n + 1
           m == k + 1
<1>1. /\ s \in Stack /\ n \in Nat /\ DOMAIN s = 1 .. n /\ i \in 1 .. n /\ i \in Int
      /\ \A j \in DOMAIN s : Fit(s, j)
      /\ Latest(Binds(s), n, dyn)
  BY StackFacts DEF Whole
<1>2. dyn \in Int /\ k \in Nat /\ m \in Nat /\ n + 2 = m
  BY <1>1 DEF Latest
<1>3. ForHandler(a, b, i, dyn)
  BY <1>1, <1>2, InvokeFrames
<1>4. t \in Stack
  BY <1>1, OffFacts
<1>5. /\ stk' = t \o <<a, b>> /\ dyn' = n + 2 /\ menv' = menv /\ dead' = dead
      /\ UNCHANGED <<hook, reentry>>
  BY DEF Invoke, Off, ThrowFrame, HandlerFrame
<1> HIDE DEF a, b
<1>6. stk' = v /\ dyn' = m
  <2>1. t \o <<a, b>> = v
    <3> HIDE DEF t
    <3> QED BY <1>3, <1>4, PushTwo DEF ForHandler
  <2> QED BY <1>2, <1>5, <2>1
<1>7. /\ Whole(v, menv, m) /\ Len(v) = m /\ v[m] = b
      /\ Disabled(s) => Disabled(v)
      /\ (\A j \in DOMAIN s : Owing(s, j)) => \A j \in DOMAIN v : Owing(v, j)
      /\ \A j \in DOMAIN v : v[j].kind = "hook" => \E h \in DOMAIN s : s[h].kind = "hook"
      /\ AllClean(s) => AllClean(v)
  <2>1. m = Len(s) + 2
    BY <1>2
  <2> HIDE DEF n, k, m
  <2> QED BY <1>1, <1>2, <1>3, <2>1, InvokeStack
<1> HIDE DEF v, m
<1>8. \A j \in DOMAIN s : ~(j > Len(v))
  BY <1>1, <1>2, <1>7
<1>9. \A j \in DOMAIN v : j = Len(v) => v[j].kind \notin {"foreign", "guard"}
  BY <1>3, <1>7 DEF ForHandler
<1>10. Sequel(s)
  BY <1>5, <1>6, <1>7, <1>8, <1>9 DEF Sequel
<1> QED BY <1>5, <1>6, <1>7, <1>10 DEF Arrives

\* The function in *unhandled-hook* is called.
LEMMA CallHookSound ==
  ASSUME NEW s, Whole(s, menv, dyn), Settled(s), hook, CallHook(s)
  PROVE  /\ Sequel(s)
         /\ AllClean(s) => Arrives
<1> DEFINE f == Frame("hook")
           n == Len(s)
           k == n + 1
           v == Append(s, f)
<1>1. /\ s \in Stack /\ n \in Nat /\ k \in Nat /\ DOMAIN s = 1 .. n
      /\ Latest(Binds(s), n, dyn) /\ \A j \in DOMAIN s : Fit(s, j)
  BY StackFacts DEF Whole
<1>2. dyn \in Int /\ k - 1 = n
  BY <1>1 DEF Latest
<1>3. /\ f \in Frames /\ f.kind = "hook" /\ f.role \notin Own /\ f.cont = None
      /\ f.dyn = dyn /\ f.starts = 0
  <2>1. "hook" \in Kinds
    BY DEF Kinds
  <2>2. /\ f \in Frames /\ f.kind = "hook" /\ f.role = "" /\ f.cont = None
        /\ f.dyn = dyn /\ f.starts = 0
    BY <1>2, <2>1, FrameFacts
  <2> QED BY <2>2
<1>4. stk' = v /\ UNCHANGED <<menv, dyn, dead>>
  BY DEF CallHook
<1> HIDE DEF f
<1>5. /\ Whole(v, menv, dyn) /\ Len(v) = k /\ v[k] = f
      /\ \A j \in 1 .. k - 1 : v[j] = s[j]
  <2>1. k = Len(s) + 1
    OBVIOUS
  <2> HIDE DEF k, n
  <2>2. /\ Whole(Append(s, f), IF f.kind = "menv" THEN k ELSE menv,
                 IF f.kind = "let" THEN k ELSE dyn)
        /\ Len(Append(s, f)) = k /\ Append(s, f)[k] = f
        /\ \A j \in 1 .. k - 1 : Append(s, f)[j] = s[j]
    BY <1>1, <1>3, <2>1, PushPlain
  <2> QED BY <1>3, <2>2
<1> HIDE DEF v, k, n
<1>6. /\ DOMAIN v = 1 .. k /\ k = n + 1 /\ n = Len(s)
      /\ \A j \in DOMAIN v : j = k \/ (j \in DOMAIN s /\ v[j] = s[j])
  <2>1. DOMAIN v = 1 .. k
    BY <1>5, StackFacts DEF Whole
  <2> QED BY <1>1, <1>2, <1>5, <2>1 DEF k, n
<1>7. ASSUME Disabled(s) PROVE Disabled(v)
  <2> SUFFICES ASSUME NEW h \in DOMAIN v, v[h].kind = "handle", ~v[h].visible
               PROVE  \E j \in DOMAIN v : v[j].role = "handler" /\ v[j].at = h
    BY DEF Disabled
  <2>1. h \in DOMAIN s /\ v[h] = s[h]
    BY <1>3, <1>5, <1>6
  <2>2. PICK j \in DOMAIN s : s[j].role = "handler" /\ s[j].at = h
    BY <1>7, <2>1 DEF Disabled
  <2>3. j \in DOMAIN v /\ v[j] = s[j]
    BY <1>1, <1>2, <1>5, <1>6
  <2> QED BY <2>2, <2>3
<1>8. ASSUME \A j \in DOMAIN s : Owing(s, j), NEW j \in DOMAIN v PROVE Owing(v, j)
  <2> SUFFICES ASSUME v[j].kind = "guard" PROVE v[j - 1].cont = None
    BY DEF Owing
  <2>1. j \in DOMAIN s /\ s[j].kind = "guard"
    BY <1>3, <1>5, <1>6
  <2>2. j > 1
    BY <1>1, <2>1 DEF Fit, Shape
  <2>3. v[j - 1] = s[j - 1]
    BY <1>1, <1>2, <1>5, <2>1, <2>2
  <2> QED BY <1>8, <2>1, <2>3 DEF Owing
<1>9. \A j \in DOMAIN s : ~(j > Len(v))
  BY <1>1, <1>5, <1>6
<1>10. \A j \in DOMAIN v : j = Len(v) => v[j].kind \notin {"foreign", "guard"}
  BY <1>3, <1>5
<1>11. Sequel(s)
  BY <1>4, <1>5, <1>7, <1>8, <1>9, <1>10 DEF Sequel
<1>12. ASSUME AllClean(s) PROVE AllClean(v)
  <2> SUFFICES ASSUME NEW j \in DOMAIN v PROVE Clean(v, j)
    BY DEF AllClean
  <2>1. CASE j = k
    BY <1>3, <1>5, <2>1 DEF Clean
  <2>2. CASE j \in DOMAIN s /\ v[j] = s[j]
    <3>1. j \in Nat /\ \A h \in 1 .. j - 1 : v[h] = s[h]
      BY <1>1, <1>2, <1>5, <2>2
    <3> QED BY <1>12, <2>2, <3>1, CleanAgrees DEF AllClean
  <2> QED BY <1>6, <2>1, <2>2
<1> QED BY <1>4, <1>11, <1>12 DEF Arrives

\* The search for a catch or a handler
LEMMA SearchSound ==
  ASSUME NEW s, Whole(s, menv, dyn), Settled(s), NEW pos \in 0 .. Len(s),
         NEW sym \in Syms, Search(s, pos, sym)
  PROVE  /\ Sequel(s)
         /\ AllClean(s) => Arrives
         /\ hook \/ UNCHANGED <<reentry, hook>>
<1> DEFINE hits == Hits(s, pos, sym)
           i == Max(hits)
<1>1. /\ s \in Stack /\ Len(s) \in Nat /\ DOMAIN s = 1 .. Len(s)
      /\ Latest(Envs(s), Len(s), menv) /\ \A j \in DOMAIN s : Fit(s, j)
  BY StackFacts DEF Whole
<1>2. /\ hits \subseteq DOMAIN s
      /\ \A j \in hits : s[j].kind \in {"catch", "handle"} /\ s[j].visible
  BY <1>1 DEF Hits
<1>3. ASSUME hits # {}
      PROVE  i \in DOMAIN s /\ s[i].kind \in {"catch", "handle"} /\ s[i].visible /\ i \in Int
  <2>1. hits \subseteq Nat /\ \A x \in hits : x <= Len(s)
    BY <1>1, <1>2
  <2>2. i \in hits
    <3> HIDE DEF hits
    <3> QED BY <1>1, <1>3, <2>1, MaxFacts
  <2> QED BY <1>1, <1>2, <2>2
<1>4. CASE hits # {} /\ s[i].kind = "catch"
  <2>1. Leave(s, i) /\ UNCHANGED <<reentry, hook>>
    BY <1>4 DEF Search
  <2>2. Target(s, i)
    BY <1>1, <1>3, <1>4 DEF Target, Exits
  <2> HIDE DEF i, hits
  <2> QED BY <1>1, <1>3, <1>4, <2>1, <2>2, LeaveSequel
<1>5. CASE hits # {} /\ s[i].kind = "handle"
  <2>1. Invoke(s, i, sym)
    BY <1>5 DEF Search
  <2> HIDE DEF i, hits
  <2> QED BY <1>3, <1>5, <2>1, InvokeSound
<1>6. CASE hits = {} /\ sym = "error" /\ hook
  <2>1. CallHook(s)
    BY <1>6 DEF Search
  <2> QED BY <1>6, <2>1, CallHookSound
<1>7. CASE hits = {} /\ sym = "error" /\ ~hook
  <2>1. Leave(s, Unhandled) /\ UNCHANGED <<reentry, hook>>
    BY <1>7 DEF Search
  <2>2. Target(s, Unhandled) /\ Unhandled \in Int
    BY DEF Target, Unhandled
  <2> QED BY <1>1, <2>1, <2>2, LeaveSequel
<1>8. CASE hits = {} /\ sym # "error"
  <2>1. stk' = s /\ UNCHANGED <<menv, dyn, dead, reentry, hook>>
    BY <1>8 DEF Search
  <2>2. Sequel(s)
    <3>1. Whole(stk', menv', dyn')
      BY <2>1
    <3>2. \A j \in DOMAIN s : j = Len(s) => s[j].kind \notin {"foreign", "guard"}
      BY DEF Settled
    <3>3. \A j \in DOMAIN s : ~(j > Len(s))
      BY <1>1
    <3> QED BY <2>1, <3>1, <3>2, <3>3 DEF Sequel
  <2> QED BY <2>1, <2>2 DEF Arrives
<1> QED BY <1>3, <1>4, <1>5, <1>6, <1>7, <1>8

-----------------------------------------------------------------------------
(* The invariant.                                                          *)

\* Foreign code has called back: the guard is not the last.
Capped(s) == \A i \in DOMAIN s : i = Len(s) => s[i].kind # "guard"

\* s_exit_point when the topmost frame is that of foreign code, or is not
Kept ==
  /\ stk = <<>> => sexit = None
  /\ \A i \in DOMAIN stk : i = Len(stk) =>
       IF stk[i].kind = "foreign"
         THEN sexit \in {None, stk[i].cont}
              /\ ("again" \notin program => sexit = stk[i].cont)
         ELSE sexit = None

Unhooked ==
  "hook" \notin program =>
    /\ reentry = 0 /\ ~hook /\ dead # "reentry"
    /\ \A i \in DOMAIN stk : stk[i].kind # "hook"

Completed ==
  "fail" \notin program =>
    /\ AllClean(stk)
    /\ dead \in {"", "unhandled", "reentry"}
    /\ dead = "" => Kept

Safe ==
  /\ Whole(stk, menv, dyn)
  /\ Capped(stk)
  /\ ~absconded => Disabled(stk)
  /\ program \in Programs
  /\ sexit \in Int
  /\ Unhooked
  /\ Completed
  /\ "again" \notin program => \A i \in DOMAIN stk : Owing(stk, i)

\* No frame is passed that still has its cleanup to do.
Passed ==
  "fail" \notin program =>
    \A i \in DOMAIN stk :
      stk[i].kind = "catch" /\ i > Len(stk') => ~stk[i].visible \/ absconded'

\* What an action may rely on in s, the frames that it goes on from.
From(s) ==
  /\ ~absconded /\ Disabled(stk) => Disabled(s)
  /\ (\A i \in DOMAIN stk : Owing(stk, i)) => \A i \in DOMAIN s : Owing(s, i)
  /\ \A i \in DOMAIN s : s[i].kind = "hook" => \E j \in DOMAIN stk : stk[j].kind = "hook"
  /\ AllClean(stk) =>
       /\ AllClean(s)
       /\ \A i \in DOMAIN stk : stk[i].kind = "catch" /\ stk[i].visible =>
            i \in DOMAIN s /\ s[i].kind = "catch" /\ s[i].visible

LEMMA InLength ==
  ASSUME NEW s \in Stack
  PROVE  \A i \in DOMAIN s : ~(i > Len(s))
<1>1. Len(s) \in Nat /\ DOMAIN s = 1 .. Len(s)
  BY StackFacts
<1> QED BY <1>1

\* What follows keeps the invariant.
LEMMA SequelKeeps ==
  ASSUME Safe, dead = "", NEW s, From(s), Sequel(s),
         "fail" \notin program /\ AllClean(stk) => Arrives,
         "hook" \in program \/ (UNCHANGED <<reentry, hook>>),
         sexit' \in Int, "fail" \notin program => sexit' = None,
         UNCHANGED <<absconded, program>>
  PROVE  Safe' /\ Passed
<1>1. CASE dead' \in {"lost", "unhandled"} /\ UNCHANGED <<stk, menv, dyn>>
  <2>1. Whole(stk', menv', dyn') /\ Capped(stk') /\ (~absconded' => Disabled(stk'))
        /\ program' \in Programs
        /\ ("again" \notin program' => \A i \in DOMAIN stk' : Owing(stk', i))
    BY <1>1 DEF Safe
  <2>2. Unhooked'
    BY <1>1 DEF Safe, Unhooked
  <2>3. Completed'
    <3> SUFFICES ASSUME "fail" \notin program
                 PROVE  AllClean(stk') /\ dead' = "unhandled"
      BY DEF Completed
    <3>1. AllClean(stk)
      BY DEF Safe, Completed
    <3>2. Arrives
      BY <3>1 DEF From
    <3> QED BY <1>1, <3>1, <3>2 DEF Arrives
  <2>4. Passed
    <3>1. \A i \in DOMAIN stk : ~(i > Len(stk))
      BY InLength DEF Safe, Whole
    <3>2. Len(stk') = Len(stk)
      BY <1>1
    <3> QED BY <3>1, <3>2 DEF Passed
  <2> QED BY <2>1, <2>2, <2>3, <2>4 DEF Safe
<1>2. CASE ~(dead' \in {"lost", "unhandled"} /\ UNCHANGED <<stk, menv, dyn>>)
  <2>1. /\ dead' = dead
        /\ Whole(stk', menv', dyn')
        /\ \A i \in DOMAIN stk' : i = Len(stk') => stk'[i].kind \notin {"foreign", "guard"}
        /\ Disabled(s) => Disabled(stk')
        /\ (\A i \in DOMAIN s : Owing(s, i)) => \A i \in DOMAIN stk' : Owing(stk', i)
        /\ \A i \in DOMAIN stk' : stk'[i].kind = "hook" =>
             hook \/ \E j \in DOMAIN s : s[j].kind = "hook"
        /\ \A i \in DOMAIN s : i > Len(stk') => ~(s[i].kind = "catch" /\ s[i].visible)
    BY <1>2 DEF Sequel
  <2>2. Capped(stk')
    BY <2>1 DEF Capped
  <2>3. ~absconded' => Disabled(stk')
    BY <2>1 DEF Safe, From
  <2>4. "again" \notin program' => \A i \in DOMAIN stk' : Owing(stk', i)
    BY <2>1 DEF Safe, From
  <2>5. Unhooked'
    BY <2>1 DEF Safe, From, Unhooked
  <2>6. Completed'
    <3> SUFFICES ASSUME "fail" \notin program PROVE AllClean(stk') /\ Kept'
      BY <2>1 DEF Completed
    <3>1. AllClean(s)
      BY DEF Safe, Completed, From
    <3>2. AllClean(stk')
      <4>1. AllClean(stk)
        BY DEF Safe, Completed
      <4>2. Arrives
        BY <4>1
      <4> QED BY <2>1, <4>2 DEF Arrives
    <3>3. Kept'
      BY <2>1 DEF Kept
    <3> QED BY <3>2, <3>3
  <2>7. Passed
    <3> SUFFICES ASSUME "fail" \notin program, NEW i \in DOMAIN stk, stk[i].kind = "catch",
                        i > Len(stk'), stk[i].visible
                 PROVE  FALSE
      BY DEF Passed
    <3>1. i \in DOMAIN s /\ s[i].kind = "catch" /\ s[i].visible
      BY DEF Safe, Completed, From
    <3> QED BY <2>1, <3>1
  <2> QED BY <2>1, <2>2, <2>3, <2>4, <2>5, <2>6 , <2>7 DEF Safe
<1> QED BY <1>1, <1>2

\* An action may go on from the whole stack,
LEMMA FromAll == From(stk)
BY DEF From

\* or from the frames below the topmost one.
LEMMA FromBelow ==
  ASSUME Safe, NEW n \in Nat \ {0}, n = Len(stk), stk[n].role # "handler",
         AllClean(stk) /\ stk[n].kind = "catch" => ~stk[n].visible
  PROVE  From(SubSeq(stk, 1, n - 1))
<1> DEFINE t == SubSeq(stk, 1, n - 1)
<1>1. /\ stk \in Stack /\ DOMAIN stk = 1 .. n /\ n - 1 \in 0 .. Len(stk) /\ n - 1 \in Nat
      /\ n \in DOMAIN stk
  BY StackFacts DEF Safe, Whole
<1>2. t \in Stack /\ Len(t) = n - 1 /\ \A j \in 1 .. n - 1 : t[j] = stk[j]
  BY <1>1, PrefixFacts
<1> HIDE DEF t
<1>3. DOMAIN t = 1 .. n - 1
  BY <1>2, StackFacts
<1>4. \A i \in DOMAIN stk : i = n \/ (i \in DOMAIN t /\ t[i] = stk[i])
  BY <1>1, <1>2, <1>3
<1>5. \A i \in DOMAIN t : i \in DOMAIN stk /\ t[i] = stk[i]
  BY <1>1, <1>2, <1>3
<1>6. ASSUME Disabled(stk) PROVE Disabled(t)
  <2> SUFFICES ASSUME NEW h \in DOMAIN t, t[h].kind = "handle", ~t[h].visible
               PROVE  \E j \in DOMAIN t : t[j].role = "handler" /\ t[j].at = h
    BY DEF Disabled
  <2>1. PICK j \in DOMAIN stk : stk[j].role = "handler" /\ stk[j].at = h
    BY <1>5, <1>6 DEF Disabled
  <2> QED BY <1>4, <2>1
<1>7. ASSUME \A i \in DOMAIN stk : Owing(stk, i), NEW i \in DOMAIN t PROVE Owing(t, i)
  <2> SUFFICES ASSUME t[i].kind = "guard" PROVE t[i - 1].cont = None
    BY DEF Owing
  <2>1. i \in DOMAIN stk /\ stk[i].kind = "guard" /\ i \in 1 .. n - 1
    BY <1>3, <1>5
  <2>2. i > 1
    BY <2>1 DEF Safe, Whole, Fit, Shape
  <2>3. i - 1 \in 1 .. n - 1
    BY <2>1, <2>2
  <2>4. t[i - 1] = stk[i - 1]
    BY <1>2, <2>3
  <2> QED BY <1>7, <2>1, <2>4 DEF Owing
<1>8. ASSUME AllClean(stk), NEW i \in DOMAIN t PROVE Clean(t, i)
  <2>1. i \in Nat /\ (\A j \in 1 .. i - 1 : t[j] = stk[j]) /\ t[i] = stk[i] /\ i \in DOMAIN stk
    BY <1>2, <1>3, <1>5
  <2> QED BY <1>8, <2>1, CleanAgrees DEF AllClean
<1>9. AllClean(stk) =>
        /\ AllClean(t)
        /\ \A i \in DOMAIN stk : stk[i].kind = "catch" /\ stk[i].visible =>
             i \in DOMAIN t /\ t[i].kind = "catch" /\ t[i].visible
  BY <1>4, <1>8 DEF AllClean
<1> QED BY <1>5, <1>6, <1>7, <1>9 DEF From, t

\* While the program runs its stack is settled.
LEMMA RunningFacts ==
  ASSUME Safe, Running
  PROVE  /\ Settled(stk) /\ dead = "" /\ stk \in Stack
         /\ Latest(Envs(stk), Len(stk), menv) /\ \A i \in DOMAIN stk : Fit(stk, i)
         /\ "fail" \notin program => sexit = None
<1>1. /\ stk \in Stack /\ Len(stk) \in Nat /\ DOMAIN stk = 1 .. Len(stk)
      /\ Latest(Envs(stk), Len(stk), menv) /\ \A i \in DOMAIN stk : Fit(stk, i)
      /\ \A i \in DOMAIN stk : stk[i] \in Frames
      /\ stk = <<>> <=> Len(stk) = 0
  BY StackFacts DEF Safe, Whole
<1>2. ASSUME NEW i \in DOMAIN stk, i = Len(stk)
      PROVE  stk[i].kind \notin {"foreign", "guard"} /\ (stk[i].role \in Own => stk[i].phase = "body")
  <2>1. stk # <<>> /\ Top = stk[i]
    BY <1>1, <1>2 DEF Top
  <2>2. stk[i].kind # "foreign" /\ (stk[i].role = "" \/ stk[i].phase = "body")
    BY <2>1 DEF Running
  <2>3. stk[i].kind # "guard"
    BY <1>2 DEF Safe, Capped
  <2> QED BY <2>2, <2>3
<1>3. Settled(stk)
  BY <1>2 DEF Settled
<1>4. ASSUME "fail" \notin program PROVE sexit = None
  <2>1. Kept
    BY <1>4 DEF Safe, Completed, Running
  <2>2. CASE stk = <<>>
    BY <2>1, <2>2 DEF Kept
  <2>3. CASE stk # <<>>
    <3> DEFINE n == Len(stk)
    <3>1. n \in DOMAIN stk /\ n = Len(stk)
      BY <1>1, <2>3
    <3> HIDE DEF n
    <3> QED BY <1>2, <2>1, <3>1 DEF Kept
  <2> QED BY <2>2, <2>3
<1> QED BY <1>1, <1>3, <1>4 DEF Running

-----------------------------------------------------------------------------
(* The steps of the program that leave frames.                             *)

\* The topmost frame
LEMMA TopFacts ==
  ASSUME Safe, stk # <<>>
  PROVE  \E n \in Nat \ {0} :
           /\ n = Len(stk) /\ n \in DOMAIN stk /\ stk[n] \in Frames /\ Top = stk[n]
           /\ Below = SubSeq(stk, 1, n - 1) /\ Outer = SubSeq(stk, 1, n - 2)
<1> DEFINE n == Len(stk)
<1>1. n \in Nat \ {0} /\ n \in DOMAIN stk /\ stk[n] \in Frames
  BY StackFacts DEF Safe, Whole
<1>2. Top = stk[n] /\ Below = SubSeq(stk, 1, n - 1) /\ Outer = SubSeq(stk, 1, n - 2)
  BY DEF Top, Below, Outer
<1> QED BY <1>1, <1>2

\* The frames below one that has made no environment
LEMMA BelowFacts ==
  ASSUME Safe, NEW n \in Nat \ {0}, n = Len(stk), stk[n].kind \notin {"menv", "guard"},
         ~Binding(stk[n]), stk[n].role # "callback"
  PROVE  /\ Whole(SubSeq(stk, 1, n - 1), menv, dyn) /\ Settled(SubSeq(stk, 1, n - 1))
         /\ SubSeq(stk, 1, n - 1) \in Stack
         /\ Latest(Envs(SubSeq(stk, 1, n - 1)), Len(SubSeq(stk, 1, n - 1)), menv)
         /\ \A i \in DOMAIN SubSeq(stk, 1, n - 1) : Fit(SubSeq(stk, 1, n - 1), i)
         /\ Len(SubSeq(stk, 1, n - 1)) = n - 1
         /\ \A j \in 1 .. n - 1 : SubSeq(stk, 1, n - 1)[j] = stk[j]
<1>1. /\ Whole(SubSeq(stk, 1, n - 1), IF stk[n].kind = "menv" THEN stk[n].env ELSE menv,
               stk[n].dyn)
      /\ ~Binding(stk[n]) => stk[n].dyn = dyn
      /\ stk[n].role # "callback" /\ stk[n].kind # "guard" => Settled(SubSeq(stk, 1, n - 1))
      /\ Len(SubSeq(stk, 1, n - 1)) = n - 1
      /\ \A j \in 1 .. n - 1 : SubSeq(stk, 1, n - 1)[j] = stk[j]
  <2>1. Whole(stk, menv, dyn)
    BY DEF Safe
  <2> QED BY <2>1, PopWhole
<1>2. Whole(SubSeq(stk, 1, n - 1), menv, dyn)
  BY <1>1
<1> QED BY <1>1, <1>2 DEF Whole

\* Control goes on in the stack s.
LEMMA GoingOn ==
  ASSUME NEW s, Whole(s, menv, dyn), Settled(s), stk' = s, UNCHANGED <<menv, dyn, dead>>
  PROVE  /\ Sequel(s)
         /\ AllClean(s) => Arrives
<1>1. Whole(stk', menv', dyn')
  OBVIOUS
<1>2. \A j \in DOMAIN s : j = Len(s) => s[j].kind \notin {"foreign", "guard"}
  BY DEF Settled
<1>3. \A j \in DOMAIN s : ~(j > Len(s))
  BY InLength DEF Whole
<1>4. Sequel(s)
  BY <1>1, <1>2, <1>3 DEF Sequel
<1> QED BY <1>4 DEF Arrives

\* The block that a name stands for
LEMMA NamedFacts ==
  ASSUME Safe, NEW tag, Named(tag, {"block"}) # {}
  PROVE  /\ Max(Named(tag, {"block"})) \in DOMAIN stk
         /\ Max(Named(tag, {"block"})) \in Int
         /\ stk[Max(Named(tag, {"block"}))].kind = "block"
<1> DEFINE U == Named(tag, {"block"})
<1>1. Len(stk) \in Nat /\ DOMAIN stk = 1 .. Len(stk)
  BY StackFacts DEF Safe, Whole
<1>2. U \subseteq DOMAIN stk /\ \A i \in U : stk[i].kind = "block"
  BY DEF Named
<1>3. U # {}
  OBVIOUS
<1> HIDE DEF U
<1>4. U \subseteq Nat /\ \A x \in U : x <= Len(stk)
  BY <1>1, <1>2
<1>5. Max(U) \in U
  BY <1>1, <1>3, <1>4, MaxFacts
<1>6. Max(U) \in DOMAIN stk /\ stk[Max(U)].kind = "block" /\ Max(U) \in Int
  BY <1>2, <1>4, <1>5
<1> QED BY <1>6 DEF U

\* The process ends with what was on the stack.
LEMMA ReentryKeeps ==
  ASSUME Safe, reentry > 0, Die("reentry"),
         UNCHANGED <<reentry, hook, sexit, cont, absconded, program>>
  PROVE  Safe' /\ Passed
<1>1. dead' = "reentry" /\ UNCHANGED <<stk, menv, dyn>> /\ reentry # 0
  BY DEF Die
<1>2. Unhooked'
  BY <1>1 DEF Safe, Unhooked
<1>3. Completed'
  BY <1>1 DEF Safe, Completed
<1>4. Passed
  <2>1. \A i \in DOMAIN stk : ~(i > Len(stk))
    BY InLength DEF Safe, Whole
  <2>2. Len(stk') = Len(stk)
    BY <1>1
  <2> QED BY <2>1, <2>2 DEF Passed
<1> QED BY <1>1, <1>2, <1>3, <1>4 DEF Safe

\* An exception is thrown.
LEMMA ThrowKeeps ==
  ASSUME Safe, NEW sym \in Sym, Throw(sym)
  PROVE  Safe' /\ Passed
<1>1. /\ Running /\ UNCHANGED <<sexit, cont, absconded, program>>
      /\ \/ reentry > 0 /\ Die("reentry") /\ UNCHANGED <<reentry, hook>>
         \/ Search(stk, Len(stk), sym)
  BY DEF Throw, Raise
<1>2. /\ Settled(stk) /\ dead = "" /\ stk \in Stack
      /\ "fail" \notin program => sexit = None
  BY <1>1, RunningFacts
<1>3. CASE reentry > 0 /\ Die("reentry") /\ UNCHANGED <<reentry, hook>>
  BY <1>1, <1>2, <1>3, ReentryKeeps
<1>4. CASE Search(stk, Len(stk), sym)
  <2> DEFINE pos == Len(stk)
  <2>1. pos \in 0 .. Len(stk)
    <3>1. Len(stk) \in Nat
      BY <1>2, StackFacts
    <3> QED BY <3>1
  <2>2. Whole(stk, menv, dyn) /\ sym \in Syms
    BY DEF Safe, Syms
  <2>3. Search(stk, pos, sym)
    BY <1>4
  <2> HIDE DEF pos
  <2>4. /\ Sequel(stk)
        /\ AllClean(stk) => Arrives
        /\ hook \/ UNCHANGED <<reentry, hook>>
    BY <1>2, <2>1, <2>2, <2>3, SearchSound
  <2>5. "hook" \in program \/ UNCHANGED <<reentry, hook>>
    BY <2>4 DEF Safe, Unhooked
  <2>6. sexit' \in Int /\ ("fail" \notin program => sexit' = None)
    BY <1>1, <1>2 DEF Safe
  <2> QED BY <1>1, <1>2, <2>4, <2>5, <2>6, FromAll, SequelKeeps
<1> QED BY <1>1, <1>3, <1>4

\* Foreign code bars the way of an abscond, which throws.
LEMMA AbscondBarredKeeps ==
  ASSUME Safe, NEW tag \in Tag, AbscondBarred(tag)
  PROVE  Safe' /\ Passed
<1> DEFINE sym == "error"
<1>1. sym \in Sym /\ Throw(sym)
  BY DEF AbscondBarred, Throw, Sym
<1> HIDE DEF sym
<1> QED BY <1>1, ThrowKeeps

\* A block is returned from.
LEMMA ReturnKeeps ==
  ASSUME Safe, NEW tag \in Tag, Return(tag)
  PROVE  Safe' /\ Passed
<1> DEFINE b == Max(Named(tag, {"block"}))
<1>1. /\ Running /\ UNCHANGED <<reentry, sexit, hook, cont, absconded, program>>
      /\ Named(tag, {"block"}) # {} /\ Leave(stk, b)
  BY DEF Return
<1>2. /\ Settled(stk) /\ dead = "" /\ stk \in Stack
      /\ Latest(Envs(stk), Len(stk), menv) /\ \A i \in DOMAIN stk : Fit(stk, i)
      /\ "fail" \notin program => sexit = None
  BY <1>1, RunningFacts
<1>3. b \in DOMAIN stk /\ b \in Int /\ stk[b].kind = "block"
  BY <1>1, NamedFacts
<1> HIDE DEF b
<1>4. Target(stk, b)
  <2>1. Len(stk) \in Nat /\ DOMAIN stk = 1 .. Len(stk)
    BY <1>2, StackFacts
  <2> QED BY <1>3, <2>1 DEF Target, Exits
<1>5. Sequel(stk) /\ (AllClean(stk) => Arrives)
  BY <1>1, <1>2, <1>3, <1>4, LeaveSequel
<1>6. sexit' \in Int /\ ("fail" \notin program => sexit' = None)
  BY <1>1, <1>2 DEF Safe
<1> QED BY <1>1, <1>2, <1>5, <1>6, FromAll, SequelKeeps

\* The exit points below the topmost frame are all those of the frames below.
LEMMA TargetBelow ==
  ASSUME stk \in Stack, NEW n \in Nat \ {0}, n = Len(stk), NEW ep, ep # None,
         Clean(stk, n), ep = stk[n].cont, NEW t, t = SubSeq(stk, 1, n - 1)
  PROVE  Target(t, ep) /\ ep \in Int
<1>1. Len(stk) \in Nat /\ DOMAIN stk = 1 .. n /\ n - 1 \in 0 .. Len(stk) /\ n - 1 \in Nat
  BY StackFacts
<1>2. Len(t) = n - 1 /\ \A j \in 1 .. n - 1 : t[j] = stk[j]
  BY <1>1, PrefixFacts
<1>3. ep = Unhandled \/ ep \in Exits(stk, n)
  BY DEF Clean
<1>4. Len(t) + 1 - 1 = n - 1
  BY <1>1, <1>2
<1>5. ep \in Exits(stk, n) => ep \in Exits(t, Len(t) + 1)
  BY <1>1, <1>2, <1>4 DEF Exits
<1>6. ep \in Int
  BY <1>1, <1>3 DEF Exits, Unhandled
<1> QED BY <1>3, <1>5, <1>6 DEF Target

\* A catch frame's cleanup ends.
LEMMA EndCleanupKeeps ==
  ASSUME Safe, EndCleanup
  PROVE  Safe' /\ Passed
<1>1. /\ Running /\ stk # <<>> /\ Top.kind = "catch" /\ Top.phase = "cleanup"
      /\ Continue(Below, Top)
      /\ UNCHANGED <<reentry, sexit, hook, cont, absconded, program>>
  BY DEF EndCleanup
<1>2. dead = "" /\ stk \in Stack /\ ("fail" \notin program => sexit = None)
  BY <1>1, RunningFacts
<1>3. PICK n \in Nat \ {0} :
        /\ n = Len(stk) /\ n \in DOMAIN stk /\ stk[n] \in Frames /\ Top = stk[n]
        /\ Below = SubSeq(stk, 1, n - 1) /\ Outer = SubSeq(stk, 1, n - 2)
  BY <1>1, TopFacts
<1> DEFINE t == SubSeq(stk, 1, n - 1)
<1>4. stk[n].role \notin Own /\ stk[n].kind = "catch" /\ stk[n].phase = "cleanup"
  BY <1>1, <1>3 DEF Running, Frames
<1>5. ~Binding(stk[n])
  BY <1>4 DEF Binding
<1>6. /\ Whole(t, menv, dyn) /\ Settled(t) /\ t \in Stack
      /\ Latest(Envs(t), Len(t), menv) /\ \A i \in DOMAIN t : Fit(t, i)
  BY <1>3, <1>4, <1>5, BelowFacts
<1>7. AllClean(stk) => Clean(stk, n)
  BY <1>3 DEF AllClean
<1>8. From(t)
  <2>1. AllClean(stk) => ~stk[n].visible
    BY <1>4, <1>7 DEF Clean
  <2> QED BY <1>3, <1>4, <2>1, FromBelow
<1>9. Sequel(t) /\ (AllClean(stk) => Arrives)
  <2>1. AllClean(stk) => AllClean(t)
    BY <1>8 DEF From
  <2>2. CASE stk[n].cont = None
    <3>1. stk' = t /\ UNCHANGED <<menv, dyn, dead>>
      BY <1>1, <1>3, <2>2 DEF Continue
    <3> HIDE DEF t
    <3> QED BY <1>6, <2>1, <3>1, GoingOn
  <2>3. CASE stk[n].cont # None
    <3> DEFINE ep == stk[n].cont
    <3>1. Leave(t, ep) /\ ep \in Int
      BY <1>1, <1>3, <2>3 DEF Continue, Frames
    <3>2. AllClean(stk) => Target(t, ep)
      BY <1>2, <1>3, <1>7, <2>3, TargetBelow
    <3> HIDE DEF t, ep
    <3> QED BY <1>6, <2>1, <3>1, <3>2, LeaveSequel
  <2> QED BY <2>2, <2>3
<1>10. sexit' \in Int /\ ("fail" \notin program => sexit' = None)
  BY <1>1, <1>2 DEF Safe
<1> HIDE DEF t
<1> QED BY <1>1, <1>2, <1>8, <1>9, <1>10, SequelKeeps

\* The function in *unhandled-hook* returns.
LEMMA HookEndKeeps ==
  ASSUME Safe, HookEnd
  PROVE  Safe' /\ Passed
<1>1. /\ Running /\ stk # <<>> /\ Top.kind = "hook" /\ Leave(Below, Unhandled)
      /\ UNCHANGED <<sexit, hook, cont, absconded, program>>
  BY DEF HookEnd
<1>2. dead = "" /\ stk \in Stack /\ ("fail" \notin program => sexit = None)
  BY <1>1, RunningFacts
<1>3. PICK n \in Nat \ {0} :
        /\ n = Len(stk) /\ n \in DOMAIN stk /\ stk[n] \in Frames /\ Top = stk[n]
        /\ Below = SubSeq(stk, 1, n - 1) /\ Outer = SubSeq(stk, 1, n - 2)
  BY <1>1, TopFacts
<1> DEFINE t == SubSeq(stk, 1, n - 1)
<1>4. stk[n].role \notin Own /\ stk[n].kind = "hook"
  BY <1>1, <1>3 DEF Safe, Whole, Fit, Shape
<1>5. ~Binding(stk[n])
  BY <1>4 DEF Binding
<1>6. /\ Whole(t, menv, dyn) /\ Settled(t) /\ t \in Stack
      /\ Latest(Envs(t), Len(t), menv) /\ \A i \in DOMAIN t : Fit(t, i)
  BY <1>3, <1>4, <1>5, BelowFacts
<1>7. From(t)
  BY <1>3, <1>4, FromBelow
<1>8. Sequel(t) /\ (AllClean(stk) => Arrives)
  <2>1. AllClean(stk) => AllClean(t)
    BY <1>7 DEF From
  <2>2. Target(t, Unhandled) /\ Unhandled \in Int
    BY DEF Target, Unhandled
  <2>3. Leave(t, Unhandled)
    BY <1>1, <1>3
  <2> HIDE DEF t
  <2> QED BY <1>6, <2>1, <2>2, <2>3, LeaveSequel
<1>9. sexit' \in Int /\ ("fail" \notin program => sexit' = None)
  BY <1>1, <1>2 DEF Safe
<1>10. "hook" \in program
  BY <1>3, <1>4 DEF Safe, Unhooked
<1> HIDE DEF t
<1> QED BY <1>1, <1>2, <1>7, <1>8, <1>9, <1>10, SequelKeeps

\* The frames below that of foreign code
LEMMA ForeignFacts ==
  ASSUME Safe, Foreign
  PROVE  \E n \in Nat \ {0} :
           /\ n = Len(stk) /\ n \in DOMAIN stk /\ stk[n] \in Frames
           /\ stk[n].kind = "foreign" /\ stk[n].role \notin Own
           /\ Below = SubSeq(stk, 1, n - 1)
           /\ Whole(SubSeq(stk, 1, n - 1), menv, dyn) /\ Settled(SubSeq(stk, 1, n - 1))
           /\ From(SubSeq(stk, 1, n - 1))
<1>1. PICK n \in Nat \ {0} :
        /\ n = Len(stk) /\ n \in DOMAIN stk /\ stk[n] \in Frames /\ Top = stk[n]
        /\ Below = SubSeq(stk, 1, n - 1) /\ Outer = SubSeq(stk, 1, n - 2)
  BY TopFacts DEF Foreign
<1>2. stk[n].role \notin Own /\ stk[n].kind = "foreign"
  BY <1>1 DEF Safe, Whole, Fit, Shape, Foreign
<1>3. ~Binding(stk[n])
  BY <1>2 DEF Binding
<1>4. Whole(SubSeq(stk, 1, n - 1), menv, dyn) /\ Settled(SubSeq(stk, 1, n - 1))
  BY <1>1, <1>2, <1>3, BelowFacts
<1>5. From(SubSeq(stk, 1, n - 1))
  BY <1>1, <1>2, FromBelow
<1> QED BY <1>1, <1>2, <1>4, <1>5

\* Foreign code returns.
LEMMA ForeignReturnKeeps ==
  ASSUME Safe, ForeignReturn
  PROVE  Safe' /\ Passed
<1>1. /\ Foreign /\ sexit' = None
      /\ UNCHANGED <<reentry, hook, cont, absconded, program>>
      /\ IF sexit = None THEN stk' = Below /\ UNCHANGED <<menv, dyn, dead>>
         ELSE Leave(Below, sexit)
  BY DEF ForeignReturn
<1>2. PICK n \in Nat \ {0} :
        /\ n = Len(stk) /\ n \in DOMAIN stk /\ stk[n] \in Frames
        /\ stk[n].kind = "foreign" /\ stk[n].role \notin Own
        /\ Below = SubSeq(stk, 1, n - 1)
        /\ Whole(SubSeq(stk, 1, n - 1), menv, dyn) /\ Settled(SubSeq(stk, 1, n - 1))
        /\ From(SubSeq(stk, 1, n - 1))
  BY <1>1, ForeignFacts
<1> DEFINE t == SubSeq(stk, 1, n - 1)
<1>3. dead = "" /\ stk \in Stack /\ sexit \in Int
  BY <1>1 DEF Foreign, Safe, Whole
<1>4. sexit' \in Int /\ sexit' = None
  BY <1>1 DEF None
<1>5. /\ Whole(t, menv, dyn) /\ Settled(t) /\ t \in Stack /\ From(t)
      /\ Latest(Envs(t), Len(t), menv) /\ \A i \in DOMAIN t : Fit(t, i)
  BY <1>2 DEF Whole
<1>6. CASE "fail" \notin program
  <2>1. sexit # None => sexit = stk[n].cont
    BY <1>2, <1>3, <1>6 DEF Safe, Completed, Kept
  <2>2. AllClean(stk) => Clean(stk, n)
    BY <1>2 DEF AllClean
  <2>3. AllClean(stk) => AllClean(t)
    BY <1>5 DEF From
  <2>4. AllClean(stk)
    BY <1>6 DEF Safe, Completed
  <2>5. CASE sexit = None
    <3>1. stk' = t /\ UNCHANGED <<menv, dyn, dead>>
      BY <1>1, <1>2, <2>5
    <3> HIDE DEF t
    <3>2. Sequel(t) /\ (AllClean(stk) => Arrives)
      BY <1>5, <2>3, <3>1, GoingOn
    <3> QED BY <1>1, <1>3, <1>5, <1>4, <3>2, SequelKeeps
  <2>6. CASE sexit # None
    <3>1. Leave(t, sexit)
      BY <1>1, <1>2, <2>6
    <3>2. Target(t, sexit)
      <4> DEFINE ep == stk[n].cont
      <4>1. ep # None /\ Clean(stk, n) /\ sexit = ep
        BY <2>1, <2>2, <2>4, <2>6
      <4> HIDE DEF t, ep
      <4>2. Target(t, ep)
        BY <1>2, <1>3, <4>1, TargetBelow DEF t, ep
      <4> QED BY <4>1, <4>2
    <3> HIDE DEF t
    <3>3. Sequel(t) /\ (AllClean(stk) => Arrives)
      BY <1>3, <1>5, <2>3, <3>1, <3>2, LeaveSequel
    <3> QED BY <1>1, <1>3, <1>5, <1>4, <3>3, SequelKeeps
  <2> QED BY <2>5, <2>6
<1>7. CASE "fail" \in program
  <2>1. Sequel(t)
    <3>1. CASE sexit = None
      <4>1. stk' = t /\ UNCHANGED <<menv, dyn, dead>>
        BY <1>1, <1>2, <3>1
      <4> HIDE DEF t
      <4> QED BY <1>5, <4>1, GoingOn
    <3>2. CASE sexit # None
      <4>1. Leave(t, sexit)
        BY <1>1, <1>2, <3>2
      <4> HIDE DEF t
      <4> QED BY <1>3, <1>5, <4>1, LeaveSequel
    <3> QED BY <3>1, <3>2
  <2> HIDE DEF t
  <2> QED BY <1>1, <1>3, <1>5, <1>7, <1>4, <2>1, SequelKeeps
<1> QED BY <1>6, <1>7

\* A foreign call fails.
LEMMA ForeignFailsKeeps ==
  ASSUME Safe, ForeignFails
  PROVE  Safe' /\ Passed
<1>0. /\ Foreign /\ "fail" \in program /\ UNCHANGED <<sexit, cont, absconded, program>>
      /\ \/ reentry > 0 /\ Die("reentry") /\ UNCHANGED <<reentry, hook>>
         \/ Search(Below, Len(Below), "error")
  BY DEF ForeignFails, Raise
<1>9. CASE reentry > 0 /\ Die("reentry") /\ UNCHANGED <<reentry, hook>>
  BY <1>0, <1>9, ReentryKeeps DEF Foreign
<1> SUFFICES ASSUME Search(Below, Len(Below), "error")
             PROVE  Safe' /\ Passed
  BY <1>0, <1>9
<1>1. /\ Foreign /\ "fail" \in program /\ Search(Below, Len(Below), "error")
      /\ UNCHANGED <<sexit, cont, absconded, program>>
  BY <1>0
<1>2. PICK n \in Nat \ {0} :
        /\ n = Len(stk) /\ n \in DOMAIN stk /\ stk[n] \in Frames
        /\ stk[n].kind = "foreign" /\ stk[n].role \notin Own
        /\ Below = SubSeq(stk, 1, n - 1)
        /\ Whole(SubSeq(stk, 1, n - 1), menv, dyn) /\ Settled(SubSeq(stk, 1, n - 1))
        /\ From(SubSeq(stk, 1, n - 1))
  BY <1>1, ForeignFacts
<1> DEFINE t == SubSeq(stk, 1, n - 1)
           pos == Len(t)
<1>3. dead = "" /\ sexit' \in Int
  BY <1>1 DEF Foreign, Safe
<1>4. Whole(t, menv, dyn) /\ Settled(t) /\ From(t) /\ Search(t, pos, "error")
  BY <1>1, <1>2
<1> HIDE DEF t
<1>5. pos \in 0 .. Len(t)
  BY <1>4, StackFacts DEF Whole
<1> HIDE DEF pos
<1>6. "error" \in Syms
  BY DEF Syms, Sym
<1>7. Sequel(t) /\ (hook \/ UNCHANGED <<reentry, hook>>)
  BY <1>4, <1>5, <1>6, SearchSound
<1>8. "hook" \in program \/ UNCHANGED <<reentry, hook>>
  BY <1>7 DEF Safe, Unhooked
<1> QED BY <1>1, <1>3, <1>4, <1>7, <1>8, SequelKeeps

\* A handler frame is enabled again.
EnabledAgain(w, s, k) ==
  /\ w \in Stack /\ Len(w) = Len(s)
  /\ \A i \in DOMAIN s : i # k => w[i] = s[i]
  /\ w[k].visible
  /\ \A i \in DOMAIN s :
       /\ w[i].kind = s[i].kind /\ w[i].role = s[i].role
       /\ w[i].at = s[i].at /\ w[i].cont = s[i].cont
       /\ w[i].starts = s[i].starts
       /\ w[i].phase = s[i].phase
  /\ \A i \in DOMAIN s : Fit(w, i)
  /\ Envs(w) = Envs(s) /\ Binds(w) = Binds(s)

LEMMA OnFacts ==
  ASSUME NEW s \in Stack, \A i \in DOMAIN s : Fit(s, i), NEW k \in DOMAIN s,
         s[k].kind = "handle",
         \A j \in DOMAIN s : s[j].role = "handler" => s[j].at # k
  PROVE  EnabledAgain(Reenabled(s, k), s, k)
<1> DEFINE b == TRUE
           t == Reenabled(s, k)
<1>1. b \in BOOLEAN /\ t = Seen(s, k, b) /\ b = TRUE
  BY DEF Reenabled, Seen
<1> HIDE DEF b, t
<1>2. /\ Seen(s, k, b) \in Stack /\ Len(Seen(s, k, b)) = Len(s)
      /\ \A i \in DOMAIN s : i # k => Seen(s, k, b)[i] = s[i]
      /\ Seen(s, k, b)[k].visible = b
      /\ \A i \in DOMAIN s :
           /\ Seen(s, k, b)[i].kind = s[i].kind /\ Seen(s, k, b)[i].role = s[i].role
           /\ Seen(s, k, b)[i].at = s[i].at /\ Seen(s, k, b)[i].cont = s[i].cont
           /\ Seen(s, k, b)[i].starts = s[i].starts
           /\ Seen(s, k, b)[i].phase = s[i].phase
      /\ \A i \in DOMAIN s : Fit(Seen(s, k, b), i)
      /\ Envs(Seen(s, k, b)) = Envs(s) /\ Binds(Seen(s, k, b)) = Binds(s)
  <2>1. b => \A j \in DOMAIN s : s[j].role = "handler" => s[j].at # k
    OBVIOUS
  <2>2. b \in BOOLEAN
    BY <1>1
  <2> QED BY <2>1, <2>2, VisibleFacts
<1> QED BY <1>1, <1>2 DEF t, EnabledAgain

\* The frames of a handler are gone from the stack, or the topmost is, and the handler's
\* frame is enabled.
Reopened(w, n, m, a) ==
  /\ n > 1 /\ stk[n - 1].kind = "throw" /\ stk[n - 1].at = a
  /\ a \in 1 .. n - 2 /\ a \in 1 .. m
  /\ Whole(w, menv, dyn) /\ Settled(w) /\ From(w) /\ Len(w) = m
  /\ \A j \in 1 .. m : j # a => w[j] = stk[j]
  /\ \A j \in 1 .. m : w[j].kind = stk[j].kind

LEMMA ReenabledSound ==
  ASSUME Safe, NEW n \in Nat \ {0}, n = Len(stk), stk[n].role = "handler",
         stk[n].phase = "cleanup", NEW m \in Int, m = n - 1 \/ m = n - 2
  PROVE  Reopened(Reenabled(SubSeq(stk, 1, m), stk[n].at), n, m, stk[n].at)
<1> DEFINE a == stk[n].at
           s == SubSeq(stk, 1, m)
           w == Reenabled(s, a)
<1>0. a = stk[n].at /\ s = SubSeq(stk, 1, m) /\ w = Reenabled(s, a)
  OBVIOUS
<1> HIDE DEF a, s
<1>1. /\ stk \in Stack /\ DOMAIN stk = 1 .. n /\ n \in DOMAIN stk
      /\ \A i \in DOMAIN stk : Fit(stk, i)
      /\ Latest(Envs(stk), n, menv) /\ Latest(Binds(stk), n, dyn)
      /\ Envs(stk) \subseteq Nat /\ Binds(stk) \subseteq Nat
  BY StackFacts DEF Safe, Whole
<1>2. /\ n > 1 /\ stk[n].kind = "catch" /\ stk[n - 1].kind = "throw" /\ stk[n - 1].at = a
      /\ a \in 1 .. n - 2 /\ stk[a].kind = "handle" /\ ~stk[a].visible
      /\ \A j \in 1 .. n - 1 : stk[j].role = "handler" => stk[j].at # a
  <2>1. Shape(stk, n) /\ Handler(stk, n)
    BY <1>1 DEF Fit
  <2>2. n > 1 /\ stk[n].kind = "catch" /\ stk[n - 1].kind = "throw" /\ stk[n - 1].at = a
    BY <1>0, <2>1 DEF Shape
  <2>3. /\ a \in 1 .. n - 2 /\ stk[a].kind = "handle" /\ ~stk[a].visible
        /\ \A j \in 1 .. n - 1 : stk[j].role = "handler" => stk[j].at # a
    BY <1>0, <2>1 DEF Handler
  <2> QED BY <2>2, <2>3
<1>3. /\ n - 1 \in DOMAIN stk /\ n - 2 \in DOMAIN stk /\ m \in 0 .. Len(stk) /\ m \in Nat
      /\ a \in 1 .. m /\ m \in 1 .. n - 1
  BY <1>1, <1>2
<1>4. stk[n - 1].role \notin Own
  <2> DEFINE k == n - 1
  <2>1. k \in DOMAIN stk /\ stk[k].kind = "throw"
    BY <1>2, <1>3
  <2> HIDE DEF k
  <2>2. Shape(stk, k)
    BY <1>1, <2>1 DEF Fit
  <2>3. stk[k].role \notin Own
    BY <2>1, <2>2 DEF Shape
  <2> QED BY <2>3 DEF k
<1>5. Latest(Envs(stk), m, menv) /\ Latest(Binds(stk), m, dyn)
  <2>1. n \notin Envs(stk) /\ n - 1 \notin Envs(stk)
    BY <1>2 DEF Envs
  <2>2. ~Binding(stk[n]) /\ ~Binding(stk[n - 1])
    BY <1>2, <1>4 DEF Binding
  <2>3. n \notin Binds(stk) /\ n - 1 \notin Binds(stk)
    BY <2>2 DEF Binds
  <2>4. Latest(Envs(stk), m, menv)
    BY <1>1, <1>3, <2>1 DEF Latest
  <2>5. Latest(Binds(stk), m, dyn)
    BY <1>1, <1>3, <2>3 DEF Latest
  <2> QED BY <2>4, <2>5
<1>6. Whole(s, menv, dyn)
  BY <1>0, <1>1, <1>3, <1>5, PrefixWhole
<1>7. /\ s \in Stack /\ Len(s) = m /\ \A j \in 1 .. m : s[j] = stk[j]
  BY <1>0, <1>1, <1>3, PrefixFacts
<1>8. DOMAIN s = 1 .. m
  BY <1>7, StackFacts
<1>9. a \in DOMAIN s /\ s[a].kind = "handle"
      /\ \A j \in DOMAIN s : s[j].role = "handler" => s[j].at # a
  <2>1. \A j \in DOMAIN s : j \in 1 .. n - 1 /\ s[j] = stk[j]
    BY <1>3, <1>7, <1>8
  <2> QED BY <1>2, <1>3, <1>8, <2>1
<1>10. /\ w \in Stack /\ Len(w) = Len(s)
       /\ \A i \in DOMAIN s : i # a => w[i] = s[i]
       /\ w[a].visible
       /\ \A i \in DOMAIN s :
            /\ w[i].kind = s[i].kind /\ w[i].role = s[i].role
            /\ w[i].at = s[i].at /\ w[i].cont = s[i].cont
            /\ w[i].starts = s[i].starts
            /\ w[i].phase = s[i].phase
       /\ \A i \in DOMAIN s : Fit(w, i)
       /\ Envs(w) = Envs(s) /\ Binds(w) = Binds(s)
  <2>1. \A i \in DOMAIN s : Fit(s, i)
    BY <1>6 DEF Whole
  <2>2. EnabledAgain(Reenabled(s, a), s, a)
    BY <1>7, <1>9, <2>1, OnFacts
  <2> QED BY <2>2 DEF EnabledAgain
<1> HIDE DEF w
<1>11. DOMAIN w = 1 .. m
  BY <1>7, <1>10, StackFacts
<1>12. Whole(w, menv, dyn)
  BY <1>6, <1>8, <1>10, <1>11 DEF Whole
<1>13. /\ \A j \in 1 .. m : j # a => w[j] = stk[j]
       /\ \A j \in 1 .. m :
            /\ w[j].kind = stk[j].kind /\ w[j].role = stk[j].role
            /\ w[j].at = stk[j].at /\ w[j].cont = stk[j].cont
            /\ w[j].starts = stk[j].starts /\ w[j].phase = stk[j].phase
  <2> SUFFICES ASSUME NEW j \in 1 .. m
               PROVE  /\ j # a => w[j] = stk[j]
                      /\ w[j].kind = stk[j].kind /\ w[j].role = stk[j].role
                      /\ w[j].at = stk[j].at /\ w[j].cont = stk[j].cont
                      /\ w[j].starts = stk[j].starts /\ w[j].phase = stk[j].phase
    OBVIOUS
  <2>1. j \in DOMAIN s /\ s[j] = stk[j]
    BY <1>7, <1>8
  <2> QED BY <1>10, <2>1
<1>14. Settled(w)
  <2>1. /\ stk[m].kind \notin {"foreign", "guard"}
        /\ stk[m].role \in Own => stk[m].phase = "body"
    <3>1. CASE m = n - 1
      BY <1>2, <1>4, <3>1
    <3>2. CASE m = n - 2
      <4> DEFINE k == n - 1
      <4>1. k \in DOMAIN stk /\ stk[k].kind = "throw" /\ stk[k].role \notin Own
            /\ k > 1 /\ k - 1 = m
        BY <1>2, <1>3, <1>4, <3>2
      <4> HIDE DEF k
      <4>2. Shape(stk, k)
        BY <1>1, <4>1 DEF Fit
      <4>3. /\ stk[k].role = "callback" <=> k > 1 /\ stk[k - 1].kind = "guard"
            /\ stk[k].kind = "guard" <=> k > 1 /\ stk[k - 1].kind = "foreign"
            /\ k > 1 /\ stk[k - 1].role \in Own => stk[k - 1].phase = "body"
        BY <4>2 DEF Shape
      <4> QED BY <4>1, <4>3
    <3> QED BY <3>1, <3>2
  <2>2. m \in 1 .. m
    BY <1>3
  <2> QED BY <1>7, <1>10, <1>13, <2>1, <2>2 DEF Settled
<1>15. From(w)
  <2>1. ASSUME Disabled(stk) PROVE Disabled(w)
    <3> SUFFICES ASSUME NEW h \in DOMAIN w, w[h].kind = "handle", ~w[h].visible
                 PROVE  \E j \in DOMAIN w : w[j].role = "handler" /\ w[j].at = h
      BY DEF Disabled
    <3>1. h # a /\ h \in DOMAIN stk /\ w[h] = stk[h]
      BY <1>1, <1>3, <1>10, <1>11, <1>13
    <3>2. PICK j \in DOMAIN stk : stk[j].role = "handler" /\ stk[j].at = h
      BY <2>1, <3>1 DEF Disabled
    <3>3. j # n /\ j # n - 1
      BY <1>0, <1>4, <3>1, <3>2
    <3>4. j \in 1 .. m
      BY <1>1, <1>3, <3>3
    <3> QED BY <1>11, <1>13, <3>2, <3>4
  <2>2. ASSUME \A i \in DOMAIN stk : Owing(stk, i), NEW i \in DOMAIN w PROVE Owing(w, i)
    <3> SUFFICES ASSUME w[i].kind = "guard" PROVE w[i - 1].cont = None
      BY DEF Owing
    <3>1. i \in DOMAIN stk /\ stk[i].kind = "guard" /\ i \in 1 .. m
      BY <1>1, <1>3, <1>11, <1>13
    <3>2. i > 1
      BY <1>1, <3>1 DEF Fit, Shape
    <3>3. i - 1 \in 1 .. m
      BY <1>3, <3>1, <3>2
    <3> QED BY <1>13, <2>2, <3>1, <3>3 DEF Owing
  <2>3. \A i \in DOMAIN w : i \in DOMAIN stk /\ w[i].kind = stk[i].kind
    BY <1>1, <1>3, <1>11, <1>13
  <2>4. ASSUME AllClean(stk), NEW i \in DOMAIN w PROVE Clean(w, i)
    <3>1. i \in 1 .. m /\ i \in DOMAIN stk /\ Clean(stk, i)
      BY <1>11, <2>3, <2>4 DEF AllClean
    <3>2. \A x \in Exits(stk, i) : x \in Exits(w, i)
      <4> SUFFICES ASSUME NEW x \in Exits(stk, i) PROVE x \in Exits(w, i)
        OBVIOUS
      <4>1. /\ x \in 1 .. i - 1 /\ x \in 1 .. m
            /\ stk[x].kind = "block" \/ (stk[x].kind = "catch" /\ stk[x].visible)
        BY <1>3, <3>1 DEF Exits
      <4>2. x # a
        BY <1>2, <4>1
      <4> QED BY <1>13, <4>1, <4>2 DEF Exits
    <3>3. CASE i # a
      <4>1. w[i] = stk[i]
        BY <1>13, <3>1, <3>3
      <4> QED BY <3>1, <3>2, <4>1 DEF Clean
    <3>4. CASE i = a
      <4>1. w[i].kind = "handle" /\ w[i].starts = stk[i].starts /\ w[i].cont = stk[i].cont
        BY <1>2, <1>13, <3>1, <3>4
      <4> QED BY <1>2, <3>1, <3>2, <3>4, <4>1 DEF Clean
    <3> QED BY <3>3, <3>4
  <2>5. ASSUME AllClean(stk), NEW i \in DOMAIN stk, stk[i].kind = "catch", stk[i].visible
        PROVE  i \in DOMAIN w /\ w[i].kind = "catch" /\ w[i].visible
    <3>1. i # n
      <4>1. Clean(stk, n)
        BY <1>1, <2>5 DEF AllClean
      <4>2. ~stk[n].visible
        BY <1>2, <4>1 DEF Clean
      <4> QED BY <2>5, <4>2
    <3>2. i # n - 1 /\ i # a
      BY <1>2, <2>5
    <3>3. i \in 1 .. m
      BY <1>1, <1>3, <3>1, <3>2
    <3> QED BY <1>11, <1>13, <2>5, <3>2, <3>3
  <2> QED BY <2>1, <2>2, <2>3, <2>4, <2>5 DEF From, AllClean
<1> QED BY <1>2, <1>3, <1>7, <1>10, <1>12, <1>13, <1>14, <1>15 DEF w, s, a, Reopened

\* The stack that a transfer goes on from at the end of a handler
LEMMA ReenabledAppend ==
  ASSUME stk \in Stack, NEW n \in Nat, n = Len(stk), NEW a, a \in 1 .. n - 2
  PROVE  Append(Reenabled(SubSeq(stk, 1, n - 2), a), stk[n - 1])
           = Reenabled(SubSeq(stk, 1, n - 1), a)
<1> DEFINE s == SubSeq(stk, 1, n - 1)
           t == SubSeq(stk, 1, n - 2)
           f == [stk[a] EXCEPT !.visible = TRUE]
           k == n - 1
           m == n - 2
<1>1. /\ DOMAIN stk = 1 .. n /\ k \in 0 .. Len(stk) /\ m \in 0 .. Len(stk) /\ k = m + 1
      /\ a \in 1 .. k /\ a \in 1 .. m /\ k \in DOMAIN stk
  BY StackFacts
<1>2. stk[a] \in Frames /\ stk[k] \in Frames
  BY <1>1, StackFacts
<1>3. f \in Frames
  BY <1>2 DEF Frames
<1> HIDE DEF f
<1>4. s \in Stack /\ Len(s) = k /\ (\A j \in 1 .. k : s[j] = stk[j])
      /\ t \in Stack /\ Len(t) = m /\ (\A j \in 1 .. m : t[j] = stk[j])
  <2> HIDE DEF k, m
  <2>1. /\ SubSeq(stk, 1, k) \in Stack /\ Len(SubSeq(stk, 1, k)) = k
        /\ \A j \in 1 .. k : SubSeq(stk, 1, k)[j] = stk[j]
    BY <1>1, PrefixFacts
  <2>2. /\ SubSeq(stk, 1, m) \in Stack /\ Len(SubSeq(stk, 1, m)) = m
        /\ \A j \in 1 .. m : SubSeq(stk, 1, m)[j] = stk[j]
    BY <1>1, PrefixFacts
  <2> QED BY <2>1, <2>2 DEF k, m
<1>5. Reenabled(s, a) = [s EXCEPT ![a] = f] /\ Reenabled(t, a) = [t EXCEPT ![a] = f]
  <2>1. s[a] = stk[a] /\ t[a] = stk[a]
    BY <1>1, <1>4
  <2> HIDE DEF s, t
  <2> QED BY <2>1 DEF Reenabled, f
<1> HIDE DEF s, t, k, m
<1>6. /\ Reenabled(s, a) \in Seq(Frames) /\ Len(Reenabled(s, a)) = k
      /\ \A j \in 1 .. k : Reenabled(s, a)[j] = IF j = a THEN f ELSE stk[j]
  BY <1>1, <1>3, <1>4, <1>5 DEF Stack
<1>7. /\ Reenabled(t, a) \in Seq(Frames) /\ Len(Reenabled(t, a)) = m
      /\ \A j \in 1 .. m : Reenabled(t, a)[j] = IF j = a THEN f ELSE stk[j]
  BY <1>1, <1>3, <1>4, <1>5 DEF Stack
<1>8. Append(Reenabled(t, a), stk[k]) = Reenabled(s, a)
  <2> DEFINE u == Append(Reenabled(t, a), stk[k])
             w == Reenabled(s, a)
  <2>1. /\ u \in Seq(Frames) /\ Len(u) = m + 1 /\ u[m + 1] = stk[k]
        /\ \A j \in 1 .. m : u[j] = Reenabled(t, a)[j]
    BY <1>2, <1>7
  <2>2. a # k /\ m \in Nat /\ k \in Nat
    BY <1>1 DEF k, m
  <2>3. Len(u) = Len(w) /\ \A j \in 1 .. Len(u) : u[j] = w[j]
    <3> HIDE DEF u, w
    <3>1. \A j \in 1 .. m : u[j] = w[j]
      BY <1>1, <1>6, <1>7, <2>1, <2>2 DEF w
    <3>2. u[k] = w[k]
      BY <1>1, <1>6, <2>1, <2>2 DEF w
    <3>3. Len(u) = k /\ Len(w) = k /\ \A j \in 1 .. k : j = k \/ j \in 1 .. m
      BY <1>1, <1>6, <2>1, <2>2 DEF w
    <3> QED BY <3>1, <3>2, <3>3
  <2>4. u \in Seq(Frames) /\ w \in Seq(Frames)
    BY <1>6, <2>1
  <2> HIDE DEF u, w
  <2>5. u = w
    BY <2>3, <2>4, SeqEqual
  <2> QED BY <2>5 DEF u, w
<1> QED BY <1>8 DEF s, t, k, m

\* A handler's function is done.
LEMMA HandlerEndKeeps ==
  ASSUME Safe, HandlerEnd
  PROVE  Safe' /\ Passed
<1>1. /\ stk # <<>> /\ Top.role = "handler" /\ Top.phase = "cleanup"
      /\ UNCHANGED <<sexit, cont, absconded, program>>
  BY DEF HandlerEnd
<1>2. PICK n \in Nat \ {0} :
        /\ n = Len(stk) /\ n \in DOMAIN stk /\ stk[n] \in Frames /\ Top = stk[n]
        /\ Below = SubSeq(stk, 1, n - 1) /\ Outer = SubSeq(stk, 1, n - 2)
  BY <1>1, TopFacts
<1> DEFINE a == stk[n].at
           k == n - 1
           m == n - 2
           s == Reenabled(SubSeq(stk, 1, k), a)
           t == Reenabled(SubSeq(stk, 1, m), a)
<1>3. \/ stk[n].cont # None /\ Leave(Append(t, stk[k]), stk[n].cont)
         /\ UNCHANGED <<reentry, hook>>
      \/ stk[n].cont = None /\ Search(t, stk[k].at - 1, stk[k].sym)
  BY <1>1, <1>2 DEF HandlerEnd
<1>4. stk[n].role = "handler" /\ stk[n].phase = "cleanup" /\ k \in Int /\ m \in Int
  BY <1>1, <1>2
<1>5. dead = "" /\ stk \in Stack /\ ("fail" \notin program => sexit = None)
  <2>1. "fail" \notin program => Kept /\ dead = ""
    BY DEF Safe, Completed, HandlerEnd
  <2>2. stk[n].kind # "foreign"
    <3>1. Shape(stk, n)
      BY <1>2 DEF Safe, Whole, Fit
    <3> QED BY <1>4, <3>1 DEF Shape
  <2>3. "fail" \notin program => sexit = None
    BY <1>2, <2>1, <2>2 DEF Kept
  <2> QED BY <2>3 DEF HandlerEnd, Safe, Whole
<1>6. /\ n > 1 /\ stk[k].kind = "throw" /\ stk[k].at = a /\ a \in 1 .. n - 2
      /\ Whole(s, menv, dyn) /\ Settled(s) /\ From(s) /\ Len(s) = k
      /\ \A j \in 1 .. k : j # a => s[j] = stk[j]
      /\ \A j \in 1 .. k : s[j].kind = stk[j].kind
  <2> HIDE DEF k
  <2>1. k = n - 1 \/ k = n - 2
    BY DEF k
  <2>2. Reopened(s, n, k, a)
    BY <1>2, <1>4, <2>1, ReenabledSound
  <2> QED BY <2>2 DEF Reopened, k
<1>7. /\ Whole(t, menv, dyn) /\ Settled(t) /\ From(t) /\ Len(t) = m /\ a \in 1 .. m
  <2> HIDE DEF m
  <2>1. m = n - 1 \/ m = n - 2
    BY DEF m
  <2>2. Reopened(t, n, m, a)
    BY <1>2, <1>4, <2>1, ReenabledSound
  <2> QED BY <2>2 DEF Reopened
<1>8. Append(t, stk[k]) = s
  BY <1>2, <1>5, <1>6, ReenabledAppend
<1>9. sexit' \in Int /\ ("fail" \notin program => sexit' = None)
  BY <1>1, <1>5 DEF Safe
<1>10. stk[n].cont \in Int /\ stk[k].sym \in Syms
  <2>1. stk \in Stack
    BY DEF Safe, Whole
  <2>2. stk[k] \in Frames
    <3>1. k \in DOMAIN stk
      BY <1>2, <1>6, <2>1, StackFacts
    <3> QED BY <2>1, <3>1, StackFacts
  <2> QED BY <1>2, <2>2 DEF Frames
<1>11. CASE stk[n].cont # None /\ Leave(Append(t, stk[k]), stk[n].cont)
            /\ UNCHANGED <<reentry, hook>>
  <2> DEFINE ep == stk[n].cont
  <2>1. Leave(s, ep) /\ ep \in Int /\ ep # None
    BY <1>8, <1>10, <1>11
  <2>2. AllClean(stk) => Target(s, ep)
    <3> SUFFICES ASSUME AllClean(stk), ep # Unhandled PROVE ep \in Exits(s, Len(s) + 1)
      BY DEF Target
    <3>1. ep \in Exits(stk, n)
      BY <1>2, <2>1 DEF AllClean, Clean
    <3>2. /\ ep \in 1 .. k
          /\ stk[ep].kind = "block" \/ (stk[ep].kind = "catch" /\ stk[ep].visible)
      BY <3>1 DEF Exits
    <3>3. stk[a].kind = "handle"
      BY <1>2, <1>4 DEF Safe, Whole, Fit, Handler
    <3>4. ep # a
      BY <3>2, <3>3
    <3>5. s[ep] = stk[ep]
      BY <1>6, <3>2, <3>4
    <3>6. Len(s) + 1 - 1 = k
      BY <1>4, <1>6
    <3> HIDE DEF s, k, ep
    <3> QED BY <3>2, <3>5, <3>6 DEF Exits
  <2> HIDE DEF s, ep
  <2>3. /\ s \in Stack /\ Latest(Envs(s), Len(s), menv) /\ \A i \in DOMAIN s : Fit(s, i)
    BY <1>6 DEF Whole
  <2>4. Sequel(s) /\ (AllClean(s) /\ Target(s, ep) => Arrives)
    BY <1>6, <2>1, <2>3, LeaveSequel
  <2>5. AllClean(stk) => Arrives
    BY <1>6, <2>2, <2>4 DEF From
  <2> QED BY <1>1, <1>5, <1>6, <1>9, <1>11, <2>4, <2>5, SequelKeeps
<1>12. CASE stk[n].cont = None /\ Search(t, stk[k].at - 1, stk[k].sym)
  <2> DEFINE pos == a - 1
             sym == stk[k].sym
  <2>1. Search(t, pos, sym) /\ sym \in Syms /\ pos \in 0 .. Len(t)
    BY <1>2, <1>6, <1>7, <1>10, <1>12
  <2> HIDE DEF t, pos, sym
  <2>2. /\ Sequel(t)
        /\ AllClean(t) => Arrives
        /\ hook \/ UNCHANGED <<reentry, hook>>
    BY <1>7, <2>1, SearchSound
  <2>3. "hook" \in program \/ UNCHANGED <<reentry, hook>>
    BY <2>2 DEF Safe, Unhooked
  <2>4. AllClean(stk) => Arrives
    BY <1>7, <2>2 DEF From
  <2> QED BY <1>1, <1>5, <1>7, <1>9, <2>2, <2>3, <2>4, SequelKeeps
<1> QED BY <1>3, <1>11, <1>12

-----------------------------------------------------------------------------
(* The steps that push frames.                                             *)

\* What holds of the frames and of one more on top of them
LEMMA AppendKeeps ==
  ASSUME NEW s \in Stack, NEW f \in Frames, NEW k \in Nat, k = Len(s) + 1, NEW v,
         v \in Stack, Len(v) = k, v[k] = f, \A j \in 1 .. k - 1 : v[j] = s[j],
         \A i \in DOMAIN s : Fit(s, i)
  PROVE  /\ DOMAIN v = 1 .. k
         /\ \A i \in DOMAIN v : i = k \/ (i \in DOMAIN s /\ v[i] = s[i])
         /\ Disabled(s) /\ f.kind # "handle" => Disabled(v)
         /\ Disabled(s) /\ f.visible => Disabled(v)
         /\ (\A i \in DOMAIN s : Owing(s, i)) /\ f.kind # "guard" =>
              \A i \in DOMAIN v : Owing(v, i)
         /\ AllClean(s) /\ Clean(v, k) => AllClean(v)
         /\ \A i \in DOMAIN s : ~(i > Len(v))
<1>1. /\ DOMAIN v = 1 .. k /\ k - 1 \in Nat /\ DOMAIN s = 1 .. k - 1
      /\ \A i \in DOMAIN v : i = k \/ (i \in DOMAIN s /\ v[i] = s[i])
      /\ \A i \in DOMAIN s : i \in DOMAIN v /\ v[i] = s[i]
  <2>1. DOMAIN v = 1 .. k /\ DOMAIN s = 1 .. Len(s) /\ Len(s) \in Nat
    BY StackFacts
  <2> QED BY <2>1
<1>2. ASSUME Disabled(s), f.kind # "handle" \/ f.visible PROVE Disabled(v)
  <2> SUFFICES ASSUME NEW h \in DOMAIN v, v[h].kind = "handle", ~v[h].visible
               PROVE  \E j \in DOMAIN v : v[j].role = "handler" /\ v[j].at = h
    BY DEF Disabled
  <2>1. h \in DOMAIN s /\ v[h] = s[h]
    BY <1>1, <1>2
  <2>2. PICK j \in DOMAIN s : s[j].role = "handler" /\ s[j].at = h
    BY <1>2, <2>1 DEF Disabled
  <2> QED BY <1>1, <2>2
<1>3. ASSUME \A j \in DOMAIN s : Owing(s, j), f.kind # "guard", NEW j \in DOMAIN v
      PROVE  Owing(v, j)
  <2> SUFFICES ASSUME v[j].kind = "guard" PROVE v[j - 1].cont = None
    BY DEF Owing
  <2>1. j \in DOMAIN s /\ s[j].kind = "guard"
    BY <1>1, <1>3
  <2>2. j > 1
    BY <2>1 DEF Fit, Shape
  <2>3. v[j - 1] = s[j - 1]
    BY <1>1, <2>1, <2>2
  <2> QED BY <1>3, <2>1, <2>3 DEF Owing
<1>4. ASSUME AllClean(s), Clean(v, k) PROVE AllClean(v)
  <2> SUFFICES ASSUME NEW j \in DOMAIN v PROVE Clean(v, j)
    BY DEF AllClean
  <2>1. CASE j = k
    BY <1>4, <2>1
  <2>2. CASE j \in DOMAIN s /\ v[j] = s[j]
    <3>1. j \in Nat /\ \A h \in 1 .. j - 1 : v[h] = s[h]
      BY <1>1, <2>2
    <3> QED BY <1>4, <2>2, <3>1, CleanAgrees DEF AllClean
  <2> QED BY <1>1, <2>1, <2>2
<1>5. \A i \in DOMAIN s : ~(i > Len(v))
  BY <1>1
<1> QED BY <1>1, <1>2, <1>3, <1>4, <1>5

\* A frame is pushed by the program.
LEMMA PushKeeps ==
  ASSUME Safe, NEW f \in Frames, f.dyn = dyn, f.kind = "let" => f.env = dyn,
         f.kind = "menv" => f.env = menv, f.role \notin Own,
         f.kind \notin {"guard", "throw", "hook"}, f.cont = None, f.starts = 0,
         f.visible, f.phase = "body", Push(f),
         menv' = IF f.kind = "menv" THEN Len(stk) + 1 ELSE menv,
         dyn' = IF f.kind = "let" THEN Len(stk) + 1 ELSE dyn
  PROVE  Safe' /\ Passed
<1> DEFINE k == Len(stk) + 1
           v == Append(stk, f)
<1>1. /\ Running /\ stk' = v
      /\ UNCHANGED <<reentry, sexit, hook, cont, dead, absconded, program>>
  BY DEF Push
<1>2. /\ Settled(stk) /\ stk \in Stack /\ \A i \in DOMAIN stk : Fit(stk, i)
      /\ "fail" \notin program => sexit = None
  BY <1>1, RunningFacts
<1>3. k \in Nat /\ k = Len(stk) + 1
  BY <1>2, StackFacts
<1>4. menv' = (IF f.kind = "menv" THEN k ELSE menv) /\ dyn' = (IF f.kind = "let" THEN k ELSE dyn)
  OBVIOUS
<1> HIDE DEF k
<1>5. /\ Whole(v, menv', dyn') /\ Len(v) = k /\ v[k] = f
      /\ \A j \in 1 .. k - 1 : v[j] = stk[j]
  <2>1. Whole(stk, menv, dyn)
    BY DEF Safe
  <2>2. /\ Whole(Append(stk, f), IF f.kind = "menv" THEN k ELSE menv,
                 IF f.kind = "let" THEN k ELSE dyn)
        /\ Len(Append(stk, f)) = k /\ Append(stk, f)[k] = f
        /\ \A j \in 1 .. k - 1 : Append(stk, f)[j] = stk[j]
    BY <1>2, <1>3, <2>1, PushPlain
  <2> QED BY <1>4, <2>2
<1> HIDE DEF v
<1>6. /\ DOMAIN v = 1 .. k
      /\ \A i \in DOMAIN v : i = k \/ (i \in DOMAIN stk /\ v[i] = stk[i])
      /\ Disabled(stk) => Disabled(v)
      /\ (\A i \in DOMAIN stk : Owing(stk, i)) => \A i \in DOMAIN v : Owing(v, i)
      /\ AllClean(stk) /\ Clean(v, k) => AllClean(v)
      /\ \A i \in DOMAIN stk : ~(i > Len(v))
  <2>1. v \in Stack
    BY <1>5 DEF Whole
  <2> QED BY <1>2, <1>3, <1>5, <2>1, AppendKeeps
<1>7. Clean(v, k)
  BY <1>5 DEF Clean
<1>8. Capped(v)
  BY <1>5 DEF Capped
<1>9. Unhooked'
  BY <1>1, <1>5, <1>6 DEF Safe, Unhooked
<1>10. Completed'
  <2> SUFFICES ASSUME "fail" \notin program PROVE AllClean(v) /\ dead \in {"", "unhandled", "reentry"} /\ Kept'
    BY <1>1 DEF Completed
  <2>1. AllClean(v) /\ dead \in {"", "unhandled", "reentry"}
    BY <1>6, <1>7 DEF Safe, Completed
  <2>2. Kept'
    <3>1. sexit' = None /\ stk' # <<>>
      <4>1. v # <<>>
        <5>1. Len(v) # 0
          BY <1>3, <1>5, <1>2, StackFacts
        <5> QED BY <5>1
      <4> QED BY <1>1, <1>2, <4>1
    <3>2. \A i \in DOMAIN stk' : i = Len(stk') => stk'[i].cont = None
      BY <1>1, <1>5
    <3> QED BY <3>1, <3>2 DEF Kept
  <2> QED BY <2>1, <2>2
<1>11. Passed
  BY <1>1, <1>6 DEF Passed
<1> QED BY <1>1, <1>5, <1>6, <1>8, <1>9, <1>10, <1>11 DEF Safe

\* A frame that the program may push, of the kind k, which has saved env if it has
Pushed(f, k, env) ==
  /\ f \in Frames /\ f.kind = k /\ f.role \notin Own /\ f.cont = None /\ f.starts = 0
  /\ f.visible /\ f.phase = "body" /\ f.dyn = dyn
  /\ k \in {"let", "menv"} => f.env = env

LEMMA PushedFrames ==
  ASSUME dyn \in Int, NEW k \in Kinds
  PROVE  /\ \A tag \in Tag : Pushed([Frame(k) EXCEPT !.tag = tag], k, 0)
         /\ \A syms \in SUBSET Sym : Pushed([Frame(k) EXCEPT !.matches = syms], k, 0)
         /\ \A env \in Int : Pushed([Frame(k) EXCEPT !.env = env], k, env)
         /\ Pushed(Frame(k), k, 0)
<1>1. Frame(k) \in Frames
  BY FrameFacts
<1>2. /\ \A f \in Frames, tag \in Tag : [f EXCEPT !.tag = tag] \in Frames
      /\ \A f \in Frames, syms \in SUBSET Sym : [f EXCEPT !.matches = syms] \in Frames
      /\ \A f \in Frames, env \in Int : [f EXCEPT !.env = env] \in Frames
  BY DEF Frames
<1>3. ASSUME NEW tag \in Tag PROVE Pushed([Frame(k) EXCEPT !.tag = tag], k, 0)
  <2> DEFINE f == [Frame(k) EXCEPT !.tag = tag]
  <2>1. f \in Frames
    BY <1>1, <1>2
  <2>2. /\ f.kind = k /\ f.role \notin Own /\ f.cont = None /\ f.starts = 0
        /\ f.visible /\ f.phase = "body" /\ f.dyn = dyn /\ f.env = 0
    BY DEF Frame
  <2> HIDE DEF f
  <2>3. Pushed(f, k, 0)
    BY <2>1, <2>2 DEF Pushed
  <2> QED BY <2>3 DEF f
<1>4. ASSUME NEW syms \in SUBSET Sym PROVE Pushed([Frame(k) EXCEPT !.matches = syms], k, 0)
  <2> DEFINE f == [Frame(k) EXCEPT !.matches = syms]
  <2>1. f \in Frames
    BY <1>1, <1>2
  <2>2. /\ f.kind = k /\ f.role \notin Own /\ f.cont = None /\ f.starts = 0
        /\ f.visible /\ f.phase = "body" /\ f.dyn = dyn /\ f.env = 0
    BY DEF Frame
  <2> HIDE DEF f
  <2>3. Pushed(f, k, 0)
    BY <2>1, <2>2 DEF Pushed
  <2> QED BY <2>3 DEF f
<1>5. ASSUME NEW env \in Int PROVE Pushed([Frame(k) EXCEPT !.env = env], k, env)
  <2> DEFINE f == [Frame(k) EXCEPT !.env = env]
  <2>1. f \in Frames
    BY <1>1, <1>2
  <2>2. /\ f.kind = k /\ f.role \notin Own /\ f.cont = None /\ f.starts = 0
        /\ f.visible /\ f.phase = "body" /\ f.dyn = dyn /\ f.env = env
    BY DEF Frame
  <2> HIDE DEF f
  <2>3. Pushed(f, k, env)
    BY <2>1, <2>2 DEF Pushed
  <2> QED BY <2>3 DEF f
<1>6. Pushed(Frame(k), k, 0)
  <2>1. /\ Frame(k).kind = k /\ Frame(k).role \notin Own /\ Frame(k).cont = None
        /\ Frame(k).starts = 0 /\ Frame(k).visible /\ Frame(k).phase = "body"
        /\ Frame(k).dyn = dyn /\ Frame(k).env = 0
    BY DEF Frame
  <2> QED BY <1>1, <2>1 DEF Pushed
<1> QED BY <1>3, <1>4, <1>5, <1>6

\* A block, a catch, a handler or a foreign call begins, or an environment is bound.
LEMMA PushesKeep ==
  ASSUME Safe,
         \/ \E tag \in Tag : PushBlock(tag)
         \/ \E syms \in Matches \cup {{}} : PushCatch(syms) \/ PushHandler(syms)
         \/ PushMatchEnv \/ BindSpecial \/ CallForeign
  PROVE  Safe' /\ Passed
<1>1. dyn \in Int /\ menv \in Int
  <2>1. Len(stk) \in Nat
    BY StackFacts DEF Safe, Whole
  <2> QED BY <2>1 DEF Safe, Whole, Latest
<1>2. \A syms \in Matches \cup {{}} : syms \in SUBSET Sym
  BY MatchesAssumption
<1>3. ASSUME NEW k \in {"block", "catch", "handle", "foreign"}, NEW f, Pushed(f, k, 0),
             Push(f), UNCHANGED <<menv, dyn>>
      PROVE  Safe' /\ Passed
  <2>1. /\ f \in Frames /\ f.kind \notin {"let", "menv", "guard", "throw", "hook"}
        /\ f.role \notin Own /\ f.cont = None /\ f.starts = 0 /\ f.visible
        /\ f.phase = "body" /\ f.dyn = dyn
    BY <1>3 DEF Pushed
  <2>2. /\ menv' = IF f.kind = "menv" THEN Len(stk) + 1 ELSE menv
        /\ dyn' = IF f.kind = "let" THEN Len(stk) + 1 ELSE dyn
    BY <1>3, <2>1
  <2> QED BY <1>3, <2>1, <2>2, PushKeeps
<1>4. ASSUME NEW tag \in Tag, PushBlock(tag) PROVE Safe' /\ Passed
  <2> DEFINE f == [Frame("block") EXCEPT !.tag = tag]
  <2>1. Pushed(f, "block", 0)
    BY <1>1, PushedFrames DEF Kinds
  <2>2. Push(f) /\ UNCHANGED <<menv, dyn>>
    BY <1>4 DEF PushBlock
  <2> HIDE DEF f
  <2> QED BY <1>3, <2>1, <2>2
<1>5. ASSUME NEW syms \in Matches \cup {{}}, PushCatch(syms) PROVE Safe' /\ Passed
  <2> DEFINE f == [Frame("catch") EXCEPT !.matches = syms]
  <2>1. Pushed(f, "catch", 0)
    BY <1>1, <1>2, PushedFrames DEF Kinds
  <2>2. Push(f) /\ UNCHANGED <<menv, dyn>>
    BY <1>5 DEF PushCatch
  <2> HIDE DEF f
  <2> QED BY <1>3, <2>1, <2>2
<1>6. ASSUME NEW syms \in Matches \cup {{}}, PushHandler(syms) PROVE Safe' /\ Passed
  <2> DEFINE f == [Frame("handle") EXCEPT !.matches = syms]
  <2>1. Pushed(f, "handle", 0)
    BY <1>1, <1>2, PushedFrames DEF Kinds
  <2>2. Push(f) /\ UNCHANGED <<menv, dyn>>
    BY <1>6 DEF PushHandler
  <2> HIDE DEF f
  <2> QED BY <1>3, <2>1, <2>2
<1>7. ASSUME CallForeign PROVE Safe' /\ Passed
  <2> DEFINE f == Frame("foreign")
  <2>1. Pushed(f, "foreign", 0)
    BY <1>1, PushedFrames DEF Kinds
  <2>2. Push(f) /\ UNCHANGED <<menv, dyn>>
    BY <1>7 DEF CallForeign
  <2> HIDE DEF f
  <2> QED BY <1>3, <2>1, <2>2
<1>8. ASSUME PushMatchEnv PROVE Safe' /\ Passed
  <2> DEFINE f == [Frame("menv") EXCEPT !.env = menv]
  <2>1. Pushed(f, "menv", menv)
    BY <1>1, PushedFrames DEF Kinds
  <2>2. Push(f) /\ menv' = Len(stk) + 1 /\ dyn' = dyn
    BY <1>8 DEF PushMatchEnv
  <2> HIDE DEF f
  <2>3. /\ f \in Frames /\ f.kind = "menv" /\ f.env = menv
        /\ f.role \notin Own /\ f.cont = None /\ f.starts = 0 /\ f.visible
        /\ f.phase = "body" /\ f.dyn = dyn
    BY <2>1 DEF Pushed
  <2>4. /\ menv' = IF f.kind = "menv" THEN Len(stk) + 1 ELSE menv
        /\ dyn' = IF f.kind = "let" THEN Len(stk) + 1 ELSE dyn
    BY <2>2, <2>3
  <2>5. f.kind \notin {"guard", "throw", "hook"} /\ f.kind # "let"
    BY <2>3
  <2> QED BY <2>2, <2>3, <2>4, <2>5, PushKeeps
<1>9. ASSUME BindSpecial PROVE Safe' /\ Passed
  <2> DEFINE f == [Frame("let") EXCEPT !.env = dyn]
  <2>1. Pushed(f, "let", dyn)
    BY <1>1, PushedFrames DEF Kinds
  <2>2. Push(f) /\ dyn' = Len(stk) + 1 /\ menv' = menv
    BY <1>9 DEF BindSpecial
  <2> HIDE DEF f
  <2>3. /\ f \in Frames /\ f.kind = "let" /\ f.env = dyn
        /\ f.role \notin Own /\ f.cont = None /\ f.starts = 0 /\ f.visible
        /\ f.phase = "body" /\ f.dyn = dyn
    BY <2>1 DEF Pushed
  <2>4. /\ menv' = IF f.kind = "menv" THEN Len(stk) + 1 ELSE menv
        /\ dyn' = IF f.kind = "let" THEN Len(stk) + 1 ELSE dyn
    BY <2>2, <2>3
  <2>5. f.kind \notin {"guard", "throw", "hook"} /\ f.kind # "menv"
    BY <2>3
  <2> QED BY <2>2, <2>3, <2>4, <2>5, PushKeeps
<1> QED BY <1>4, <1>5, <1>6, <1>7, <1>8, <1>9

\* The form of the topmost frame ends.
LEMMA EndKeeps ==
  ASSUME Safe, End
  PROVE  Safe' /\ Passed
<1>1. /\ Running /\ stk # <<>> /\ Top.kind \in {"block", "handle", "menv", "let"}
      /\ UNCHANGED <<reentry, sexit, hook, cont, absconded, program>>
  BY DEF End
<1>2. dead = "" /\ stk \in Stack /\ ("fail" \notin program => sexit = None)
  BY <1>1, RunningFacts
<1>3. PICK n \in Nat \ {0} :
        /\ n = Len(stk) /\ n \in DOMAIN stk /\ stk[n] \in Frames /\ Top = stk[n]
        /\ Below = SubSeq(stk, 1, n - 1) /\ Outer = SubSeq(stk, 1, n - 2)
  BY <1>1, TopFacts
<1> DEFINE t == SubSeq(stk, 1, n - 1)
           f == stk[n]
<1>4. f.role \notin Own /\ f.kind \in {"block", "handle", "menv", "let"}
  BY <1>1, <1>3 DEF Safe, Whole, Fit, Shape
<1>5. /\ Whole(t, IF f.kind = "menv" THEN f.env ELSE menv, f.dyn)
      /\ ~Binding(f) => f.dyn = dyn
      /\ f.kind = "let" => f.env = f.dyn
      /\ f.kind = "menv" => menv = n
      /\ f.role # "callback" /\ f.kind # "guard" => Settled(t)
      /\ Len(t) = n - 1
  <2>1. Whole(stk, menv, dyn)
    BY DEF Safe
  <2> QED BY <1>3, <2>1, PopWhole
<1>6. /\ stk' = t /\ UNCHANGED dead
      /\ menv' = IF f.kind = "menv" THEN f.env ELSE menv
      /\ dyn' = IF f.kind = "let" THEN f.env ELSE dyn
  BY <1>3, <1>5 DEF End
<1>7. From(t)
  BY <1>3, <1>4, FromBelow
<1>8. dyn' = f.dyn
  BY <1>4, <1>5, <1>6 DEF Binding
<1> HIDE DEF t, f
<1>9. Whole(stk', menv', dyn') /\ Settled(t) /\ stk' = t
  BY <1>4, <1>5, <1>6, <1>8
<1>10. \A j \in DOMAIN t : j = Len(t) => t[j].kind \notin {"foreign", "guard"}
  BY <1>9 DEF Settled
<1>11. \A j \in DOMAIN t : ~(j > Len(t))
  BY <1>5, InLength DEF Whole
<1>12. Sequel(t)
  BY <1>6, <1>9, <1>10, <1>11 DEF Sequel
<1>13. AllClean(stk) => Arrives
  BY <1>6, <1>7, <1>9 DEF From, Arrives
<1>14. sexit' \in Int /\ ("fail" \notin program => sexit' = None)
  BY <1>1, <1>2 DEF Safe
<1> QED BY <1>1, <1>2, <1>7, <1>12, <1>13, <1>14, SequelKeeps

\* A catch's body, or its clause, ends: on to its cleanup.
LEMMA EndBodyKeeps ==
  ASSUME Safe, EndBody
  PROVE  Safe' /\ Passed
<1>1. /\ Running /\ stk # <<>> /\ Top.kind = "catch" /\ Top.phase # "cleanup"
      /\ stk' = Append(Below, Cleaning(Top, Top.cont)) /\ dyn' = DynAfter(Top)
      /\ UNCHANGED <<menv, reentry, sexit, hook, cont, dead, absconded, program>>
  BY DEF EndBody
<1>2. /\ Settled(stk) /\ dead = "" /\ stk \in Stack
      /\ Latest(Envs(stk), Len(stk), menv) /\ \A i \in DOMAIN stk : Fit(stk, i)
      /\ "fail" \notin program => sexit = None
  BY <1>1, RunningFacts
<1>3. PICK n \in Nat \ {0} :
        /\ n = Len(stk) /\ n \in DOMAIN stk /\ stk[n] \in Frames /\ Top = stk[n]
        /\ Below = SubSeq(stk, 1, n - 1) /\ Outer = SubSeq(stk, 1, n - 2)
  BY <1>1, TopFacts
<1> DEFINE g == stk[n]
           f == Cleaning(g, g.cont)
           v == Append(SubSeq(stk, 1, n - 1), f)
<1>4. /\ f \in Frames /\ f.kind = g.kind /\ f.role = g.role /\ f.matches = g.matches
      /\ ~f.visible /\ f.phase = "cleanup" /\ f.cont = g.cont /\ f.dyn = g.dyn
      /\ f.at = g.at /\ f.starts = g.starts + 1
  <2>1. g.cont \in Int /\ g \in Frames
    BY <1>3 DEF Frames
  <2> HIDE DEF g
  <2> QED BY <2>1, CleaningFacts
<1>5. stk' = v /\ g.kind = "catch" /\ g.phase # "cleanup"
  BY <1>1, <1>3
<1>6. dyn' = g.dyn
  <2>1. /\ ~Binding(stk[n]) => stk[n].dyn = dyn
    <3>1. Whole(stk, menv, dyn)
      BY DEF Safe
    <3> QED BY <1>3, <3>1, PopWhole
  <2>2. CASE g.role = "handler"
    BY <1>1, <1>3, <2>2 DEF DynAfter
  <2>3. CASE g.role # "handler"
    BY <1>1, <1>3, <1>5, <2>1, <2>3 DEF DynAfter, Binding
  <2> QED BY <2>2, <2>3
<1> HIDE DEF f
<1>7. /\ Whole(v, menv, g.dyn) /\ Len(v) = n /\ (\A j \in 1 .. n - 1 : v[j] = stk[j])
      /\ v[n] = f
  <2>1. f.phase # "body" /\ f.kind = "catch" /\ Latest(Envs(stk), n, menv)
    BY <1>2, <1>3, <1>4, <1>5
  <2>2. /\ f \in Frames /\ f.role = stk[n].role /\ f.dyn = stk[n].dyn
        /\ f.at = stk[n].at /\ f.matches = stk[n].matches /\ stk[n].kind = "catch"
    BY <1>4, <1>5
  <2>3. n \in DOMAIN stk /\ stk \in Stack /\ \A i \in DOMAIN stk : Fit(stk, i)
    BY <1>2, <1>3
  <2> QED BY <2>1, <2>2, <2>3, CatchWhole
<1> HIDE DEF v
<1>8. /\ DOMAIN v = 1 .. n /\ DOMAIN stk = 1 .. n /\ v \in Stack
      /\ \A i \in DOMAIN v : i = n \/ v[i] = stk[i]
  <2>1. v \in Stack
    BY <1>7 DEF Whole
  <2>2. DOMAIN v = 1 .. n /\ DOMAIN stk = 1 .. n
    BY <1>2, <1>3, <1>7, <2>1, StackFacts
  <2> QED BY <1>7, <2>1, <2>2
<1>9. Left(stk, v)
  <2>1. \A i \in DOMAIN v : v[i].kind = stk[i].kind /\ v[i].role = stk[i].role
                            /\ v[i].at = stk[i].at
    BY <1>4, <1>7, <1>8
  <2>2. \A i \in DOMAIN v : i < Len(v) \/ stk[i].kind # "catch" => v[i] = stk[i]
    BY <1>5, <1>7, <1>8
  <2>3. \A i \in DOMAIN v : i = Len(v) => v[i].kind \notin {"foreign", "guard"}
    BY <1>4, <1>5, <1>7
  <2>4. \A i \in DOMAIN stk : ~(i > Len(v))
    BY <1>3, <1>7, <1>8
  <2>5. Len(v) <= Len(stk)
    BY <1>3, <1>7
  <2> QED BY <2>1, <2>2, <2>3, <2>4, <2>5 DEF Left
<1>10. /\ Disabled(stk) => Disabled(v)
       /\ (\A i \in DOMAIN stk : Owing(stk, i)) => \A i \in DOMAIN v : Owing(v, i)
  BY <1>2, <1>8, <1>9, LeftFacts
<1>11. Sequel(stk)
  <2>1. \A j \in DOMAIN v : j = Len(v) => v[j].kind \notin {"foreign", "guard"}
    BY <1>9 DEF Left
  <2>2. \A i \in DOMAIN stk : ~(i > Len(v))
    BY <1>2, <1>3, <1>7, InLength
  <2>3. \A i \in DOMAIN v : v[i].kind = "hook" => \E j \in DOMAIN stk : stk[j].kind = "hook"
    BY <1>8, <1>9 DEF Left
  <2> QED BY <1>1, <1>5, <1>6, <1>7, <1>10, <2>1, <2>2, <2>3 DEF Sequel
<1>12. AllClean(stk) => Arrives
  <2> SUFFICES ASSUME AllClean(stk) PROVE AllClean(v)
    BY <1>1, <1>5 DEF Arrives
  <2>1. ASSUME NEW j \in DOMAIN v, j # n PROVE Clean(v, j)
    <3>1. j \in Nat /\ (\A h \in 1 .. j - 1 : v[h] = stk[h]) /\ v[j] = stk[j]
      BY <1>7, <1>8, <2>1
    <3> QED BY <1>8, <2>1, <3>1, CleanAgrees DEF AllClean
  <2>2. Clean(v, n)
    <3>1. Clean(stk, n)
      BY <1>3 DEF AllClean
    <3>2. Exits(v, n) = Exits(stk, n)
      BY <1>7 DEF Exits
    <3>3. g.visible /\ g.starts = 0 /\ g.cont \in {None, Unhandled} \cup Exits(stk, n)
      BY <1>5, <3>1 DEF Clean
    <3>4. f.starts = 1
      BY <1>4, <3>3
    <3>5. /\ v[n].kind = "catch" /\ v[n].visible = FALSE /\ v[n].phase = "cleanup"
          /\ v[n].starts = 1 /\ v[n].cont \in {None, Unhandled} \cup Exits(v, n)
      <4>1. f.visible = FALSE
        BY <1>4 DEF Frames
      <4> HIDE DEF g
      <4> QED BY <1>4, <1>5, <1>7, <3>2, <3>3, <3>4, <4>1
    <3> QED BY <3>5 DEF Clean
  <2> QED BY <2>1, <2>2 DEF AllClean
<1>13. sexit' \in Int /\ ("fail" \notin program => sexit' = None)
  BY <1>1, <1>2 DEF Safe
<1> QED BY <1>1, <1>2, <1>11, <1>12, <1>13, FromAll, SequelKeeps

\* A block is absconded from.
LEMMA AbscondKeeps ==
  ASSUME Safe, NEW tag \in Tag, Abscond(tag)
  PROVE  Safe' /\ Passed
<1> DEFINE b == Max(Named(tag, {"block"}))
           k == b - 1
           v == SubSeq(stk, 1, k)
<1>1. /\ Running /\ UNCHANGED <<reentry, sexit, hook, cont, dead, program>>
      /\ Named(tag, {"block"}) # {} /\ stk' = v
      /\ menv' = MenvOut(stk, b, menv) /\ dyn' = stk[b].dyn
      /\ absconded' = (absconded \/ Stops(stk, b) # {})
  BY DEF Abscond
<1>2. /\ Settled(stk) /\ dead = "" /\ stk \in Stack
      /\ Latest(Envs(stk), Len(stk), menv) /\ \A i \in DOMAIN stk : Fit(stk, i)
      /\ "fail" \notin program => sexit = None
  BY <1>1, RunningFacts
<1>3. b \in DOMAIN stk /\ b \in Int /\ stk[b].kind = "block"
  BY <1>1, NamedFacts
<1> HIDE DEF b
<1>4. /\ Len(stk) \in Nat /\ DOMAIN stk = 1 .. Len(stk) /\ EnvsLinked(stk)
      /\ k \in 0 .. Len(stk) /\ k \in Nat /\ b = k + 1 /\ b \in 0 .. Len(stk)
  <2>1. \A i \in DOMAIN stk : stk[i].kind = "menv" => Latest(Envs(stk), i - 1, stk[i].env)
    BY <1>2 DEF Fit, Context
  <2>2. EnvsLinked(stk)
    BY <2>1 DEF EnvsLinked, Envs
  <2>3. Len(stk) \in Nat /\ DOMAIN stk = 1 .. Len(stk)
    BY <1>2, StackFacts
  <2> QED BY <1>3, <2>2, <2>3
<1>5. Fit(stk, b)
  BY <1>2, <1>3
<1>6. Whole(v, menv', dyn')
  <2>1. Latest(Binds(stk), k, stk[b].dyn)
    BY <1>5 DEF Fit, Context
  <2>2. Latest(Envs(stk), b, MenvOut(stk, b, menv))
    BY <1>2, <1>4, MenvOutIs
  <2>3. Latest(Envs(stk), k, MenvOut(stk, b, menv))
    BY <1>2, <1>3, <1>4, <2>2, PassFrame
  <2> QED BY <1>1, <1>2, <1>4, <2>1, <2>3, PrefixWhole
<1>7. /\ v \in Stack /\ Len(v) = k /\ DOMAIN v = 1 .. k
      /\ \A j \in 1 .. k : v[j] = stk[j]
  <2> HIDE DEF k
  <2>1. v \in Stack /\ Len(v) = k /\ \A j \in 1 .. k : v[j] = stk[j]
    BY <1>2, <1>4, PrefixFacts
  <2> HIDE DEF v
  <2> QED BY <2>1, StackFacts
<1> HIDE DEF v
<1>8. \A i \in DOMAIN v : i \in DOMAIN stk /\ v[i] = stk[i]
  BY <1>4, <1>7
<1>9. \A i \in DOMAIN v : i = Len(v) => v[i].kind \notin {"foreign", "guard"}
  <2> SUFFICES ASSUME NEW i \in DOMAIN v, i = Len(v)
               PROVE  v[i].kind \notin {"foreign", "guard"}
    OBVIOUS
  <2>1. i = b - 1 /\ b > 1 /\ v[i] = stk[b - 1]
    BY <1>4, <1>7, <1>8
  <2>2. Shape(stk, b) /\ stk[b].role \notin Own
    BY <1>3, <1>5 DEF Fit, Shape
  <2> QED BY <1>3, <2>1, <2>2 DEF Shape
<1>10. ASSUME Stops(stk, b) = {}
       PROVE  \A i \in DOMAIN stk : i > Len(v) => ~(stk[i].kind = "catch" /\ stk[i].visible)
  <2> SUFFICES ASSUME NEW i \in DOMAIN stk, i > k, stk[i].kind = "catch", stk[i].visible
               PROVE  FALSE
    BY <1>7
  <2>1. i # b
    BY <1>3
  <2>2. i > b
    BY <1>4, <2>1
  <2> QED BY <1>10, <2>2 DEF Stops
<1>11. ~absconded' => Disabled(v)
  <2> SUFFICES ASSUME ~absconded' PROVE Disabled(v)
    OBVIOUS
  <2>1. ~absconded /\ Stops(stk, b) = {}
    BY <1>1
  <2>2. Left(stk, v)
    <3>1. Len(v) <= Len(stk)
      BY <1>4, <1>7
    <3> QED BY <1>8, <1>9, <1>10, <2>1, <3>1 DEF Left
  <2>3. Disabled(stk)
    BY <2>1 DEF Safe
  <2> QED BY <1>2, <1>7, <2>2, <2>3, LeftFacts
<1>12. ASSUME "again" \notin program, NEW i \in DOMAIN v PROVE Owing(v, i)
  <2> SUFFICES ASSUME v[i].kind = "guard" PROVE v[i - 1].cont = None
    BY DEF Owing
  <2>1. i \in DOMAIN stk /\ stk[i].kind = "guard"
    BY <1>8, <1>12
  <2>2. i > 1
    BY <1>2, <2>1 DEF Fit, Shape
  <2>3. i - 1 \in 1 .. k
    BY <1>4, <1>7, <1>12, <2>2
  <2>4. v[i - 1] = stk[i - 1]
    BY <1>7, <2>3
  <2> QED BY <1>12, <2>1, <2>4 DEF Safe, Owing
<1>13. Unhooked'
  BY <1>1, <1>8 DEF Safe, Unhooked
<1>14. Completed'
  <2> SUFFICES ASSUME "fail" \notin program
               PROVE  AllClean(v) /\ dead \in {"", "unhandled", "reentry"} /\ Kept'
    BY <1>1 DEF Completed
  <2>1. ASSUME NEW i \in DOMAIN v PROVE Clean(v, i)
    <3>1. i \in Nat /\ (\A j \in 1 .. i - 1 : v[j] = stk[j]) /\ v[i] = stk[i]
      BY <1>4, <1>7, <1>8
    <3>2. Clean(stk, i)
      BY <1>8, <2>1 DEF Safe, Completed, AllClean
    <3> QED BY <3>1, <3>2, CleanAgrees
  <2>2. Kept'
    BY <1>1, <1>2, <1>9 DEF Kept
  <2> QED BY <2>1, <2>2 DEF AllClean, Safe, Completed
<1>15. Passed
  <2> SUFFICES ASSUME NEW i \in DOMAIN stk, stk[i].kind = "catch", i > Len(v), stk[i].visible,
                      ~absconded'
               PROVE  FALSE
    BY <1>1 DEF Passed
  <2> QED BY <1>1, <1>10
<1>16. Capped(v)
  BY <1>9 DEF Capped
<1> QED BY <1>1, <1>6, <1>11, <1>12, <1>13, <1>14, <1>15, <1>16 DEF Safe

-----------------------------------------------------------------------------
(* Callbacks.                                                              *)

\* Foreign code calls back.
LEMMA CallbackKeeps ==
  ASSUME Safe, Callback
  PROVE  Safe' /\ Passed
<1> DEFINE g == Frame("guard")
           c == [Frame("catch") EXCEPT !.role = "callback"]
           v == Append(stk, g)
           w == Append(v, c)
<1>1. /\ Foreign /\ sexit' = None /\ stk' = stk \o <<g, c>>
      /\ UNCHANGED <<menv, dyn, reentry, hook, cont, dead, absconded, program>>
  BY DEF Callback
<1>2. PICK n \in Nat \ {0} :
        /\ n = Len(stk) /\ n \in DOMAIN stk /\ stk[n] \in Frames /\ Top = stk[n]
        /\ Below = SubSeq(stk, 1, n - 1) /\ Outer = SubSeq(stk, 1, n - 2)
  BY <1>1, TopFacts DEF Foreign
<1> DEFINE k == n + 1
           l == n + 2
<1>3. /\ stk[n].kind = "foreign" /\ stk[n].role \notin Own
      /\ "again" \notin program => stk[n].cont = None
  BY <1>1, <1>2 DEF Callback, Foreign, Safe, Whole, Fit, Shape
<1>4. /\ stk \in Stack /\ Whole(stk, menv, dyn) /\ dyn \in Int
      /\ \A i \in DOMAIN stk : Fit(stk, i)
  <2>1. Len(stk) \in Nat
    BY StackFacts DEF Safe, Whole
  <2> QED BY <2>1 DEF Safe, Whole, Latest
<1>5. /\ g \in Frames /\ g.kind = "guard" /\ g.role = "" /\ g.visible = TRUE
      /\ g.cont = None /\ g.dyn = dyn /\ g.starts = 0
  BY <1>4, FrameFacts DEF Frame, Kinds
<1>6. /\ c \in Frames /\ c.kind = "catch" /\ c.role = "callback" /\ c.visible = TRUE
      /\ c.cont = None /\ c.dyn = dyn /\ c.starts = 0 /\ c.phase = "body"
      /\ c.matches = {}
  <2>1. Frame("catch") \in Frames
    BY <1>4, FrameFacts DEF Kinds
  <2>2. c \in Frames
    BY <2>1 DEF Frames
  <2> QED BY <2>2 DEF Frame
<1>7. /\ k \in Nat /\ k = Len(stk) + 1 /\ k - 1 = n /\ k > 1
      /\ l \in Nat /\ l = k + 1 /\ l - 1 = k /\ l > 1
  BY <1>2
<1> HIDE DEF g, c, k, l
<1>8. stk' = w
  BY <1>1, <1>4, <1>5, <1>6, PushTwo
<1>9. /\ v \in Stack /\ Len(v) = k /\ v[k] = g
      /\ \A j \in 1 .. n : v[j] = stk[j]
  <2>1. /\ v \in Stack /\ Len(v) = Len(stk) + 1 /\ v[Len(stk) + 1] = g
        /\ \A j \in 1 .. Len(stk) : v[j] = stk[j]
    <3>1. stk \in Seq(Frames) /\ g \in Frames
      BY <1>4, <1>5 DEF Stack
    <3> QED BY <3>1 DEF Stack
  <2> HIDE DEF v
  <2> QED BY <1>2, <1>7, <2>1
<1>10. /\ w \in Stack /\ Len(w) = l /\ w[l] = c
       /\ \A j \in 1 .. k : w[j] = v[j]
  <2> HIDE DEF v
  <2> QED BY <1>6, <1>7, <1>9 DEF Stack
<1>11. v[n] = stk[n] /\ w[k] = g
  BY <1>2, <1>7, <1>9, <1>10
<1>12. Whole(v, menv, dyn)
  <2>1. Shape(v, k)
    BY <1>3, <1>5, <1>7, <1>9, <1>11 DEF Shape
  <2>2. Handler(v, k)
    BY <1>5, <1>9 DEF Handler
  <2>3. ~Binding(g) /\ g.kind # "menv" /\ g.kind # "let"
    BY <1>5 DEF Binding
  <2>4. /\ Whole(Append(stk, g), IF g.kind = "menv" THEN k ELSE menv,
                  IF Binding(g) THEN k ELSE dyn)
    BY <1>4, <1>5, <1>7, <2>1, <2>2, <2>3, PushWhole
  <2> QED BY <2>3, <2>4
<1>13. Whole(w, menv, dyn)
  <2>1. Shape(w, l)
    BY <1>5, <1>6, <1>7, <1>10, <1>11 DEF Shape
  <2>2. Handler(w, l)
    BY <1>6, <1>10 DEF Handler
  <2>3. ~Binding(c) /\ c.kind # "menv" /\ c.kind # "let"
    BY <1>6 DEF Binding
  <2>4. l = Len(v) + 1
    BY <1>7, <1>9
  <2> HIDE DEF v
  <2>5. /\ Whole(Append(v, c), IF c.kind = "menv" THEN l ELSE menv,
                  IF Binding(c) THEN l ELSE dyn)
    BY <1>6, <1>7, <1>12, <2>1, <2>2, <2>3, <2>4, PushWhole
  <2> QED BY <2>3, <2>5
<1> HIDE DEF v, w
<1>14. /\ DOMAIN v = 1 .. k
       /\ \A i \in DOMAIN v : i = k \/ (i \in DOMAIN stk /\ v[i] = stk[i])
       /\ Disabled(stk) /\ g.kind # "handle" => Disabled(v)
       /\ AllClean(stk) /\ Clean(v, k) => AllClean(v)
       /\ \A i \in DOMAIN stk : ~(i > Len(v))
  <2>1. \A j \in 1 .. k - 1 : v[j] = stk[j]
    BY <1>7, <1>9
  <2>2. k = Len(stk) + 1 /\ k \in Nat /\ Len(v) = k /\ v[k] = g /\ v \in Stack
    BY <1>7, <1>9
  <2>3. stk \in Stack /\ (\A i \in DOMAIN stk : Fit(stk, i)) /\ g \in Frames
    BY <1>4, <1>5
  <2> QED BY <2>1, <2>2, <2>3, AppendKeeps
<1>15. /\ DOMAIN w = 1 .. l
       /\ \A i \in DOMAIN w : i = l \/ (i \in DOMAIN v /\ w[i] = v[i])
       /\ Disabled(v) /\ c.kind # "handle" => Disabled(w)
       /\ (\A i \in DOMAIN v : Owing(v, i)) /\ c.kind # "guard" =>
            \A i \in DOMAIN w : Owing(w, i)
       /\ AllClean(v) /\ Clean(w, l) => AllClean(w)
  <2>1. \A j \in 1 .. l - 1 : w[j] = v[j]
    BY <1>7, <1>10
  <2>2. l = Len(v) + 1 /\ \A i \in DOMAIN v : Fit(v, i)
    BY <1>7, <1>9, <1>12 DEF Whole
  <2> QED BY <1>6, <1>7, <1>9, <1>10, <2>1, <2>2, AppendKeeps
<1>16. "again" \notin program => \A i \in DOMAIN w : Owing(w, i)
  <2> SUFFICES ASSUME "again" \notin program, NEW i \in DOMAIN v PROVE Owing(v, i)
    BY <1>6, <1>15
  <2>1. CASE i = k
    <3>1. v[i - 1].cont = None
      BY <1>3, <1>7, <1>11, <2>1
    <3> QED BY <3>1 DEF Owing
  <2>2. CASE i \in DOMAIN stk /\ v[i] = stk[i]
    <3> SUFFICES ASSUME v[i].kind = "guard" PROVE v[i - 1].cont = None
      BY DEF Owing
    <3>1. i > 1
      BY <1>4, <2>2 DEF Fit, Shape
    <3>2. i - 1 \in 1 .. n
      BY <1>2, <1>4, <2>2, <3>1, StackFacts
    <3>3. v[i - 1] = stk[i - 1]
      BY <1>9, <3>2
    <3> QED BY <2>2, <3>3 DEF Safe, Owing
  <2> QED BY <1>14, <2>1, <2>2
<1>17. Completed'
  <2> SUFFICES ASSUME "fail" \notin program
               PROVE  AllClean(w) /\ dead \in {"", "unhandled", "reentry"} /\ Kept'
    BY <1>1, <1>8 DEF Completed
  <2>1. AllClean(w)
    <3>1. Clean(v, k)
      BY <1>5, <1>9 DEF Clean
    <3>2. Clean(w, l)
      BY <1>6, <1>10 DEF Clean
    <3> QED BY <1>14, <1>15, <3>1, <3>2 DEF Safe, Completed
  <2>2. Kept'
    <3>1. \A i \in DOMAIN w : i = Len(w) => w[i].kind # "foreign"
      BY <1>6, <1>10
    <3> QED BY <1>1, <1>8, <3>1 DEF Kept
  <2> QED BY <2>1, <2>2 DEF Safe, Completed
<1>18. Unhooked'
  <2>1. w[l].kind # "hook" /\ v[k].kind # "hook"
    BY <1>5, <1>6, <1>9, <1>10
  <2>2. \A i \in DOMAIN w : w[i].kind = "hook" => \E j \in DOMAIN stk : stk[j].kind = "hook"
    BY <1>14, <1>15, <2>1
  <2> QED BY <1>1, <1>8, <2>2 DEF Safe, Unhooked
<1>19. Passed
  <2>1. \A i \in DOMAIN stk : ~(i > Len(w))
    BY <1>4, <1>2, <1>7, <1>10, StackFacts
  <2> QED BY <1>8, <2>1 DEF Passed
<1>20. Capped(w)
  BY <1>6, <1>10 DEF Capped
<1>21. ~absconded => Disabled(w)
  BY <1>5, <1>6, <1>14, <1>15 DEF Safe
<1>22. None \in Int
  BY DEF None
<1> QED BY <1>1, <1>8, <1>13, <1>16, <1>17, <1>18, <1>19, <1>20, <1>21, <1>22 DEF Safe

\* The frame of foreign code as it is told of a transfer
Told(f, ep) == [f EXCEPT !.cont = ep]

LEMMA ToldFacts ==
  ASSUME NEW f \in Frames, NEW ep \in Int
  PROVE  /\ Told(f, ep) \in Frames
         /\ Told(f, ep).kind = f.kind /\ Told(f, ep).role = f.role
         /\ Told(f, ep).matches = f.matches /\ Told(f, ep).visible = f.visible
         /\ Told(f, ep).phase = f.phase /\ Told(f, ep).cont = ep
         /\ Told(f, ep).dyn = f.dyn /\ Told(f, ep).env = f.env
         /\ Told(f, ep).at = f.at /\ Told(f, ep).starts = f.starts
<1>1. Told(f, ep) \in Frames
  BY DEF Told, Frames
<1>2. /\ Told(f, ep).kind = f.kind /\ Told(f, ep).role = f.role
      /\ Told(f, ep).matches = f.matches /\ Told(f, ep).visible = f.visible
      /\ Told(f, ep).phase = f.phase /\ Told(f, ep).cont = ep
  BY DEF Told, Frames
<1>3. /\ Told(f, ep).dyn = f.dyn /\ Told(f, ep).env = f.env
      /\ Told(f, ep).at = f.at /\ Told(f, ep).starts = f.starts
  BY DEF Told, Frames
<1> QED BY <1>1, <1>2, <1>3

\* The stack as a callback returns to the mth frame, with the transfer that is to go on
Returned(s, m, ep) == [SubSeq(s, 1, m) EXCEPT ![m].cont = ep]

LEMMA ReturnedFacts ==
  ASSUME NEW s \in Stack, \A i \in DOMAIN s : Fit(s, i), NEW m \in Nat \ {0},
         m \in DOMAIN s, s[m].kind = "foreign", NEW ep \in Int, NEW e, NEW d,
         Latest(Envs(s), m, e), Latest(Binds(s), m, d)
  PROVE  /\ Whole(Returned(s, m, ep), e, d)
         /\ Len(Returned(s, m, ep)) = m
         /\ \A j \in 1 .. m - 1 : Returned(s, m, ep)[j] = s[j]
         /\ Returned(s, m, ep)[m] = Told(s[m], ep)
<1> DEFINE t == SubSeq(s, 1, m)
           v == Returned(s, m, ep)
           g == Told(s[m], ep)
<1>1. /\ m \in 0 .. Len(s) /\ s[m] \in Frames
  BY StackFacts
<1>2. t \in Stack /\ Len(t) = m /\ \A j \in 1 .. m : t[j] = s[j]
  BY <1>1, PrefixFacts
<1>3. Whole(t, e, d)
  BY <1>1, PrefixWhole
<1>4. v = [t EXCEPT ![m].cont = ep]
  BY DEF Returned
<1> HIDE DEF t, v
<1>5. g \in Frames
  BY <1>1, ToldFacts
<1>6. t[m] = s[m]
  BY <1>2
<1>7. v = [t EXCEPT ![m] = g]
  BY <1>4, <1>6 DEF Told
<1>8. DOMAIN t = 1 .. m
  BY <1>2, StackFacts
<1>9. v \in Stack /\ Len(v) = m
  BY <1>2, <1>5, <1>7 DEF Stack
<1>10. DOMAIN v = 1 .. m
  BY <1>9, StackFacts
<1>11. v[m] = g /\ \A j \in 1 .. m - 1 : v[j] = t[j]
  BY <1>7, <1>8
<1>12. \A j \in 1 .. m : v[j].kind = t[j].kind /\ v[j].role = t[j].role
                         /\ v[j].phase = t[j].phase /\ v[j].at = t[j].at
  <2>1. /\ g.kind = t[m].kind /\ g.role = t[m].role /\ g.phase = t[m].phase
        /\ g.at = t[m].at
    BY <1>1, <1>6, ToldFacts
  <2>2. \A j \in 1 .. m : j = m \/ v[j] = t[j]
    BY <1>11
  <2> QED BY <1>11, <2>1, <2>2
<1>13. Envs(v) = Envs(t) /\ Binds(v) = Binds(t)
  BY <1>8, <1>10, <1>12 DEF Envs, Binds, Binding
<1>14. ASSUME NEW i \in DOMAIN v, i # m PROVE Fit(v, i)
  <2>1. i \in DOMAIN t /\ \A j \in 1 .. i : v[j] = t[j]
    BY <1>8, <1>10, <1>11, <1>14
  <2>2. Fit(t, i)
    BY <1>3, <2>1 DEF Whole
  <2> QED BY <1>2, <1>9, <2>1, <2>2, FitAgrees
<1>15. Fit(v, m)
  <2>1. Fit(t, m) /\ t[m].kind = "foreign"
    BY <1>3, <1>6, <1>8 DEF Whole
  <2>2. /\ g.kind = t[m].kind /\ g.role = t[m].role /\ g.matches = t[m].matches
        /\ g.visible = t[m].visible /\ g.phase = t[m].phase /\ g.dyn = t[m].dyn
        /\ g.env = t[m].env /\ g.at = t[m].at
    BY <1>1, <1>6, ToldFacts
  <2> HIDE DEF g
  <2>3. Context(v, m)
    BY <1>11, <1>13, <2>1, <2>2 DEF Fit, Context
  <2>4. Shape(v, m)
    <3>1. m > 1 => v[m - 1] = t[m - 1]
      BY <1>11
    <3>2. Shape(t, m)
      BY <2>1 DEF Fit
    <3>3. CASE m > 1
      BY <1>11, <2>1, <2>2, <3>1, <3>2, <3>3 DEF Shape
    <3>4. CASE ~(m > 1)
      BY <1>11, <2>1, <2>2, <3>2, <3>4 DEF Shape
    <3> QED BY <3>3, <3>4
  <2>5. Handler(v, m)
    <3>1. g.role # "handler"
      BY <2>1, <2>2 DEF Fit, Shape
    <3> QED BY <1>11, <3>1 DEF Handler
  <2> QED BY <2>3, <2>4, <2>5 DEF Fit
<1>16. Whole(v, e, d)
  <2>1. \A i \in DOMAIN v : Fit(v, i)
    BY <1>14, <1>15
  <2> QED BY <1>2, <1>3, <1>9, <1>13, <2>1 DEF Whole
<1>17. \A j \in 1 .. m - 1 : v[j] = s[j]
  BY <1>2, <1>11
<1> QED BY <1>9, <1>11, <1>16, <1>17 DEF v

\* A callback has returned to the mth frame, which is that of foreign code, with two
\* frames on top of it.
LEMMA CallbackEndKeeps ==
  ASSUME Safe, CallbackEnd
  PROVE  Safe' /\ Passed
<1>1. /\ dead = "" /\ stk # <<>> /\ Top.role = "callback" /\ Top.phase = "cleanup"
      /\ sexit' = Caught(Top)
      /\ stk' = [Outer EXCEPT ![Len(Outer)].cont = IF Top.cont = None THEN @ ELSE Top.cont]
      /\ UNCHANGED <<menv, dyn, reentry, hook, cont, dead, absconded, program>>
  BY DEF CallbackEnd
<1>2. PICK n \in Nat \ {0} :
        /\ n = Len(stk) /\ n \in DOMAIN stk /\ stk[n] \in Frames /\ Top = stk[n]
        /\ Below = SubSeq(stk, 1, n - 1) /\ Outer = SubSeq(stk, 1, n - 2)
  BY <1>1, TopFacts
<1>3. /\ stk \in Stack /\ DOMAIN stk = 1 .. n
      /\ Latest(Envs(stk), n, menv) /\ Latest(Binds(stk), n, dyn)
      /\ \A i \in DOMAIN stk : Fit(stk, i)
  BY <1>2, StackFacts DEF Safe, Whole
<1> DEFINE k == n - 1
           m == n - 2
<1>4. /\ k \in DOMAIN stk /\ k > 1 /\ k \in Nat /\ stk[k].kind = "guard" /\ k = n - 1
      /\ stk[n].role = "callback" /\ stk[n].kind = "catch" /\ stk[n].phase = "cleanup"
  <2>1. stk[n].role = "callback" /\ stk[n].phase = "cleanup"
    BY <1>1, <1>2
  <2>2. Shape(stk, n)
    BY <1>2, <1>3 DEF Fit
  <2>3. n > 1 /\ stk[k].kind = "guard" /\ stk[n].kind = "catch"
    BY <2>1, <2>2 DEF Shape
  <2>4. k \in DOMAIN stk /\ k \in Nat
    BY <1>3, <2>3
  <2>5. Shape(stk, k)
    BY <1>3, <2>4 DEF Fit
  <2> HIDE DEF k
  <2>6. k > 1
    BY <2>3, <2>5 DEF Shape
  <2> QED BY <2>1, <2>3, <2>4, <2>6 DEF k
<1>5. m \in DOMAIN stk /\ m \in Nat \ {0} /\ stk[m].kind = "foreign" /\ m = k - 1
  <2>1. m \in DOMAIN stk /\ m \in Nat \ {0} /\ m = k - 1
    BY <1>3, <1>4
  <2>2. Shape(stk, k)
    BY <1>3, <1>4 DEF Fit
  <2> HIDE DEF k, m
  <2> QED BY <1>4, <2>1, <2>2 DEF Shape
<1> HIDE DEF k, m
<1>6. \A i \in DOMAIN stk : i = n \/ i = k \/ i \in 1 .. m
  BY <1>3, <1>4, <1>5
<1>7. n \notin Envs(stk) \cup Binds(stk) /\ k \notin Envs(stk) \cup Binds(stk)
  <2>1. stk[k].role # "handler"
    BY <1>3, <1>4 DEF Fit, Shape
  <2> QED BY <1>4, <2>1 DEF Envs, Binds, Binding
<1>8. Latest(Envs(stk), m, menv) /\ Latest(Binds(stk), m, dyn)
  <2>1. menv \in 0 .. m /\ dyn \in 0 .. m
    BY <1>3, <1>4, <1>5, <1>7 DEF Latest
  <2>2. m \in Nat /\ \A j \in Nat : j <= m => j <= n
    BY <1>4, <1>5
  <2>3. Envs(stk) \subseteq Nat /\ Binds(stk) \subseteq Nat
    BY <1>3, StackFacts
  <2> QED BY <1>3, <2>1, <2>2, <2>3 DEF Latest
<1> DEFINE ep == IF stk[n].cont = None THEN stk[m].cont ELSE stk[n].cont
           v == Returned(stk, m, ep)
<1>9. ep \in Int /\ stk[n].cont \in Int
  <2>1. stk[m] \in Frames
    BY <1>3, <1>5, StackFacts
  <2> QED BY <1>2, <2>1 DEF Frames
<1>10. stk' = v
  <2> DEFINE t == SubSeq(stk, 1, m)
  <2>1. Outer = t
    BY <1>2 DEF m
  <2>2. Len(t) = m /\ t[m] = stk[m] /\ t \in Stack
    <3>1. m \in 0 .. Len(stk) /\ m \in 1 .. m
      BY <1>2, <1>3, <1>5
    <3> QED BY <1>3, <3>1, PrefixFacts
  <2> HIDE DEF t
  <2>3. stk' = [t EXCEPT ![m].cont = ep]
    BY <1>1, <1>2, <2>1, <2>2
  <2> QED BY <2>3 DEF Returned, t
<1> HIDE DEF ep
<1>11. /\ Whole(v, menv, dyn) /\ Len(v) = m /\ v[m] = Told(stk[m], ep)
       /\ \A j \in 1 .. m - 1 : v[j] = stk[j]
  BY <1>3, <1>5, <1>8, <1>9, ReturnedFacts
<1> HIDE DEF v
<1>12. /\ v[m].kind = stk[m].kind /\ v[m].role = stk[m].role /\ v[m].at = stk[m].at
       /\ v[m].cont = ep /\ v[m].starts = stk[m].starts /\ v[m].visible = stk[m].visible
  <2>1. stk[m] \in Frames
    BY <1>3, <1>5, StackFacts
  <2>2. /\ Told(stk[m], ep).kind = stk[m].kind /\ Told(stk[m], ep).role = stk[m].role
        /\ Told(stk[m], ep).at = stk[m].at /\ Told(stk[m], ep).cont = ep
        /\ Told(stk[m], ep).starts = stk[m].starts
        /\ Told(stk[m], ep).visible = stk[m].visible
    BY <1>9, <2>1, ToldFacts
  <2>3. v[m] = Told(stk[m], ep)
    BY <1>11
  <2> QED BY <2>2, <2>3
<1>13. /\ v \in Stack /\ DOMAIN v = 1 .. m
       /\ \A i \in DOMAIN v : i \in DOMAIN stk /\ (i = m \/ v[i] = stk[i])
       /\ \A i \in DOMAIN v : /\ v[i].kind = stk[i].kind /\ v[i].role = stk[i].role
                              /\ v[i].at = stk[i].at
  <2>1. v \in Stack /\ DOMAIN v = 1 .. m
    BY <1>11, StackFacts DEF Whole
  <2>2. \A i \in DOMAIN v : i \in DOMAIN stk /\ (i = m \/ v[i] = stk[i])
    BY <1>3, <1>4, <1>5, <1>11, <2>1
  <2> QED BY <1>12, <2>1, <2>2
<1>14. Disabled(stk) => Disabled(v)
  <2> SUFFICES ASSUME Disabled(stk), NEW h \in DOMAIN v, v[h].kind = "handle", ~v[h].visible
               PROVE  \E j \in DOMAIN v : v[j].role = "handler" /\ v[j].at = h
    BY DEF Disabled
  <2>1. h \in DOMAIN stk /\ stk[h].kind = "handle" /\ ~stk[h].visible
    <3>1. h # m
      BY <1>5, <1>12
    <3> QED BY <1>13, <3>1
  <2>2. PICK j \in DOMAIN stk : stk[j].role = "handler" /\ stk[j].at = h
    BY <2>1 DEF Disabled
  <2>3. j # n /\ j # k
    BY <1>3, <1>4, <2>2 DEF Fit, Shape
  <2>4. j \in DOMAIN v
    BY <1>6, <1>13, <2>3
  <2> QED BY <1>13, <2>2, <2>4
<1>15. ASSUME "again" \notin program, NEW i \in DOMAIN v PROVE Owing(v, i)
  <2> SUFFICES ASSUME v[i].kind = "guard" PROVE v[i - 1].cont = None
    BY DEF Owing
  <2>1. i \in DOMAIN stk /\ stk[i].kind = "guard" /\ i # m
    BY <1>5, <1>13, <1>15
  <2>2. i > 1
    BY <1>3, <2>1 DEF Fit, Shape
  <2>3. i - 1 \in 1 .. m - 1
    BY <1>5, <1>13, <1>15, <2>1, <2>2
  <2>4. v[i - 1] = stk[i - 1]
    BY <1>11, <2>3
  <2> QED BY <1>15, <2>1, <2>4 DEF Safe, Owing
<1>16. Unhooked'
  <2>1. \A i \in DOMAIN v : v[i].kind = "hook" => \E j \in DOMAIN stk : stk[j].kind = "hook"
    BY <1>13
  <2> QED BY <1>1, <1>10, <2>1 DEF Safe, Unhooked
<1>17. Completed'
  <2> SUFFICES ASSUME "fail" \notin program
               PROVE  AllClean(v) /\ dead \in {"", "unhandled", "reentry"} /\ Kept'
    BY <1>1, <1>10 DEF Completed
  <2>1. \A i \in DOMAIN stk : Clean(stk, i)
    BY DEF Safe, Completed, AllClean
  <2>2. ASSUME NEW i \in DOMAIN v, i # m PROVE Clean(v, i)
    <3>1. i \in Nat /\ (\A j \in 1 .. i - 1 : v[j] = stk[j]) /\ v[i] = stk[i]
      BY <1>5, <1>11, <1>13, <2>2
    <3>2. Clean(stk, i)
      BY <1>13, <2>1
    <3> QED BY <3>1, <3>2, CleanAgrees
  <2>3. ep \in {None, Unhandled} \cup Exits(v, m)
    <3>1. Exits(v, m) = Exits(stk, m)
      BY <1>11 DEF Exits
    <3>2. CASE stk[n].cont = None
      BY <1>5, <2>1, <3>1, <3>2 DEF Clean, ep
    <3>3. CASE stk[n].cont # None
      <4>1. stk[n].cont = Unhandled \/ stk[n].cont \in Exits(stk, n)
        BY <1>2, <2>1, <3>3 DEF Clean
      <4>2. ASSUME stk[n].cont \in Exits(stk, n) PROVE stk[n].cont \in Exits(stk, m)
        <5> DEFINE x == stk[n].cont
        <5>1. /\ x \in 1 .. n - 1
              /\ stk[x].kind = "block" \/ (stk[x].kind = "catch" /\ stk[x].visible)
          BY <4>2 DEF Exits
        <5> HIDE DEF x
        <5>2. x # k /\ x # m
          BY <1>4, <1>5, <5>1
        <5>3. x \in 1 .. m - 1
          BY <1>4, <1>5, <5>1, <5>2
        <5>4. x \in Exits(stk, m)
          BY <5>1, <5>3 DEF Exits
        <5> QED BY <5>4 DEF x
      <4> QED BY <3>1, <3>3, <4>1, <4>2 DEF ep
    <3> QED BY <3>2, <3>3
  <2>4. Clean(v, m)
    BY <1>5, <1>12, <2>1, <2>3 DEF Clean
  <2>5. Kept'
    <3>1. sexit' = stk[n].cont
      BY <1>1, <1>2 DEF Caught
    <3>2. stk' # <<>>
      <4>1. Len(v) # 0
        BY <1>5, <1>11
      <4> QED BY <1>10, <4>1
    <3>3. sexit' \in {None, ep}
      BY <3>1 DEF ep
    <3>4. "again" \notin program => sexit' = ep
      <4> SUFFICES ASSUME "again" \notin program, stk[n].cont = None PROVE stk[m].cont = None
        BY <3>1 DEF ep
      <4>1. Owing(stk, k)
        BY <1>4 DEF Safe
      <4> QED BY <1>4, <1>5, <4>1 DEF Owing
    <3>5. v[m].kind = "foreign" /\ v[m].cont = ep /\ Len(v) = m
      BY <1>5, <1>11, <1>12
    <3>6. \A i \in DOMAIN v : i = Len(v) =>
            v[i].kind = "foreign" /\ v[i].cont = ep
      BY <3>5
    <3> QED BY <1>1, <1>10, <3>2, <3>3, <3>4, <3>6 DEF Kept
  <2> QED BY <2>2, <2>4, <2>5 DEF AllClean, Safe, Completed
<1>18. Passed
  <2> SUFFICES ASSUME "fail" \notin program, NEW i \in DOMAIN stk, stk[i].kind = "catch",
                      i > m, stk[i].visible
               PROVE  FALSE
    BY <1>10, <1>11 DEF Passed
  <2>1. i # k
    BY <1>4
  <2>2. i = n
    <3>1. i \notin 1 .. m
      BY <1>5, <2>1
    <3> QED BY <1>6, <2>1, <3>1
  <2>3. Clean(stk, n)
    BY <1>2 DEF Safe, Completed, AllClean
  <2> QED BY <1>4, <2>2, <2>3 DEF Clean
<1>19. Capped(v)
  BY <1>5, <1>11, <1>12 DEF Capped
<1>20. sexit' \in Int
  BY <1>1, <1>2, <1>9 DEF Caught
<1> QED BY <1>1, <1>10, <1>11, <1>14, <1>15, <1>16, <1>17, <1>18, <1>19, <1>20 DEF Safe

-----------------------------------------------------------------------------
(* Every step.                                                             *)

\* No frame is that of a revived continuation.
LEMMA NoneCaptured ==
  ASSUME Safe
  PROVE  ~EndCaptured
<1> SUFFICES ASSUME EndCaptured PROVE FALSE
  OBVIOUS
<1>1. stk # <<>> /\ Top.kind = "captured"
  BY DEF EndCaptured
<1>2. PICK n \in Nat \ {0} :
        /\ n = Len(stk) /\ n \in DOMAIN stk /\ stk[n] \in Frames /\ Top = stk[n]
        /\ Below = SubSeq(stk, 1, n - 1) /\ Outer = SubSeq(stk, 1, n - 2)
  BY <1>1, TopFacts
<1>3. stk[n].kind \in Kinds
  BY <1>2 DEF Frames
<1> QED BY <1>1, <1>2, <1>3 DEF Kinds

\* The empty stack
LEMMA NoFrames == <<>> \in Stack /\ DOMAIN <<>> = {} /\ Len(<<>>) = 0 /\ Whole(<<>>, 0, 0)
<1>1. <<>> \in Stack /\ DOMAIN <<>> = {} /\ Len(<<>>) = 0
  BY DEF Stack
<1>2. Envs(<<>>) = {} /\ Binds(<<>>) = {}
  BY <1>1 DEF Envs, Binds
<1>3. Latest({}, 0, 0)
  BY DEF Latest
<1> QED BY <1>1, <1>2, <1>3 DEF Whole

LEMMA InitSafe ==
  ASSUME Init
  PROVE  Safe
<1>1. /\ stk = <<>> /\ menv = 0 /\ dyn = 0 /\ reentry = 0 /\ sexit = None /\ ~absconded
      /\ (hook <=> "hook" \in program) /\ dead = "" /\ program \in Programs
  BY DEF Init
<1>2. DOMAIN stk = {} /\ Whole(stk, menv, dyn)
  BY <1>1, NoFrames
<1>3. Capped(stk) /\ Disabled(stk) /\ AllClean(stk) /\ \A i \in DOMAIN stk : Owing(stk, i)
  BY <1>2 DEF Capped, Disabled, AllClean
<1>4. Kept
  BY <1>1, <1>2 DEF Kept
<1>5. Unhooked
  BY <1>1, <1>2 DEF Unhooked
<1>6. Completed
  BY <1>1, <1>3, <1>4 DEF Completed
<1>7. sexit \in Int
  <2>1. None \in Int
    BY DEF None
  <2>2. sexit = None
    BY <1>1
  <2> QED BY <2>1, <2>2, Zenon
<1> QED BY <1>1, <1>2, <1>3, <1>5, <1>6, <1>7 DEF Safe

LEMMA StutterKeeps ==
  ASSUME Safe, UNCHANGED vars
  PROVE  Safe' /\ Passed
<1>1. UNCHANGED <<stk, menv, dyn, reentry, sexit, hook, cont, dead, absconded, program>>
  BY DEF vars
<1>2. Safe'
  BY <1>1 DEF Safe, Unhooked, Completed, Kept
<1>3. \A i \in DOMAIN stk : ~(i > Len(stk))
  BY InLength DEF Safe, Whole
<1> QED BY <1>1, <1>2, <1>3 DEF Passed

\* A behaviour is that of one program.
LEMMA ProgramStays ==
  ASSUME [Next]_vars
  PROVE  program' = program
<1>1. CASE \E tag \in Tag : \/ PushBlock(tag) \/ Return(tag) \/ Capture(tag)
                           \/ Abscond(tag) \/ AbscondBarred(tag)
  BY <1>1 DEF PushBlock, Push, Return, Capture, Abscond, AbscondBarred
<1>2. CASE PushCatch({}) \/ \E syms \in Matches : PushCatch(syms) \/ PushHandler(syms)
  BY <1>2 DEF PushCatch, PushHandler, Push
<1>3. CASE PushMatchEnv \/ BindSpecial \/ CallForeign
  BY <1>3 DEF PushMatchEnv, BindSpecial, CallForeign, Push
<1>4. CASE End \/ EndBody \/ EndCleanup \/ HandlerEnd \/ HookEnd
  BY <1>4 DEF End, EndBody, EndCleanup, HandlerEnd, HookEnd
<1>5. CASE \E sym \in Sym : Throw(sym)
  BY <1>5 DEF Throw
<1>6. CASE Callback \/ CallbackEnd \/ ForeignReturn \/ ForeignFails
  BY <1>6 DEF Callback, CallbackEnd, ForeignReturn, ForeignFails
<1>7. CASE Revive \/ Poison \/ EndCaptured
  BY <1>7 DEF Revive, Poison, EndCaptured
<1>8. CASE UNCHANGED vars
  BY <1>8 DEF vars
<1> QED BY <1>1, <1>2, <1>3, <1>4, <1>5, <1>6, <1>7, <1>8 DEF Next

\* The invariant is inductive, and each step passes only frames that it may pass.
LEMMA StepKeeps ==
  ASSUME Uncaptured, Safe, [Next]_vars
  PROVE  Safe' /\ Passed
<1>1. "capture" \notin program
  BY DEF Uncaptured
<1>2. CASE \E tag \in Tag : \/ PushBlock(tag) \/ Return(tag) \/ Capture(tag)
                           \/ Abscond(tag) \/ AbscondBarred(tag)
  <2>1. PICK tag \in Tag : \/ PushBlock(tag) \/ Return(tag) \/ Capture(tag)
                           \/ Abscond(tag) \/ AbscondBarred(tag)
    BY <1>2
  <2>2. CASE PushBlock(tag)
    BY <2>2, PushesKeep
  <2>3. CASE Return(tag)
    BY <2>3, ReturnKeeps
  <2>4. CASE Abscond(tag)
    BY <2>4, AbscondKeeps
  <2>5. CASE AbscondBarred(tag)
    BY <2>5, AbscondBarredKeeps
  <2>6. ~Capture(tag)
    BY <1>1 DEF Capture
  <2> QED BY <2>1, <2>2, <2>3, <2>4, <2>5, <2>6
<1>3. CASE PushCatch({}) \/ \E syms \in Matches : PushCatch(syms) \/ PushHandler(syms)
  BY <1>3, PushesKeep
<1>4. CASE PushMatchEnv \/ BindSpecial \/ CallForeign
  BY <1>4, PushesKeep
<1>5. CASE End
  BY <1>5, EndKeeps
<1>6. CASE EndBody
  BY <1>6, EndBodyKeeps
<1>7. CASE EndCleanup
  BY <1>7, EndCleanupKeeps
<1>8. CASE \E sym \in Sym : Throw(sym)
  BY <1>8, ThrowKeeps
<1>9. CASE HandlerEnd
  BY <1>9, HandlerEndKeeps
<1>10. CASE HookEnd
  BY <1>10, HookEndKeeps
<1>11. CASE Callback
  BY <1>11, CallbackKeeps
<1>12. CASE CallbackEnd
  BY <1>12, CallbackEndKeeps
<1>13. CASE ForeignReturn
  BY <1>13, ForeignReturnKeeps
<1>14. CASE ForeignFails
  BY <1>14, ForeignFailsKeeps
<1>15. CASE UNCHANGED vars
  BY <1>15, StutterKeeps
<1>16. ~Revive /\ ~Poison /\ ~EndCaptured
  BY <1>1, NoneCaptured DEF Revive, Poison, Reviving
<1> QED
  BY <1>2, <1>3, <1>4, <1>5, <1>6, <1>7, <1>8, <1>9, <1>10, <1>11, <1>12, <1>13, <1>14,
     <1>15, <1>16
  DEF Next

-----------------------------------------------------------------------------
(* The theorems.                                                           *)

\* The program lets no foreign call fail.
Unfailing == "fail" \notin program

\* Foreign code that has seen a callback aborted calls back no more.
NeverAgain == "again" \notin program

\* The stack of unwind.c is sound in every run of a program that captures no
\* continuations: every frame fits the ones below it, dyn_env and uw_menv_stack are those
\* of the frames, and transfers have somewhere to go.
THEOREM StackSound == Spec /\ Uncaptured => [](Safe /\ Uncaptured)
<1>1. Init /\ Uncaptured => Safe /\ Uncaptured
  BY InitSafe
<1>2. Safe /\ Uncaptured /\ [Next]_vars => (Safe /\ Uncaptured)'
  BY StepKeeps, ProgramStays DEF Uncaptured
<1> QED BY <1>1, <1>2, PTL DEF Spec

LEMMA ContextIsKept ==
  ASSUME Safe
  PROVE  ContextKept
<1>1. /\ stk \in Stack /\ Latest(Envs(stk), Len(stk), menv)
      /\ Latest(Binds(stk), Len(stk), dyn)
  BY DEF Safe, Whole
<1> DEFINE bodies == {i \in DOMAIN stk : stk[i].role = "handler" /\ stk[i].phase = "body"}
<1>2. Len(stk) \in Nat /\ Envs(stk) \subseteq 1 .. Len(stk) /\ Binds(stk) \subseteq 1 .. Len(stk)
  BY <1>1, StackFacts
<1>3. menv = Max({0} \cup Envs(stk)) /\ dyn = Max({0} \cup Binds(stk))
  BY <1>1, <1>2, LatestIsMax
<1>4. Ids({"menv"}) = Envs(stk)
  BY DEF Ids, Envs
<1>5. {0} \cup Ids({"let"}) \cup bodies = {0} \cup Binds(stk)
  BY DEF Ids, Binds, Binding
<1> QED BY <1>3, <1>4, <1>5 DEF ContextKept

\* However control left the frames above, the matching environment and the dynamic
\* environment are those of the innermost form that is still running.
THEOREM ContextInvariance == Spec /\ Uncaptured => []ContextKept
<1>1. Spec /\ Uncaptured => []Safe
  BY StackSound, PTL
<1>2. Safe => ContextKept
  BY ContextIsKept
<1> QED BY <1>1, <1>2, PTL

LEMMA HandlersAreOff ==
  ASSUME Safe
  PROVE  HandlersOff
<1> SUFFICES ASSUME ~absconded, NEW i \in DOMAIN stk, stk[i].kind = "handle"
             PROVE  stk[i].visible <=>
                      ~\E j \in DOMAIN stk : stk[j].role = "handler" /\ stk[j].at = i
  BY DEF HandlersOff, Ids
<1>1. ASSUME NEW j \in DOMAIN stk, stk[j].role = "handler", stk[j].at = i
      PROVE  ~stk[i].visible
  BY <1>1 DEF Safe, Whole, Fit, Handler
<1>2. ASSUME ~stk[i].visible
      PROVE  \E j \in DOMAIN stk : stk[j].role = "handler" /\ stk[j].at = i
  BY <1>2 DEF Safe, Disabled
<1> QED BY <1>1, <1>2

\* A handler is disabled while its function runs, and at no other time, unless that was
\* absconded from.
THEOREM HandlersInvariance == Spec /\ Uncaptured => []HandlersOff
<1>1. Spec /\ Uncaptured => []Safe
  BY StackSound, PTL
<1>2. Safe => HandlersOff
  BY HandlersAreOff
<1> QED BY <1>1, <1>2, PTL

\* No transfer meets the guard of foreign code, loses its exit point or is taken for an
\* error within the error handling: only an unhandled error ends the process.
THEOREM NoAbortInvariance == Spec /\ Uncaptured => []NoAbort
<1>1. Spec /\ Uncaptured => []Safe
  BY StackSound, PTL
<1>2. Safe => NoAbort
  BY DEF Safe, Unhooked, Completed, NoAbort
<1> QED BY <1>1, <1>2, PTL

LEMMA TransferIsKept ==
  ASSUME NeverAgain, Safe
  PROVE  TransferKept
<1> SUFFICES ASSUME dead = "", "fail" \notin program
             PROVE  sexit = IF Foreign THEN Top.cont ELSE None
  BY DEF TransferKept
<1>1. Kept /\ "again" \notin program
  BY DEF Safe, Completed, NeverAgain
<1>2. CASE stk = <<>>
  BY <1>1, <1>2 DEF Kept, Foreign
<1>3. CASE stk # <<>>
  <2>1. PICK n \in Nat \ {0} :
          /\ n = Len(stk) /\ n \in DOMAIN stk /\ stk[n] \in Frames /\ Top = stk[n]
          /\ Below = SubSeq(stk, 1, n - 1) /\ Outer = SubSeq(stk, 1, n - 2)
    BY <1>3, TopFacts
  <2>2. IF stk[n].kind = "foreign" THEN sexit = stk[n].cont ELSE sexit = None
    BY <1>1, <2>1 DEF Kept
  <2> QED BY <1>3, <2>1, <2>2 DEF Foreign
<1> QED BY <1>2, <1>3

\* While foreign code runs, s_exit_point holds the transfer that its callback began;
\* otherwise it is null.
THEOREM TransferInvariance == Spec /\ Uncaptured /\ NeverAgain => []TransferKept
<1>1. Spec /\ Uncaptured => []Safe
  BY StackSound, PTL
<1>2. NeverAgain /\ [Next]_vars => NeverAgain'
  BY ProgramStays DEF NeverAgain
<1>3. Safe /\ NeverAgain => TransferKept
  BY TransferIsKept
<1> QED BY <1>1, <1>2, <1>3, PTL DEF Spec

LEMMA StepCleansUp ==
  ASSUME Uncaptured, Unfailing, Safe, [Next]_vars
  PROVE  /\ \A i \in DOMAIN stk :
              stk[i].kind = "catch" /\ i > Len(stk') => stk[i].starts = 1 \/ absconded'
         /\ \A i \in DOMAIN stk' : stk'[i].starts <= 1
<1>1. Safe' /\ Passed
  BY StepKeeps
<1>2. "fail" \notin program /\ ("fail" \notin program)'
  BY ProgramStays DEF Unfailing
<1>3. AllClean(stk) /\ AllClean(stk')
  BY <1>1, <1>2 DEF Safe, Completed
<1>4. ASSUME NEW i \in DOMAIN stk, stk[i].kind = "catch", i > Len(stk'), ~absconded'
      PROVE  stk[i].starts = 1
  <2>1. ~stk[i].visible /\ Clean(stk, i)
    BY <1>1, <1>2, <1>3, <1>4 DEF Passed, AllClean
  <2> QED BY <1>4, <2>1 DEF Clean
<1>5. ASSUME NEW i \in DOMAIN stk' PROVE stk'[i].starts <= 1
  <2>1. stk'[i].starts \in {0, 1}
    BY <1>3, <1>5 DEF AllClean, Clean
  <2> QED BY <2>1
<1> QED BY <1>4, <1>5

\* A catch frame leaves the stack only when its cleanup has begun, or by absconding, and
\* no cleanup begins twice, when no foreign call fails with a transfer in s_exit_point.
THEOREM CleanupsRunOnce == Spec /\ Uncaptured /\ Unfailing => Cleanups
<1>1. Spec /\ Uncaptured => [](Safe /\ Uncaptured)
  BY StackSound
<1>2. Unfailing /\ [Next]_vars => Unfailing'
  BY ProgramStays DEF Unfailing
<1>3. Uncaptured /\ Unfailing /\ Safe /\ [Next]_vars =>
        [/\ \A i \in DOMAIN stk :
              stk[i].kind = "catch" /\ i > Len(stk') => stk[i].starts = 1 \/ absconded'
         /\ \A i \in DOMAIN stk' : stk'[i].starts <= 1]_vars
  BY StepCleansUp
<1> QED BY <1>1, <1>2, <1>3, PTL DEF Spec, Cleanups
=============================================================================

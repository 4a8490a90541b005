------------------------------- MODULE Unwind -------------------------------
(***************************************************************************)
(* Nonlocal control transfer in unwind.c: the stack of unwind frames,      *)
(* which lie in the C stack and are linked by address, the search for a    *)
(* catch or a handler, unwinding with its cleanups, absconding, captured   *)
(* and revived continuations, and the transfers that callbacks of ffi.c    *)
(* pass across foreign code.                                               *)
(*                                                                         *)
(* A frame's address is its position in stk: a pointer to a frame that is  *)
(* gone may point to another that has taken its place.  Between two steps  *)
(* the program runs in the topmost frame, as it likes.                     *)
(***************************************************************************)
EXTENDS Integers, Sequences, FiniteSets, FiniteSetsExt

CONSTANTS
  Tag,        \* block names
  Matches,    \* what catches and handlers name: sets of exception symbols
  DepthMax,   \* bound: frames on the stack
  Programs    \* bound: what programs do, sets of "catch", "protect", "handle",
              \* "return", "menv", "let", "foreign", "again", "fail", "hook", "abscond",
              \* "capture", "pending"

ASSUME DepthAssumption == DepthMax \in Nat \ {0}

VARIABLES
  stk,        \* the frames, the outermost first: uw_stack is the last
  menv,       \* uw_menv_stack; 0: toplevel_env
  dyn,        \* dyn_env, named by the binding frame that made it; 0: none
  reentry,    \* reentry_count
  sexit,      \* s_exit_point of ffi.c
  hook,       \* *unhandled-hook* holds a function
  cont,       \* the continuation the program holds
  dead,       \* why the process has ended, "" while it runs
  absconded,  \* history: cleanups have been abandoned by absconding
  program     \* what this behaviour does, one of Programs

vars == <<stk, menv, dyn, reentry, sexit, hook, cont, dead, absconded, program>>

Unhandled == 0      \* the exit point &unhandled_ex
None      == -1     \* a null pointer to an exit point

\* "error" has the subtypes that must be handled; "restart" stands for the rest.
Sym == {"error", "restart"}

ASSUME MatchesAssumption == Matches \subseteq SUBSET Sym

Frame(kind) ==
  [kind |-> kind, tag |-> "", matches |-> {}, role |-> "", visible |-> TRUE,
   phase |-> "body", cont |-> None, dyn |-> dyn, env |-> 0, at |-> 0,
   sym |-> "", starts |-> 0]

NoCont == [base |-> 0, frames |-> <<>>, dyn |-> 0]

Top   == stk[Len(stk)]
Below == SubSeq(stk, 1, Len(stk) - 1)

\* A continuation needs room for its copies: those programs get less depth.
Room == IF "capture" \in program THEN DepthMax - 1 ELSE DepthMax

\* The program runs, not foreign code or the cleanup of unwind.c and ffi.c.
Running == /\ dead = ""
           /\ stk # <<>> => /\ Top.kind # "foreign"
                            /\ Top.role = "" \/ Top.phase = "body"

-----------------------------------------------------------------------------
(* Unwinding.                                                              *)

MenvOut_Kept(s, to, env) == env

\* The environment up from e.
Up(s, e) == IF e \in DOMAIN s THEN s[e].env ELSE 0

\* What becomes of uw_menv_stack, env, as the frames of s are passed: each MENV frame
\* takes it one environment up.
Menvs(s, env) ==
  LET f[n \in 0..Len(s)] == IF n = 0 THEN env
                            ELSE IF s[Len(s) + 1 - n].kind = "menv" THEN Up(s, f[n - 1])
                            ELSE f[n - 1]
  IN  f

\* The same, when the frames above to are passed.
MenvOut(s, to, env) == Menvs(s, env)[Len(s) - to]

Die(why) ==
  /\ dead' = why
  /\ UNCHANGED <<stk, menv, dyn>>

Stops_All(s, ep) == {i \in DOMAIN s : i > ep /\ s[i].kind = "catch"}

Stops_Matching(s, ep) ==
  {i \in DOMAIN s : /\ i > ep /\ s[i].kind = "catch" /\ s[i].visible
                    /\ s[i].matches # {}}

\* The catches that unwinding to ep stops at, for their cleanup.
Stops(s, ep) == {i \in DOMAIN s : i > ep /\ s[i].kind = "catch" /\ s[i].visible}

Bars(s, ep) == {i \in DOMAIN s : i > ep /\ s[i].kind = "guard"}

\* A catch as its cleanup begins, to go on to ep.
Cleaning(f, ep) == [f EXCEPT !.cont = ep, !.visible = FALSE, !.phase = "cleanup",
                             !.starts = @ + 1]

\* A catch as its clause is entered.
Entered(f) == [f EXCEPT !.matches = {}, !.phase = "clause"]

\* Where unwinding to ep first stops.
Landing(s, ep) == Max(Stops(s, ep) \cup Bars(s, ep) \cup {ep})

\* The exit point is reached.
Arrive(s, ep, env) ==
  CASE ep = Unhandled -> Die("unhandled")
    [] ep # Unhandled /\ s[ep].kind = "block" ->
         /\ stk' = SubSeq(s, 1, ep - 1)
         /\ menv' = MenvOut(s, ep, env)
         /\ dyn' = s[ep].dyn
         /\ UNCHANGED dead
    [] ep # Unhandled /\ s[ep].kind = "catch" ->
         /\ stk' = Append(SubSeq(s, 1, ep - 1), Entered(s[ep]))
         /\ menv' = MenvOut(s, ep, env)
         /\ dyn' = s[ep].dyn
         /\ UNCHANGED dead
    [] OTHER -> Die("lost")

\* The catch i stops a transfer to ep for its cleanup.
StopAt(s, i, ep, env) ==
  /\ stk' = Append(SubSeq(s, 1, i - 1), Cleaning(s[i], ep))
  /\ menv' = MenvOut(s, i, env)
  /\ dyn' = s[i].dyn
  /\ UNCHANGED dead

\* uw_unwind_to_exit_point, from the stack s and the environment env, as far as the
\* next cleanup.
LeaveFrom(s, ep, env) ==
  IF ep \notin 0..Len(s) THEN Die("lost")
  ELSE IF Landing(s, ep) = ep THEN Arrive(s, ep, env)
  ELSE IF s[Landing(s, ep)].kind = "guard" THEN Die("guard")
  ELSE StopAt(s, Landing(s, ep), ep, env)

Leave(s, ep) == LeaveFrom(s, ep, menv)

\* uw_catch_end, from the stack s that the catch c has been popped from.
Continue(s, c) ==
  IF c.cont = None THEN stk' = s /\ UNCHANGED <<menv, dyn, dead>>
  ELSE Leave(s, c.cont)

-----------------------------------------------------------------------------
(* Throwing.                                                               *)

\* The frames from pos down that take sym.
Hits(s, pos, sym) ==
  {i \in 1..pos : /\ s[i].kind \in {"catch", "handle"} /\ s[i].visible
                  /\ sym \in s[i].matches}

\* A handler, for the frame i, runs on top of the stack, in invoke_handler's catch
\* and with the package variables of the handler's frame bound.
Invoke(s, i, sym) ==
  /\ Len(s) + 2 <= Room
  /\ stk' = [s EXCEPT ![i].visible = FALSE]
              \o <<[Frame("throw") EXCEPT !.sym = sym, !.at = i],
                   [Frame("catch") EXCEPT !.role = "handler", !.at = i]>>
  /\ dyn' = Len(s) + 2
  /\ UNCHANGED <<menv, dead, reentry, hook>>

\* Nobody takes an error: the function in *unhandled-hook* is called.
CallHook(s) ==
  /\ Len(s) + 1 <= Room
  /\ stk' = Append(s, Frame("hook"))
  /\ hook' = FALSE
  /\ reentry' = reentry + 1
  /\ UNCHANGED <<menv, dyn, dead>>

\* The search of uw_rthrow for sym, from pos down, on the stack s.
Search(s, pos, sym) ==
  LET hits == Hits(s, pos, sym)
      i    == Max(hits)
  IN  CASE hits # {} /\ s[i].kind = "catch" -> Leave(s, i) /\ UNCHANGED <<reentry, hook>>
        [] hits # {} /\ s[i].kind = "handle" -> Invoke(s, i, sym)
        [] hits = {} /\ sym = "error" /\ hook -> CallHook(s)
        [] hits = {} /\ sym = "error" /\ ~hook ->
             Leave(s, Unhandled) /\ UNCHANGED <<reentry, hook>>
        [] OTHER ->
             stk' = s /\ UNCHANGED <<menv, dyn, dead, reentry, hook>>

\* uw_rthrow, on the stack s.
Raise(s, sym) ==
  IF reentry > 0 /\ sym = "error"
    THEN Die("reentry") /\ UNCHANGED <<reentry, hook>>
    ELSE Search(s, Len(s), sym)

Throw(sym) ==
  /\ Running
  /\ Raise(stk, sym)
  /\ UNCHANGED <<sexit, cont, absconded, program>>

Reenabled_Not(s, i) == s

Reenabled(s, i) == [s EXCEPT ![i].visible = TRUE]

\* The stack under the topmost frame and the one it was pushed with.
Outer == SubSeq(stk, 1, Len(stk) - 2)

\* The cleanup of invoke_handler; the search goes on unless a transfer does.
HandlerEnd ==
  /\ dead = "" /\ stk # <<>>
  /\ Top.role = "handler" /\ Top.phase = "cleanup"
  /\ LET s == Reenabled(Outer, Top.at)
         t == stk[Len(stk) - 1]
     IN  IF Top.cont # None
           THEN Leave(Append(s, t), Top.cont) /\ UNCHANGED <<reentry, hook>>
           ELSE Search(s, t.at - 1, t.sym)
  /\ UNCHANGED <<sexit, cont, absconded, program>>

-----------------------------------------------------------------------------
(* What the running program does next.                                     *)

Push(f) == /\ Running
           /\ Len(stk) < Room
           /\ stk' = Append(stk, f)
           /\ UNCHANGED <<reentry, sexit, hook, cont, dead, absconded, program>>

PushBlock(tag) ==
  Push([Frame("block") EXCEPT !.tag = tag]) /\ UNCHANGED <<menv, dyn>>

\* No matches: unwind-protect.
PushCatch(syms) ==
  /\ "catch" \in program \/ (syms = {} /\ "protect" \in program)
  /\ Push([Frame("catch") EXCEPT !.matches = syms])
  /\ UNCHANGED <<menv, dyn>>

PushHandler(syms) ==
  /\ "handle" \in program
  /\ Push([Frame("handle") EXCEPT !.matches = syms])
  /\ UNCHANGED <<menv, dyn>>

PushMatchEnv ==
  /\ "menv" \in program
  /\ Push([Frame("menv") EXCEPT !.env = menv])
  /\ menv' = Len(stk) + 1
  /\ UNCHANGED dyn

\* A special variable is bound in a new dynamic environment.
BindSpecial ==
  /\ "let" \in program
  /\ Push([Frame("let") EXCEPT !.env = dyn])
  /\ dyn' = Len(stk) + 1
  /\ UNCHANGED menv

\* The form of the topmost frame ends.
End ==
  /\ Running /\ stk # <<>>
  /\ Top.kind \in {"block", "handle", "menv", "let"}
  /\ IF Top.kind = "menv" /\ menv # Len(stk)
       THEN dead' = "assert" /\ UNCHANGED <<stk, menv, dyn>>
       ELSE /\ stk' = Below
            /\ menv' = IF Top.kind = "menv" THEN Top.env ELSE menv
            /\ dyn' = IF Top.kind = "let" THEN Top.env ELSE dyn
            /\ UNCHANGED dead
  /\ UNCHANGED <<reentry, sexit, hook, cont, absconded, program>>

\* dyn_env in the cleanup of a catch whose body has ended.
DynAfter(c) == IF c.role = "handler" THEN c.dyn ELSE dyn

\* The body, or the clause, of a catch ends: on to its cleanup.
EndBody ==
  /\ Running /\ stk # <<>>
  /\ Top.kind = "catch" /\ Top.phase # "cleanup"
  /\ stk' = Append(Below, Cleaning(Top, Top.cont))
  /\ dyn' = DynAfter(Top)
  /\ UNCHANGED <<menv, reentry, sexit, hook, cont, dead, absconded, program>>

EndCleanup ==
  /\ Running /\ stk # <<>>
  /\ Top.kind = "catch" /\ Top.phase = "cleanup"
  /\ Continue(Below, Top)
  /\ UNCHANGED <<reentry, sexit, hook, cont, absconded, program>>

\* The function in *unhandled-hook* returns to uw_rthrow.
HookEnd ==
  /\ Running /\ stk # <<>> /\ Top.kind = "hook"
  /\ reentry' = reentry - 1
  /\ Leave(Below, Unhandled)
  /\ UNCHANGED <<sexit, hook, cont, absconded, program>>

Named(tag, kinds) == {i \in DOMAIN stk : stk[i].kind \in kinds /\ stk[i].tag = tag}

Return(tag) ==
  /\ "return" \in program /\ Running
  /\ Named(tag, {"block"}) # {}
  /\ Leave(stk, Max(Named(tag, {"block"})))
  /\ UNCHANGED <<reentry, sexit, hook, cont, absconded, program>>

\* uw_block_abscond leaves without cleanup.
Abscond(tag) ==
  /\ "abscond" \in program /\ Running
  /\ Named(tag, {"block"}) # {}
  /\ LET b == Max(Named(tag, {"block"})) IN
     /\ Bars(stk, b) = {}
     /\ stk' = SubSeq(stk, 1, b - 1)
     /\ menv' = MenvOut(stk, b, menv)
     /\ dyn' = stk[b].dyn
     /\ absconded' = (absconded \/ Stops(stk, b) # {})
  /\ UNCHANGED <<reentry, sexit, hook, cont, dead, program>>

\* It throws when it meets foreign code before it has found the block.
AbscondBarred(tag) ==
  /\ "abscond" \in program /\ Running
  /\ Bars(stk, Max({0} \cup Named(tag, {"block"}))) # {}
  /\ Raise(stk, "error")
  /\ UNCHANGED <<sexit, cont, absconded, program>>

-----------------------------------------------------------------------------
(* Foreign code and its callbacks.                                         *)

CallForeign ==
  /\ "foreign" \in program
  /\ Push(Frame("foreign"))
  /\ UNCHANGED <<menv, dyn>>

Foreign == dead = "" /\ stk # <<>> /\ Top.kind = "foreign"

\* ffi_closure_dispatch_safe.  Foreign code that has seen a callback aborted calls
\* another only in a program that does so "again".
Callback ==
  /\ Foreign /\ Len(stk) + 2 <= Room
  /\ "again" \in program \/ Top.cont = None
  /\ sexit' = None
  /\ stk' = stk \o <<Frame("guard"), [Frame("catch") EXCEPT !.role = "callback"]>>
  /\ UNCHANGED <<menv, dyn, reentry, hook, cont, dead, absconded, program>>

Caught_Lost(c) == None

\* The transfer that a callback has stopped, in s_exit_point.
Caught(c) == c.cont

\* The callback's cleanup, and its return to the foreign code, which notes a
\* transfer it owes in its own frame (history).
CallbackEnd ==
  /\ dead = "" /\ stk # <<>>
  /\ Top.role = "callback" /\ Top.phase = "cleanup"
  /\ sexit' = Caught(Top)
  /\ stk' = [Outer EXCEPT ![Len(Outer)].cont = IF Top.cont = None THEN @ ELSE Top.cont]
  /\ UNCHANGED <<menv, dyn, reentry, hook, cont, dead, absconded, program>>

\* The end of ffi_call: the transfer goes on.
ForeignReturn ==
  /\ Foreign
  /\ sexit' = None
  /\ IF sexit = None THEN stk' = Below /\ UNCHANGED <<menv, dyn, dead>>
     ELSE Leave(Below, sexit)
  /\ UNCHANGED <<reentry, hook, cont, absconded, program>>

\* A conversion of the result throws before s_exit_point is looked at.
ForeignFails ==
  /\ "fail" \in program /\ Foreign
  /\ Raise(Below, "error")
  /\ UNCHANGED <<sexit, cont, absconded, program>>

-----------------------------------------------------------------------------
(* Continuations.                                                          *)

\* capture_cont copies the stack down to the block.  A transfer that is pending in
\* the copy, or a handler that runs in it, may lead out of it: a program that
\* captures those is "pending".
Capture(tag) ==
  LET blocks == Named(tag, {"block", "captured"})
      b      == Max(blocks)
      slice  == SubSeq(stk, b, Len(stk)) IN
  /\ "capture" \in program /\ Running
  /\ blocks # {} /\ Bars(stk, b) = {}
  /\ Len(slice) + 2 <= Room
  /\ \/ "pending" \in program
     \/ \A i \in DOMAIN slice : /\ slice[i].cont \in {None} \cup b + 1..Len(stk)
                                /\ slice[i].at \in {0} \cup b + 1..Len(stk)
  /\ cont' = [base |-> b, frames |-> slice, dyn |-> dyn]
  /\ UNCHANGED <<stk, menv, dyn, reentry, sexit, hook, dead, absconded, program>>

Reviving == /\ "capture" \in program /\ Running /\ cont # NoCont
            /\ Len(stk) + 1 + Len(cont.frames) <= Room

\* The stack with a copy of the continuation on top, its pointers moved with it.
Revived ==
  LET d        == Len(stk) + 2 - cont.base
      moved(x) == IF x >= cont.base THEN x + d ELSE x
      first    == [cont.frames EXCEPT ![1].kind = "captured"]
  IN  Append(stk, [Frame("block") EXCEPT !.tag = cont.frames[1].tag])
        \o [i \in DOMAIN first |->
              [first[i] EXCEPT !.cont = moved(@), !.at = moved(@),
                               !.env = IF first[i].kind = "menv" THEN moved(@) ELSE @]]

RevivedEnv == Max({menv} \cup {i \in DOMAIN Revived :
                                 i > Len(stk) /\ Revived[i].kind = "menv"})

\* revive_cont: the program goes on where the continuation was captured.
Revive ==
  /\ Reviving
  /\ stk' = Revived
  /\ menv' = RevivedEnv
  /\ dyn' = cont.dyn
  /\ UNCHANGED <<reentry, sexit, hook, cont, dead, absconded, program>>

\* revive_cont with sys:cont-poison: the continuation is only unwound.
Poison ==
  /\ Reviving
  /\ LeaveFrom(Revived, Len(stk) + 1, RevivedEnv)
  /\ UNCHANGED <<reentry, sexit, hook, cont, absconded, program>>

\* uw_pop_block of a revived delimiting block returns from revive_cont.
EndCaptured ==
  /\ Running /\ stk # <<>> /\ Top.kind = "captured"
  /\ Leave(Below, Len(stk) - 1)
  /\ UNCHANGED <<reentry, sexit, hook, cont, absconded, program>>

-----------------------------------------------------------------------------
Init ==
  /\ program \in Programs
  /\ stk = <<>> /\ menv = 0 /\ dyn = 0 /\ reentry = 0 /\ sexit = None
  /\ hook = ("hook" \in program)
  /\ cont = NoCont /\ dead = "" /\ absconded = FALSE

Next ==
  \/ \E tag \in Tag : \/ PushBlock(tag) \/ Return(tag) \/ Capture(tag)
                      \/ Abscond(tag) \/ AbscondBarred(tag)
  \/ PushCatch({}) \/ \E syms \in Matches : PushCatch(syms) \/ PushHandler(syms)
  \/ PushMatchEnv \/ BindSpecial \/ End \/ EndBody \/ EndCleanup
  \/ \E sym \in Sym : Throw(sym)
  \/ HandlerEnd \/ HookEnd
  \/ CallForeign \/ Callback \/ CallbackEnd \/ ForeignReturn \/ ForeignFails
  \/ Revive \/ Poison \/ EndCaptured

Spec == Init /\ [][Next]_vars

-----------------------------------------------------------------------------
(* Properties.                                                             *)

Ids(kinds) == {i \in DOMAIN stk : stk[i].kind \in kinds}

\* However control left the frames above, the pattern matching environment and the
\* dynamic environment are those of the innermost form that is still running (what
\* a continuation brings along apart).
ContextKept ==
  dead = "" =>
    /\ menv = Max({0} \cup Ids({"menv"}))
    /\ "capture" \notin program =>
         dyn = Max({0} \cup Ids({"let"})
                     \cup {i \in DOMAIN stk : stk[i].role = "handler"
                                              /\ stk[i].phase = "body"})

\* A catch frame leaves the stack only when its cleanup has begun, or by absconding,
\* and no cleanup begins twice, whatever transfers meet or replace each other on the
\* way.
Cleanups ==
  [][/\ \A i \in DOMAIN stk :
          stk[i].kind = "catch" /\ i > Len(stk') => stk[i].starts = 1 \/ absconded'
     /\ \A i \in DOMAIN stk' : stk'[i].starts <= 1]_vars

\* "While a handler's function is executing, the handler is disabled", and at no
\* other time, unless it has absconded.
HandlersOff ==
  ~absconded =>
    \A i \in Ids({"handle"}) :
      stk[i].visible <=> ~\E j \in DOMAIN stk : stk[j].role = "handler" /\ stk[j].at = i

\* The process ends only for an unhandled error: no transfer meets the guard of
\* foreign code, loses its exit point, fails an assertion or is taken for an error
\* within the error handling.
NoAbort ==
  program \cap {"hook", "fail"} = {} =>
    dead \in {"", "unhandled"} /\ (dead = "" => reentry = 0)

\* While foreign code runs, s_exit_point holds the transfer that its callback began,
\* which goes on when the code returns; otherwise it is null.
TransferKept ==
  dead = "" /\ "fail" \notin program => sexit = IF Foreign THEN Top.cont ELSE None
=============================================================================

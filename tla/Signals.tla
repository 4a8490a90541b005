------------------------------ MODULE Signals ------------------------------
(***************************************************************************)
(* Signal handling (signal.c, signal.h): asynchronous and deferred calls   *)
(* of Lisp handlers, the cached signal mask, and what a non-local exit     *)
(* restores (extjmp_save and extjmp_restore of unwind.c).                  *)
(*                                                                         *)
(* The process has one thread.  stack is its control stack, reduced to the *)
(* C activations that save something; Lisp code runs when the innermost    *)
(* activation is one that calls it.  A signal may arrive between any two   *)
(* steps, whenever the kernel's mask lets it through.                      *)
(***************************************************************************)
EXTENDS Integers, Sequences, FiniteSets

CONSTANTS
  Sig,         \* the signal numbers in use
  Exc,         \* those is_cpu_exception picks out
  Unmaskable,  \* those no mask can hold back (SIGKILL, SIGSTOP)
  DepthMax,    \* bound: activations on the stack
  Program      \* bound: what the program does: "catch", "set", "remove",
               \* "bad-set", "throw", "io"

ASSUME SignalAssumption ==
  /\ Sig \subseteq 1..31 /\ IsFiniteSet(Sig)
  /\ Exc \subseteq Sig /\ Unmaskable \subseteq Sig
  /\ Unmaskable \cap Exc = {} /\ Unmaskable # {}
  /\ DepthMax \in Nat
  /\ Program \subseteq {"catch", "set", "remove", "bad-set", "throw", "io"}

VARIABLES
  lambda,      \* sig_lambda, and with it the disposition the kernel has
  deferred,    \* sig_deferred
  async,       \* async_sig_enabled
  ic,          \* interrupt_count
  cache,       \* sig_blocked_cache
  mask,        \* the mask the kernel has
  gc,          \* gc_enabled
  limit,       \* whether gc_stack_limit is set
  stack,       \* the activations, innermost last
  throwing     \* between two stops of uw_unwind_to_exit_point

flags == <<async, ic, gc, limit>>
masks == <<cache, mask>>
vars == <<lambda, deferred, flags, masks, stack, throwing>>

Maskable == Sig \ Unmaskable

\* What sig_lambda holds: t and nil are the default disposition and none.
Spec3 == {"t", "nil", "fun"}

CatchFrame == [kind : {"catch"}, se : BOOLEAN, gc : BOOLEAN,
               blocked : SUBSET Sig]
IsrFrame   == [kind : {"isr"}, sig : Maskable, ic : Nat, as : BOOLEAN,
               gc : BOOLEAN, limit : BOOLEAN, blocked : SUBSET Sig,
               old : SUBSET Maskable]
CheckFrame == [kind : {"check"}, sd : SUBSET Maskable]
CallFrame  == [kind : {"call"}, sig : Maskable, fun : Spec3]
SetFrame   == [kind : {"set"}, saved : SUBSET Sig]
IoFrame    == [kind : {"enter-io", "io"}, save : BOOLEAN]

Frame == CatchFrame \cup IsrFrame \cup CheckFrame \cup CallFrame
         \cup SetFrame \cup IoFrame

TypeOK ==
  /\ lambda \in [Maskable -> Spec3]
  /\ deferred \subseteq Maskable
  /\ async \in BOOLEAN /\ ic \in Nat /\ gc \in BOOLEAN /\ limit \in BOOLEAN
  /\ cache \subseteq Sig /\ mask \subseteq Maskable
  /\ stack \in Seq(Frame)
  /\ throwing \in BOOLEAN

Init ==
  /\ lambda = [s \in Maskable |-> "t"]
  /\ deferred = {}
  /\ async = FALSE /\ ic = 0 /\ gc = TRUE /\ limit = TRUE
  /\ cache = {} /\ mask = {}
  /\ stack = <<>> /\ throwing = FALSE

-----------------------------------------------------------------------------
(* The control stack.                                                      *)

Room(n) == Len(stack) + n <= DepthMax

\* The innermost activation; the main program when there is none.
Top == IF stack = <<>> THEN [kind |-> "main"] ELSE stack[Len(stack)]

Popped == SubSeq(stack, 1, Len(stack) - 1)
Pushed(f) == Append(stack, f)

\* Lisp code is running.
Running ==
  /\ ~throwing
  /\ \/ Top.kind \in {"main", "catch", "isr"}
     \/ Top.kind = "call" /\ Top.fun = "fun"

OnStack(kind) == \E i \in DOMAIN stack : stack[i].kind = kind

-----------------------------------------------------------------------------
(* The mask.                                                               *)

SetMask_Forgetful(s) == cache' = s /\ UNCHANGED mask

\* sig_mask(SIG_SETMASK, s, 0): the kernel is called only when the cache
\* says that something changes.
SetMask(s) ==
  /\ cache' = s
  /\ mask' = IF cache = s THEN mask ELSE s \cap Maskable

\* Every signal is blocked in the handler (sigfillset of sa_mask).
HandlerMask == Maskable

-----------------------------------------------------------------------------
(* A signal is caught.                                                     *)

\* !in_interrupt && async_sig_enabled, which a processor exception sets.
Interruptible(s) == ic = 0 /\ (async \/ s \in Exc)

Caught(s) == s \notin mask /\ lambda[s] = "fun"

\* sig_handler when it calls the function: as far as the call.
Interrupt(s) ==
  /\ Caught(s) /\ Interruptible(s) /\ Room(1)
  /\ mask' = HandlerMask
  /\ cache' = HandlerMask
  /\ ic' = ic + 1
  /\ gc' = (gc /\ s \notin Exc)
  /\ limit' = (limit /\ s \notin Exc)
  /\ async' = FALSE
  /\ stack' = Pushed([kind |-> "isr", sig |-> s, ic |-> ic, as |-> async,
                      gc |-> gc, limit |-> limit, blocked |-> HandlerMask,
                      old |-> mask])
  /\ UNCHANGED <<lambda, deferred, throwing>>

\* sig_handler when it only records the signal.  The cache has been reloaded
\* with the handler's mask; returning puts back the kernel's mask only.
Defer(s) ==
  /\ Caught(s) /\ ~Interruptible(s)
  /\ deferred' = deferred \cup {s}
  /\ cache' = HandlerMask
  /\ UNCHANGED <<lambda, flags, mask, stack, throwing>>

GcAfterIsr_Kept(f) == gc

\* gc_state(gc)
GcAfterIsr(f) == IF f.sig \in Exc THEN f.gc ELSE gc

\* The function returns to sig_handler, and that to the interrupted code.
IsrReturn(again) ==
  /\ Running /\ Top.kind = "isr"
  /\ deferred' = IF again THEN deferred \cup {Top.sig} ELSE deferred
  /\ async' = IF Top.sig \in Exc THEN Top.as ELSE TRUE
  /\ gc' = GcAfterIsr(Top)
  /\ limit' = IF Top.sig \in Exc THEN Top.limit ELSE limit
  /\ ic' = Top.ic
  /\ mask' = Top.old
  /\ stack' = Popped
  /\ UNCHANGED <<lambda, cache, throwing>>

-----------------------------------------------------------------------------
(* sig_check.                                                              *)

\* Reads sig_deferred.
BeginCheck ==
  /\ Running /\ deferred # {} /\ Room(2)
  /\ stack' = Pushed([kind |-> "check", sd |-> deferred])
  /\ UNCHANGED <<lambda, deferred, flags, masks, throwing>>

Lowest(S) == CHOOSE s \in S : \A r \in S : s <= r

Remaining_All(sd, s) == sd

\* What the loop stores in sig_deferred before it calls the function.
Remaining(sd, s) == sd \ {s}

CheckNext ==
  /\ ~throwing /\ Top.kind = "check" /\ Top.sd # {}
  /\ LET s == Lowest(Top.sd)
     IN /\ deferred' = Remaining(Top.sd, s)
        /\ stack' = Append(Append(Popped, [Top EXCEPT !.sd = @ \ {s}]),
                           [kind |-> "call", sig |-> s, fun |-> lambda[s]])
  /\ UNCHANGED <<lambda, flags, masks, throwing>>

CallReturn ==
  /\ Running /\ Top.kind = "call"
  /\ stack' = Popped
  /\ UNCHANGED <<lambda, deferred, flags, masks, throwing>>

CheckDone ==
  /\ ~throwing /\ Top.kind = "check" /\ Top.sd = {}
  /\ stack' = Popped
  /\ UNCHANGED <<lambda, deferred, flags, masks, throwing>>

-----------------------------------------------------------------------------
(* set-sig-handler.                                                        *)

\* Blocks every signal.
BeginSet ==
  /\ "set" \in Program
  /\ Running /\ Room(1)
  /\ SetMask(Sig)
  /\ stack' = Pushed([kind |-> "set",
                      saved |-> IF cache = Sig THEN cache ELSE mask])
  /\ UNCHANGED <<lambda, deferred, flags, throwing>>

\* A signal whose function is removed is no longer deferred.
Cleared(s, spec) ==
  IF spec # lambda[s] /\ spec # "fun" THEN deferred \ {s} ELSE deferred

FinishSet(s, spec) ==
  /\ ~throwing /\ Top.kind = "set"
  /\ spec # "fun" => "remove" \in Program
  /\ deferred' = Cleared(s, spec)
  /\ lambda' = [lambda EXCEPT ![s] = spec]
  /\ SetMask(Top.saved)
  /\ stack' = Popped
  /\ UNCHANGED <<flags, throwing>>

-----------------------------------------------------------------------------
(* sig_save_enable ... sig_restore_enable around a blocking system call.   *)

\* sig_save, and the call of sig_check when signals were not enabled.
BeginIo ==
  /\ "io" \in Program
  /\ Running /\ Room(3)
  /\ LET io == Pushed([kind |-> "enter-io", save |-> async])
     IN stack' = IF ~async /\ deferred # {}
                 THEN Append(io, [kind |-> "check", sd |-> deferred])
                 ELSE io
  /\ UNCHANGED <<lambda, deferred, flags, masks, throwing>>

\* async_sig_enabled = 1.
EnterIo ==
  /\ ~throwing /\ Top.kind = "enter-io"
  /\ async' = TRUE
  /\ stack' = Append(Popped, [Top EXCEPT !.kind = "io"])
  /\ UNCHANGED <<lambda, deferred, ic, gc, limit, masks, throwing>>

\* sig_restore_enable
Restored(f) == f.save

EndIo ==
  /\ ~throwing /\ Top.kind = "io"
  /\ async' = Restored(Top)
  /\ stack' = Popped
  /\ UNCHANGED <<lambda, deferred, ic, gc, limit, masks, throwing>>

-----------------------------------------------------------------------------
(* Non-local exits.                                                        *)

\* uw_push_catch and extended_setjmp
EnterCatch ==
  /\ "catch" \in Program
  /\ Running /\ Room(3)
  /\ stack' = Pushed([kind |-> "catch", se |-> async, gc |-> gc,
                      blocked |-> cache])
  /\ UNCHANGED <<lambda, deferred, flags, masks, throwing>>

LeaveCatch ==
  /\ Running /\ Top.kind = "catch"
  /\ stack' = Popped
  /\ UNCHANGED <<lambda, deferred, flags, masks, throwing>>

\* The code that can throw: Lisp code, sig_check calling something that is
\* not a function, and set_sig_handler refusing its arguments.
Throws ==
  \/ throwing
  \/ Running /\ "throw" \in Program
  \/ Top.kind = "call" /\ Top.fun # "fun"
  \/ Top.kind = "set" /\ "bad-set" \in Program

\* The next stop of uw_unwind_to_exit_point.
Stop == CHOOSE i \in DOMAIN stack :
          /\ stack[i].kind \in {"catch", "isr"}
          /\ \A j \in i + 1 .. Len(stack) : stack[j].kind \notin {"catch", "isr"}

CountAfter_Kept(f) == ic

\* uw_unwind { interrupt_count = ic; }
CountAfter(f) == f.ic

\* A catch frame, which catches or cleans up and throws again.
Throw ==
  /\ Throws /\ OnStack("catch")
  /\ stack[Stop].kind = "catch"
  /\ LET f == stack[Stop]
     IN async' = f.se /\ gc' = f.gc /\ SetMask(f.blocked)
  /\ stack' = SubSeq(stack, 1, Stop - 1)
  /\ throwing' = FALSE
  /\ UNCHANGED <<lambda, deferred, ic, limit>>

\* gc_enabled as extended_setjmp saved it in sig_handler.
GcAfter(f) == f.gc /\ f.sig \notin Exc

\* The catch of sig_handler, which cleans up and goes on unwinding.
ThrowFromIsr ==
  /\ Throws /\ OnStack("catch")
  /\ stack[Stop].kind = "isr"
  /\ LET f == stack[Stop]
     IN /\ ic' = CountAfter(f)
        /\ gc' = GcAfter(f)
        /\ SetMask(f.blocked)
  /\ async' = TRUE
  /\ stack' = SubSeq(stack, 1, Stop - 1)
  /\ throwing' = TRUE
  /\ UNCHANGED <<lambda, deferred, limit>>

-----------------------------------------------------------------------------
Arrival == \E s \in Maskable : Interrupt(s) \/ Defer(s)

Next ==
  \/ Arrival
  \/ \E again \in BOOLEAN : IsrReturn(again)
  \/ BeginCheck \/ CheckNext \/ CallReturn \/ CheckDone
  \/ BeginSet \/ \E s \in Maskable, spec \in Spec3 : FinishSet(s, spec)
  \/ BeginIo \/ EnterIo \/ EndIo
  \/ EnterCatch \/ LeaveCatch \/ Throw \/ ThrowFromIsr

Spec == Init /\ [][Next]_vars

\* What ends the innermost activation, or brings its end nearer.
Progress ==
  \/ CheckNext \/ CheckDone \/ CallReturn \/ IsrReturn(FALSE)
  \/ LeaveCatch \/ EnterIo \/ EndIo \/ \E s \in Maskable : FinishSet(s, "fun")
  \/ Throw \/ ThrowFromIsr

\* Lisp code goes on running: it reaches sig_check_fast, in every call of a
\* function, again and again, and sig_check comes to call something.  What is
\* at any depth of the stack ends, by a return or by a throw.
Fairness ==
  /\ SF_vars(BeginCheck) /\ SF_vars(CheckNext)
  /\ \A d \in 1 .. DepthMax : SF_vars(Len(stack) = d /\ Progress)

FairSpec == Spec /\ Fairness

-----------------------------------------------------------------------------
(* Properties.                                                             *)

Isrs == {i \in DOMAIN stack : stack[i].kind = "isr"}
CpuIsrs == {i \in Isrs : stack[i].sig \in Exc}

\* No signal is let through while a handler runs asynchronously, nor while
\* its frames are unwound (sa_mask, and what extended_setjmp saved): a
\* handler is never entered from another signal's asynchronous handler.
IsrsBlocked ==
  /\ Isrs # {} \/ throwing => mask = Maskable
  /\ Cardinality(Isrs) <= 1

\* set_sig_handler changes sig_lambda and sig_deferred with every signal
\* blocked, whatever the cached mask was when it began.
SetBlocked == Top.kind = "set" => mask = Maskable

AllBlocked == IsrsBlocked /\ SetBlocked

\* What make_obj, cons and copy_obj assert: no Lisp code runs, so nothing is
\* allocated, with asynchronous handlers enabled; however it was reached.
AsyncOnlyInIo == async => Top.kind = "io" \/ throwing

\* interrupt_count counts the activations of sig_handler that call a
\* function, through returns and non-local exits: a stale count would defer
\* every signal for ever.
CountExact == ic = Cardinality(Isrs)

\* Collection is off exactly while a processor exception is being handled.
GcRestored == throwing \/ (gc <=> CpuIsrs = {})

\* A deferred signal stops being one when its function is called, and when
\* the function is removed; by nothing else.
DeferredKept ==
  [][\A s \in deferred \ deferred' :
       \/ Top'.kind = "call" /\ Top'.sig = s /\ Top'.fun = "fun"
       \/ lambda[s] = "fun" /\ lambda'[s] # "fun"]_vars

\* Two restrictions on what happens, under which DeferredKept holds.

\* A signal that is deferred while sig_check has other signals to call is one
\* of those that it still has to call.
Timely ==
  \A s \in deferred' \ deferred : \A i \in DOMAIN stack :
    stack[i].kind = "check" /\ stack[i].sd # {} => s \in stack[i].sd

\* The activation is about to call the function of s, or to defer s.
About(f, s) ==
  \/ f.kind = "check" /\ s \in f.sd
  \/ f.kind = "isr" /\ f.sig = s

\* No function is removed while an activation is about its signal.
Orderly ==
  \A s \in Maskable : lambda[s] = "fun" /\ lambda'[s] # "fun" =>
    \A i \in DOMAIN stack : ~About(stack[i], s)

\* sig_check calls only functions: what is deferred has one.
CallsFunctions == \A i \in DOMAIN stack :
  stack[i].kind = "call" => stack[i].fun = "fun"

\* A signal that has a function and is not inside a handler or a change of
\* handlers is let through.
EnabledOpen ==
  Isrs = {} /\ ~OnStack("set") /\ ~throwing =>
    \A s \in Maskable : lambda[s] = "fun" => s \notin mask

\* The stack-overflow guard is off only while a processor exception is
\* being handled.
GuardKept == limit \/ CpuIsrs # {}

\* A throw that nothing catches ends the program.
Ended ==
  /\ throwing \/ (Top.kind = "call" /\ Top.fun # "fun")
  /\ ~OnStack("catch")

\* The signal with the lowest number does not stay deferred for ever:
\* sig_check, called by Lisp code wherever it calls a function or waits, gets
\* round to it, unless its function is removed, a copy of sig_deferred is
\* stored over it (DeferredKept fails), or the program ends.  A higher one can
\* wait for ever: sig_check begins with the lowest again after each throw.
DeferredHandled ==
  LET s == Lowest(Maskable)
  IN s \in deferred ~> (s \notin deferred \/ Ended)
=============================================================================

--------------------------- MODULE SignalsProofs ---------------------------
(***************************************************************************)
(* The signal code keeps its masks, its count of running handlers and the  *)
(* collector's switch right for every set of signals, every depth of       *)
(* activations and every interleaving of arrivals, system calls, changes   *)
(* of handlers and non-local exits.                                        *)
(*                                                                         *)
(* What makes it so is what the activations save.  A catch entered inside  *)
(* an asynchronous handler saves the full mask and the state of the        *)
(* collector in the handler; one entered outside saves what holds outside  *)
(* (CatchFits).  A handler is entered from no handler, so it saves a count *)
(* of zero and an enabled collector (IsrFits).  A change of handlers is    *)
(* always innermost (SetFits).  These are facts about a frame and those    *)
(* below it only, so entering and leaving activations preserves them, and  *)
(* an exit that drops any number of activations does too.  The rest of the *)
(* invariant relates the current mask, cache, count and switch to whether  *)
(* the stack holds a handler.                                              *)
(***************************************************************************)
EXTENDS Signals, LeastNumber, SequenceTheorems, FiniteSetTheorems

\* An asynchronous handler is below activation i; a processor exception's.
IsrBelow(st, i) == \E j \in 1 .. i - 1 : st[j].kind = "isr"
CpuBelow(st, i) ==
  \E j \in 1 .. i - 1 : st[j].kind = "isr" /\ st[j].sig \in Exc

\* What a catch saves: the mask and the switch that hold below it.
CatchFits(st, i) ==
  st[i].kind = "catch" =>
    /\ st[i].blocked # Sig
    /\ IsrBelow(st, i) => st[i].blocked = Maskable
    /\ st[i].gc <=> ~CpuBelow(st, i)

\* What sig_handler saves when it calls a function.
IsrFits(st, i) ==
  st[i].kind = "isr" =>
    /\ ~IsrBelow(st, i)
    /\ st[i].ic = 0 /\ st[i].gc /\ st[i].blocked = Maskable

\* set_sig_handler calls nothing, and saves a mask that lets signals through
\* unless a handler runs.
SetFits(st, i) ==
  st[i].kind = "set" =>
    /\ i = Len(st)
    /\ st[i].saved # Sig
    /\ IsrBelow(st, i) => st[i].saved = Maskable

\* Every activation saves what it should.
Fits(st) ==
  \A i \in DOMAIN st : CatchFits(st, i) /\ IsrFits(st, i) /\ SetFits(st, i)

\* An asynchronous handler runs; one of a processor exception.
Inside == IsrBelow(stack, Len(stack) + 1)
InsideCpu == CpuBelow(stack, Len(stack) + 1)

\* The cached mask and the kernel's.
MaskInv ==
  /\ cache = Sig <=> Top.kind = "set"
  /\ Inside => cache = Maskable \/ Top.kind = "set"
  /\ Inside \/ throwing \/ Top.kind = "set" => mask = Maskable
  /\ throwing => ~Inside

\* interrupt_count.
CountInv == ic = IF Inside THEN 1 ELSE 0

\* gc_enabled.
GcInv == throwing \/ (gc <=> ~InsideCpu)

\* The inductive invariant.
IInv == TypeOK /\ Fits(stack) /\ MaskInv /\ CountInv /\ GcInv

\* Dropping activations from the top keeps the others right.
LEMMA PrefixFits ==
  ASSUME NEW st \in Seq(Frame), Fits(st), NEW k \in 0 .. Len(st)
  PROVE  LET p == SubSeq(st, 1, k)
         IN  /\ p \in Seq(Frame) /\ Len(p) = k
             /\ \A i \in 1 .. k : p[i] = st[i]
             /\ Fits(p)
             /\ k < Len(st) => \A i \in 1 .. k : st[i].kind # "set"
             /\ \A i \in 1 .. k + 1 : IsrBelow(p, i) <=> IsrBelow(st, i)
             /\ \A i \in 1 .. k + 1 : CpuBelow(p, i) <=> CpuBelow(st, i)
<1> DEFINE p == SubSeq(st, 1, k)
<1>0. Len(st) \in Nat /\ DOMAIN st = 1 .. Len(st) /\ k \in Nat
  BY LenProperties
<1>1. \A i \in 1 .. k : st[i] \in Frame
  BY <1>0, ElementOfSeq
<1>2. p \in Seq(Frame) /\ Len(p) = k /\ \A i \in 1 .. k : p[i] = st[i]
  BY <1>0, <1>1, SubSeqProperties
<1>3. DOMAIN p = 1 .. k
  BY <1>2, LenProperties
<1> HIDE DEF p
<1>4. \A i \in 1 .. k + 1 : (IsrBelow(p, i) <=> IsrBelow(st, i))
                         /\ (CpuBelow(p, i) <=> CpuBelow(st, i))
  BY <1>0, <1>2 DEF IsrBelow, CpuBelow
<1>5. ASSUME k < Len(st), NEW i \in 1 .. k PROVE st[i].kind # "set"
  BY <1>0, <1>5 DEF Fits, SetFits
<1>6. Fits(p)
  <2> SUFFICES ASSUME NEW i \in 1 .. k
               PROVE  CatchFits(p, i) /\ IsrFits(p, i) /\ SetFits(p, i)
    BY <1>3 DEF Fits
  <2>1. /\ CatchFits(st, i) /\ IsrFits(st, i) /\ SetFits(st, i)
        /\ p[i] = st[i] /\ i \in 1 .. k + 1
    BY <1>0, <1>2 DEF Fits
  <2>2. CatchFits(p, i) /\ IsrFits(p, i)
    BY <1>4, <2>1 DEF CatchFits, IsrFits
  <2>3. SetFits(p, i)
    BY <1>0, <1>2, <1>4, <1>5, <2>1 DEF SetFits
  <2> QED BY <2>2, <2>3
<1> QED BY <1>2, <1>4, <1>5, <1>6 DEF p

\* Entering an activation that saves what it should.
LEMMA PushFits ==
  ASSUME NEW st \in Seq(Frame), Fits(st), NEW f \in Frame,
         \A i \in 1 .. Len(st) : st[i].kind # "set",
         f.kind = "catch" =>
           /\ f.blocked # Sig
           /\ IsrBelow(st, Len(st) + 1) => f.blocked = Maskable
           /\ f.gc <=> ~CpuBelow(st, Len(st) + 1),
         f.kind = "isr" =>
           /\ ~IsrBelow(st, Len(st) + 1)
           /\ f.ic = 0 /\ f.gc /\ f.blocked = Maskable,
         f.kind = "set" =>
           /\ f.saved # Sig
           /\ IsrBelow(st, Len(st) + 1) => f.saved = Maskable
  PROVE  LET p == Append(st, f)
         IN  /\ p \in Seq(Frame) /\ Len(p) = Len(st) + 1
             /\ p # <<>> /\ p[Len(p)] = f
             /\ Fits(p)
             /\ \A i \in 1 .. Len(st) : p[i] = st[i]
             /\ IsrBelow(p, Len(p) + 1) <=>
                  IsrBelow(st, Len(st) + 1) \/ f.kind = "isr"
             /\ CpuBelow(p, Len(p) + 1) <=>
                  \/ CpuBelow(st, Len(st) + 1)
                  \/ f.kind = "isr" /\ f.sig \in Exc
<1> DEFINE p == Append(st, f)
           n == Len(st)
<1>0. n \in Nat /\ DOMAIN st = 1 .. n
  BY LenProperties
<1>1. /\ p \in Seq(Frame) /\ Len(p) = n + 1 /\ p # <<>>
      /\ p[n + 1] = f /\ \A i \in 1 .. n : p[i] = st[i]
  BY <1>0, AppendProperties
<1>2. DOMAIN p = 1 .. n + 1
  BY <1>1, LenProperties
<1> HIDE DEF p
<1>3. \A i \in 1 .. n + 1 : (IsrBelow(p, i) <=> IsrBelow(st, i))
                         /\ (CpuBelow(p, i) <=> CpuBelow(st, i))
  BY <1>0, <1>1 DEF IsrBelow, CpuBelow
<1>4. /\ IsrBelow(p, n + 2) <=> IsrBelow(st, n + 1) \/ f.kind = "isr"
      /\ CpuBelow(p, n + 2) <=> \/ CpuBelow(st, n + 1)
                                \/ f.kind = "isr" /\ f.sig \in Exc
  BY <1>0, <1>1 DEF IsrBelow, CpuBelow
<1>5. Fits(p)
  <2> SUFFICES ASSUME NEW i \in 1 .. n + 1
               PROVE  CatchFits(p, i) /\ IsrFits(p, i) /\ SetFits(p, i)
    BY <1>2 DEF Fits
  <2>1. CASE i = n + 1
    BY <1>0, <1>1, <1>3, <2>1 DEF CatchFits, IsrFits, SetFits
  <2>2. CASE i \in 1 .. n
    <3>1. /\ CatchFits(st, i) /\ IsrFits(st, i) /\ p[i].kind # "set"
          /\ p[i] = st[i]
      BY <1>0, <1>1, <2>2 DEF Fits
    <3> QED BY <1>3, <3>1 DEF CatchFits, IsrFits, SetFits
  <2> QED BY <1>0, <2>1, <2>2
<1> QED BY <1>0, <1>1, <1>4, <1>5 DEF p

-----------------------------------------------------------------------------

\* The kind of a frame tells what it holds.
LEMMA FrameKinds ==
  ASSUME NEW f \in Frame
  PROVE  /\ f.kind = "catch" => f \in CatchFrame
         /\ f.kind = "isr" => f \in IsrFrame
         /\ f.kind = "check" => f \in CheckFrame
         /\ f.kind = "call" => f \in CallFrame
         /\ f.kind = "set" => f \in SetFrame
         /\ f.kind \in {"enter-io", "io"} => f \in IoFrame
         /\ f.kind # "main"
BY DEF Frame, CatchFrame, IsrFrame, CheckFrame, CallFrame, SetFrame, IoFrame

\* The innermost activation is the last of the stack, if there is one.
LEMMA TopFacts ==
  ASSUME TypeOK
  PROVE  /\ Len(stack) \in Nat /\ DOMAIN stack = 1 .. Len(stack)
         /\ stack = <<>> <=> Len(stack) = 0
         /\ Top.kind # "main" =>
              stack # <<>> /\ Top = stack[Len(stack)] /\ Top \in Frame
         /\ stack = <<>> => Top.kind = "main"
<1>1. stack \in Seq(Frame)
  BY DEF TypeOK
<1>2. /\ Len(stack) \in Nat /\ DOMAIN stack = 1 .. Len(stack)
      /\ stack = <<>> <=> Len(stack) = 0
  BY <1>1, LenProperties, EmptySeq
<1>3. stack # <<>> => Top = stack[Len(stack)] /\ Top \in Frame
  BY <1>1, <1>2, ElementOfSeq DEF Top
<1>4. stack = <<>> => Top.kind = "main"
  BY DEF Top
<1> QED BY <1>2, <1>3, <1>4

\* Leaving the innermost activation.
LEMMA PopFacts ==
  ASSUME TypeOK, Fits(stack), stack # <<>>
  PROVE  /\ Popped \in Seq(Frame) /\ Fits(Popped)
         /\ \A i \in 1 .. Len(Popped) : Popped[i].kind # "set"
         /\ Inside <=> \/ IsrBelow(Popped, Len(Popped) + 1)
                       \/ Top.kind = "isr"
         /\ InsideCpu <=> \/ CpuBelow(Popped, Len(Popped) + 1)
                          \/ Top.kind = "isr" /\ Top.sig \in Exc
         /\ Top.kind = "isr" => ~IsrBelow(Popped, Len(Popped) + 1)
<1> DEFINE n == Len(stack)
<1>1. stack \in Seq(Frame) /\ n \in Nat /\ n - 1 \in 0 .. n /\ n # 0
  BY TopFacts DEF TypeOK
<1>2. Top = stack[n] /\ DOMAIN stack = 1 .. n
  BY TopFacts DEF Top
<1>3. /\ Popped \in Seq(Frame) /\ Len(Popped) = n - 1 /\ Fits(Popped)
      /\ \A i \in 1 .. n - 1 : Popped[i] = stack[i] /\ stack[i].kind # "set"
      /\ IsrBelow(Popped, n) <=> IsrBelow(stack, n)
      /\ CpuBelow(Popped, n) <=> CpuBelow(stack, n)
  <2>1. n - 1 < n /\ n \in 1 .. (n - 1) + 1
    BY <1>1
  <2>2. /\ Popped \in Seq(Frame) /\ Len(Popped) = n - 1 /\ Fits(Popped)
        /\ \A i \in 1 .. n - 1 : Popped[i] = stack[i]
        /\ n - 1 < n => \A i \in 1 .. n - 1 : stack[i].kind # "set"
        /\ \A i \in 1 .. (n - 1) + 1 : IsrBelow(Popped, i) <=> IsrBelow(stack, i)
        /\ \A i \in 1 .. (n - 1) + 1 : CpuBelow(Popped, i) <=> CpuBelow(stack, i)
    BY <1>1, PrefixFits, Zenon DEF Popped
  <2> QED BY <2>1, <2>2
<1>4. /\ Inside <=> IsrBelow(stack, n) \/ stack[n].kind = "isr"
      /\ InsideCpu <=> \/ CpuBelow(stack, n)
                       \/ stack[n].kind = "isr" /\ stack[n].sig \in Exc
  BY <1>1 DEF Inside, InsideCpu, IsrBelow, CpuBelow
<1>5. Top.kind = "isr" => ~IsrBelow(stack, n)
  BY <1>1, <1>2 DEF Fits, IsrFits
<1> QED BY <1>1, <1>2, <1>3, <1>4, <1>5

\* A change of handlers is nowhere if it is not innermost.
LEMMA NoSet ==
  ASSUME TypeOK, Fits(stack), Top.kind # "set"
  PROVE  \A i \in 1 .. Len(stack) : stack[i].kind # "set"
BY TopFacts DEF Fits, SetFits, Top

\* Some signal cannot be masked (SIGKILL), so no mask of the kernel is full.
LEMMA MaskFacts == Maskable \subseteq Sig /\ Maskable # Sig /\ Sig \cap Maskable = Maskable
BY SignalAssumption DEF Maskable

\* The program starts with no activation.
LEMMA InitIInv == Init => IInv
<1> SUFFICES ASSUME Init PROVE IInv
  OBVIOUS
<1>1. stack = <<>> /\ stack \in Seq(Frame) /\ Len(stack) = 0 /\ DOMAIN stack = {}
  BY EmptySeq DEF Init
<1>2. TypeOK
  BY <1>1 DEF Init, TypeOK, Spec3
<1>3. Fits(stack) /\ ~Inside /\ ~InsideCpu
  BY <1>1 DEF Fits, Inside, InsideCpu, IsrBelow, CpuBelow
<1>4. MaskInv
  BY <1>1, <1>3, SignalAssumption DEF Init, MaskInv, Top
<1> QED BY <1>2, <1>3, <1>4 DEF Init, IInv, CountInv, GcInv

\* A signal that is let through meets no running handler.
LEMMA InterruptStep ==
  ASSUME IInv, NEW s \in Maskable, Interrupt(s)
  PROVE  IInv'
<1> USE DEF IInv
<1> DEFINE f == [kind |-> "isr", sig |-> s, ic |-> ic, as |-> async,
                 gc |-> gc, limit |-> limit, blocked |-> HandlerMask,
                 old |-> mask]
<1>1. f \in Frame
  BY MaskFacts DEF TypeOK, Frame, IsrFrame, HandlerMask
<1>2. /\ ic = 0 /\ ~Inside /\ ~throwing /\ Top.kind # "set"
      /\ gc /\ ~InsideCpu
  BY DEF Interrupt, Interruptible, Caught, CountInv, MaskInv, GcInv, Inside,
         InsideCpu, IsrBelow, CpuBelow
<1>3. stack' = Append(stack, f)
  BY DEF Interrupt, Pushed
<1>4. /\ stack' \in Seq(Frame) /\ stack' # <<>> /\ Fits(stack')
      /\ stack'[Len(stack')] = f /\ Inside' /\ (InsideCpu' <=> s \in Exc)
  <2>1. \A i \in 1 .. Len(stack) : stack[i].kind # "set"
    BY <1>2, NoSet
  <2>2. stack \in Seq(Frame) /\ f.kind = "isr" /\ f.ic = 0 /\ f.gc
        /\ f.blocked = Maskable /\ f.sig = s
    BY <1>2 DEF TypeOK, HandlerMask
  <2> HIDE DEF f
  <2> QED BY <1>1, <1>2, <1>3, <2>1, <2>2, PushFits DEF Inside, InsideCpu
<1>5. Top'.kind = "isr"
  BY <1>4 DEF Top
<1>6. TypeOK'
  <2>1. gc' \in BOOLEAN /\ limit' \in BOOLEAN
    BY DEF Interrupt
  <2>2. ic' \in Nat
    BY <1>2 DEF Interrupt
  <2>3. cache' \subseteq Sig /\ mask' \subseteq Maskable
    BY MaskFacts DEF Interrupt, HandlerMask
  <2>4. async' \in BOOLEAN /\ UNCHANGED <<lambda, deferred, throwing>>
    BY DEF Interrupt
  <2> QED BY <1>4, <2>1, <2>2, <2>3, <2>4 DEF TypeOK
<1>7. MaskInv'
  <2>1. cache' = Maskable /\ mask' = Maskable /\ throwing' = throwing
    BY DEF Interrupt, HandlerMask
  <2> QED BY <1>2, <1>4, <1>5, <2>1, MaskFacts DEF MaskInv
<1>8. CountInv'
  <2>1. ic' = ic + 1
    BY DEF Interrupt
  <2> QED BY <1>2, <1>4, <2>1 DEF CountInv
<1>9. GcInv'
  <2>1. gc' <=> s \notin Exc
    BY <1>2 DEF Interrupt
  <2> QED BY <1>4, <2>1 DEF GcInv
<1> QED BY <1>4, <1>6, <1>7, <1>8, <1>9

\* Recording a signal changes the cache only.
LEMMA DeferStep ==
  ASSUME IInv, NEW s \in Maskable, Defer(s)
  PROVE  IInv'
<1> USE DEF IInv
<1>1. /\ ~Inside /\ ~throwing /\ Top.kind # "set"
  BY DEF Defer, Caught, MaskInv
<1>2. UNCHANGED <<stack, throwing, ic, gc, mask, lambda, async, limit>>
      /\ cache' = Maskable /\ deferred' = deferred \cup {s}
  BY DEF Defer, HandlerMask, flags
<1>3. TypeOK'
  BY <1>2, MaskFacts DEF TypeOK
<1>4. MaskInv'
  BY <1>1, <1>2, MaskFacts DEF MaskInv, Inside, Top
<1> QED BY <1>2, <1>3, <1>4 DEF CountInv, GcInv, Inside, InsideCpu

\* A handler returns, and with it the last activation of sig_handler.
LEMMA IsrReturnStep ==
  ASSUME IInv, NEW again \in BOOLEAN, IsrReturn(again)
  PROVE  IInv'
<1> USE DEF IInv
<1>1. ~throwing /\ Top.kind = "isr" /\ stack' = Popped
  BY DEF IsrReturn, Running
<1>2. /\ stack # <<>> /\ Top \in IsrFrame /\ Top = stack[Len(stack)]
      /\ Len(stack) \in DOMAIN stack
  BY <1>1, TopFacts, FrameKinds
<1>3. /\ stack' \in Seq(Frame) /\ Fits(stack')
      /\ \A i \in 1 .. Len(stack') : stack'[i].kind # "set"
      /\ Inside /\ ~Inside' /\ (InsideCpu <=> Top.sig \in Exc \/ InsideCpu')
  BY <1>1, <1>2, PopFacts DEF Inside, InsideCpu
<1>4. Top.ic = 0 /\ Top.gc /\ Top.blocked = Maskable
  BY <1>1, <1>2 DEF Fits, IsrFits
<1>5. Top'.kind # "set"
  BY <1>3, EmptySeq DEF Top
<1>6. ~InsideCpu'
  BY <1>3 DEF Inside, InsideCpu, IsrBelow, CpuBelow
<1>7. cache # Sig
  BY <1>1 DEF MaskInv
<1>8. TypeOK'
  BY <1>2, <1>3 DEF TypeOK, IsrReturn, GcAfterIsr, IsrFrame
<1>9. MaskInv'
  BY <1>1, <1>3, <1>5, <1>7 DEF MaskInv, IsrReturn
<1>10. CountInv' /\ GcInv'
  BY <1>1, <1>3, <1>4, <1>6 DEF CountInv, GcInv, IsrReturn, GcAfterIsr
<1> QED BY <1>3, <1>8, <1>9, <1>10

\* Steps that enter or leave activations which save nothing.
LEMMA Undisturbed ==
  ASSUME IInv, TypeOK', Fits(stack'), Top.kind # "set", Top'.kind # "set",
         Inside' <=> Inside, InsideCpu' <=> InsideCpu,
         UNCHANGED <<ic, gc, masks, throwing>>
  PROVE  IInv'
<1>1. MaskInv'
  BY DEF IInv, MaskInv, masks
<1>2. CountInv' /\ GcInv'
  BY DEF IInv, CountInv, GcInv
<1> QED BY <1>1, <1>2 DEF IInv

\* The activations that save nothing the invariant speaks of.
Plain == {"check", "call", "enter-io", "io"}

\* Entering one of them.
LEMMA PushPlain ==
  ASSUME NEW st \in Seq(Frame), Fits(st), NEW f \in Frame, f.kind \in Plain,
         \A i \in 1 .. Len(st) : st[i].kind # "set"
  PROVE  LET p == Append(st, f)
         IN  /\ p \in Seq(Frame) /\ p # <<>> /\ p[Len(p)] = f
             /\ Fits(p)
             /\ \A i \in 1 .. Len(p) : p[i].kind # "set"
             /\ IsrBelow(p, Len(p) + 1) <=> IsrBelow(st, Len(st) + 1)
             /\ CpuBelow(p, Len(p) + 1) <=> CpuBelow(st, Len(st) + 1)
<1> DEFINE p == Append(st, f)
<1>1. /\ p \in Seq(Frame) /\ Len(p) = Len(st) + 1 /\ p # <<>>
      /\ p[Len(p)] = f
      /\ Fits(p)
      /\ \A i \in 1 .. Len(st) : p[i] = st[i]
      /\ IsrBelow(p, Len(p) + 1) <=> IsrBelow(st, Len(st) + 1)
      /\ CpuBelow(p, Len(p) + 1) <=> CpuBelow(st, Len(st) + 1)
  BY PushFits DEF Plain
<1>2. Len(st) \in Nat
  BY LenProperties
<1> HIDE DEF p
<1>3. \A i \in 1 .. Len(p) : p[i].kind # "set"
  BY <1>1, <1>2 DEF Plain
<1> QED BY <1>1, <1>3 DEF p

\* Leaving one of them, or a catch.
LEMMA PopPlain ==
  ASSUME TypeOK, Fits(stack), Top.kind \in Plain \cup {"catch"}
  PROVE  /\ stack # <<>> /\ Top \in Frame
         /\ Popped \in Seq(Frame) /\ Fits(Popped)
         /\ \A i \in 1 .. Len(Popped) : Popped[i].kind # "set"
         /\ Inside <=> IsrBelow(Popped, Len(Popped) + 1)
         /\ InsideCpu <=> CpuBelow(Popped, Len(Popped) + 1)
BY TopFacts, PopFacts DEF Plain

\* The kind of the new innermost activation.
LEMMA TopKind ==
  ASSUME NEW st \in Seq(Frame), NEW P, \A i \in 1 .. Len(st) : st[i].kind # P
  PROVE  st # <<>> => st[Len(st)].kind # P
BY EmptySeq

\* sig_check begins.
LEMMA BeginCheckStep == ASSUME IInv, BeginCheck PROVE IInv'
<1> USE DEF IInv
<1> DEFINE f == [kind |-> "check", sd |-> deferred]
<1>1. f \in Frame /\ f.kind \in Plain
  BY DEF TypeOK, Frame, CheckFrame, Plain
<1>2. stack' = Append(stack, f) /\ Top.kind # "set"
  BY DEF BeginCheck, Pushed, Running
<1>3. stack \in Seq(Frame) /\ \A i \in 1 .. Len(stack) : stack[i].kind # "set"
  BY <1>2, NoSet DEF TypeOK
<1> HIDE DEF f
<1>4. /\ stack' \in Seq(Frame) /\ stack' # <<>> /\ Fits(stack')
      /\ stack'[Len(stack')] = f
      /\ (Inside' <=> Inside) /\ (InsideCpu' <=> InsideCpu)
  BY <1>1, <1>2, <1>3, PushPlain DEF Inside, InsideCpu
<1>5. Top'.kind # "set"
  BY <1>1, <1>4 DEF Top, Plain
<1>6. TypeOK' /\ UNCHANGED <<ic, gc, masks, throwing>>
  BY <1>4 DEF TypeOK, BeginCheck, flags, masks
<1> QED BY <1>2, <1>4, <1>5, <1>6, Undisturbed

\* The lowest of some signals is one of them.
LEMMA LowestFacts ==
  ASSUME NEW S \in SUBSET Maskable, S # {}
  PROVE  Lowest(S) \in S /\ Lowest(S) \in Maskable
<1>1. Maskable \subseteq Nat
  BY SignalAssumption DEF Maskable
<1>2. \E t \in S : \A r \in S : t <= r
  BY <1>1, LeastNat
<1> QED BY <1>2 DEF Lowest

\* sig_check calls the function of its lowest signal.
LEMMA CheckNextStep == ASSUME IInv, CheckNext PROVE IInv'
<1> USE DEF IInv
<1> DEFINE s == Lowest(Top.sd)
           f == [Top EXCEPT !.sd = @ \ {s}]
           g == [kind |-> "call", sig |-> s, fun |-> lambda[s]]
<1>1. Top.kind = "check" /\ Top.sd # {}
  BY DEF CheckNext
<1>2. Top \in CheckFrame
  BY <1>1, TopFacts, FrameKinds
<1>3. s \in Top.sd /\ s \in Maskable
  BY <1>1, <1>2, LowestFacts DEF CheckFrame
<1>4. f \in Frame /\ f.kind = "check" /\ g \in Frame /\ g.kind = "call"
  BY <1>2, <1>3 DEF TypeOK, Frame, CheckFrame, CallFrame
<1>5. stack' = Append(Append(Popped, f), g) /\ deferred' = Top.sd \ {s}
  BY DEF CheckNext, Remaining
<1> HIDE DEF f, g, s
<1>6. /\ stack' \in Seq(Frame) /\ stack' # <<>> /\ Fits(stack')
      /\ stack'[Len(stack')] = g
      /\ (Inside' <=> Inside) /\ (InsideCpu' <=> InsideCpu)
  <2> DEFINE p == Append(Popped, f)
  <2>1. /\ p \in Seq(Frame) /\ Fits(p)
        /\ \A i \in 1 .. Len(p) : p[i].kind # "set"
        /\ IsrBelow(p, Len(p) + 1) <=> Inside
        /\ CpuBelow(p, Len(p) + 1) <=> InsideCpu
    BY <1>1, <1>4, PopPlain, PushPlain DEF Plain
  <2>2. stack' = Append(p, g)
    BY <1>5
  <2> HIDE DEF p
  <2> QED BY <1>4, <2>1, <2>2, PushPlain DEF Plain, Inside, InsideCpu
<1>7. Top'.kind # "set"
  BY <1>4, <1>6 DEF Top
<1>8. TypeOK' /\ UNCHANGED <<ic, gc, masks, throwing>>
  BY <1>2, <1>5, <1>6 DEF TypeOK, CheckNext, flags, masks, CheckFrame
<1> QED BY <1>1, <1>6, <1>7, <1>8, Undisturbed

\* Leaving an activation that saves nothing.
LEMMA PopStep ==
  ASSUME IInv, CallReturn \/ CheckDone \/ LeaveCatch \/ EndIo
  PROVE  IInv'
<1> USE DEF IInv
<1>1. Top.kind \in Plain \cup {"catch"} /\ stack' = Popped
  BY DEF CallReturn, CheckDone, LeaveCatch, EndIo, Plain
<1>2. /\ stack' \in Seq(Frame) /\ Fits(stack')
      /\ \A i \in 1 .. Len(stack') : stack'[i].kind # "set"
      /\ (Inside' <=> Inside) /\ (InsideCpu' <=> InsideCpu)
  BY <1>1, PopPlain DEF Inside, InsideCpu
<1>3. Top.kind # "set" /\ Top'.kind # "set"
  BY <1>1, <1>2, TopKind DEF Top, Plain
<1>4. async' \in BOOLEAN /\ UNCHANGED <<lambda, deferred, limit>>
      /\ UNCHANGED <<ic, gc, masks, throwing>>
  <2>1. CASE EndIo
    <3>1. Top \in IoFrame
      BY <2>1, <1>1, TopFacts, FrameKinds DEF EndIo
    <3> QED BY <2>1, <3>1 DEF EndIo, Restored, IoFrame
  <2>2. CASE ~EndIo
    BY <2>2 DEF CallReturn, CheckDone, LeaveCatch, TypeOK, flags
  <2> QED BY <2>1, <2>2
<1>5. TypeOK'
  BY <1>2, <1>4 DEF TypeOK, masks
<1> QED BY <1>2, <1>3, <1>4, <1>5, Undisturbed

\* A blocking system call begins.
LEMMA BeginIoStep == ASSUME IInv, BeginIo PROVE IInv'
<1> USE DEF IInv
<1> DEFINE f == [kind |-> "enter-io", save |-> async]
           g == [kind |-> "check", sd |-> deferred]
           p == Append(stack, f)
<1>1. f \in Frame /\ f.kind = "enter-io" /\ g \in Frame /\ g.kind = "check"
  BY DEF TypeOK, Frame, IoFrame, CheckFrame
<1>2. stack' \in {p, Append(p, g)} /\ Top.kind # "set"
  BY DEF BeginIo, Pushed, Running
<1>3. stack \in Seq(Frame) /\ \A i \in 1 .. Len(stack) : stack[i].kind # "set"
  BY <1>2, NoSet DEF TypeOK
<1> HIDE DEF f, g
<1>4. /\ p \in Seq(Frame) /\ p # <<>> /\ Fits(p) /\ p[Len(p)] = f
      /\ \A i \in 1 .. Len(p) : p[i].kind # "set"
      /\ IsrBelow(p, Len(p) + 1) <=> Inside
      /\ CpuBelow(p, Len(p) + 1) <=> InsideCpu
  BY <1>1, <1>3, PushPlain DEF Inside, InsideCpu, Plain
<1> HIDE DEF p
<1>5. /\ stack' \in Seq(Frame) /\ stack' # <<>> /\ Fits(stack')
      /\ stack'[Len(stack')] \in {f, g}
      /\ (Inside' <=> Inside) /\ (InsideCpu' <=> InsideCpu)
  <2>1. CASE stack' = p
    BY <1>4, <2>1 DEF Inside, InsideCpu
  <2>2. CASE stack' = Append(p, g)
    BY <1>1, <1>4, <2>2, PushPlain DEF Inside, InsideCpu, Plain
  <2> QED BY <1>2, <2>1, <2>2
<1>6. Top'.kind # "set"
  BY <1>1, <1>5 DEF Top
<1>7. TypeOK' /\ UNCHANGED <<ic, gc, masks, throwing>>
  BY <1>5 DEF TypeOK, BeginIo, flags, masks
<1> QED BY <1>2, <1>5, <1>6, <1>7, Undisturbed

\* Asynchronous handlers are enabled.
LEMMA EnterIoStep == ASSUME IInv, EnterIo PROVE IInv'
<1> USE DEF IInv
<1> DEFINE f == [Top EXCEPT !.kind = "io"]
<1>1. Top.kind = "enter-io" /\ stack' = Append(Popped, f)
  BY DEF EnterIo
<1>2. Top \in IoFrame
  BY <1>1, TopFacts, FrameKinds
<1>3. f \in Frame /\ f.kind = "io"
  BY <1>2 DEF Frame, IoFrame
<1> HIDE DEF f
<1>4. /\ stack' \in Seq(Frame) /\ stack' # <<>> /\ Fits(stack')
      /\ stack'[Len(stack')] = f
      /\ (Inside' <=> Inside) /\ (InsideCpu' <=> InsideCpu)
  BY <1>1, <1>3, PopPlain, PushPlain DEF Inside, InsideCpu, Plain
<1>5. Top'.kind # "set"
  BY <1>3, <1>4 DEF Top
<1>6. TypeOK' /\ UNCHANGED <<ic, gc, masks, throwing>>
  BY <1>4 DEF TypeOK, EnterIo, masks
<1> QED BY <1>1, <1>4, <1>5, <1>6, Undisturbed

\* set_sig_handler blocks every signal, whatever the cache said.
LEMMA BeginSetStep == ASSUME IInv, BeginSet PROVE IInv'
<1> USE DEF IInv
<1> DEFINE f == [kind |-> "set", saved |-> IF cache = Sig THEN cache ELSE mask]
<1>1. Top.kind # "set" /\ stack' = Append(stack, f) /\ ~throwing
  BY DEF BeginSet, Pushed, Running
<1>2. cache # Sig /\ mask \subseteq Maskable
  BY <1>1 DEF MaskInv, TypeOK
<1>3. f \in Frame /\ f.kind = "set" /\ f.saved = mask
  BY <1>2, MaskFacts DEF Frame, SetFrame
<1>4. f.saved # Sig /\ (Inside => f.saved = Maskable)
  BY <1>2, <1>3, MaskFacts DEF MaskInv
<1>5. stack \in Seq(Frame) /\ \A i \in 1 .. Len(stack) : stack[i].kind # "set"
  BY <1>1, NoSet DEF TypeOK
<1> HIDE DEF f
<1>6. /\ stack' \in Seq(Frame) /\ stack' # <<>> /\ Fits(stack')
      /\ stack'[Len(stack')] = f
      /\ (Inside' <=> Inside) /\ (InsideCpu' <=> InsideCpu)
  BY <1>1, <1>3, <1>4, <1>5, PushFits DEF Inside, InsideCpu
<1>7. Top'.kind = "set"
  BY <1>3, <1>6 DEF Top
<1>8. /\ cache' = Sig /\ mask' = Maskable
      /\ UNCHANGED <<lambda, deferred, flags, throwing>>
  BY <1>2, MaskFacts DEF BeginSet, SetMask
<1>9. TypeOK'
  BY <1>6, <1>8 DEF TypeOK, flags
<1>10. MaskInv'
  BY <1>1, <1>6, <1>7, <1>8 DEF MaskInv
<1>11. CountInv' /\ GcInv'
  BY <1>6, <1>8 DEF CountInv, GcInv, flags
<1> QED BY <1>6, <1>9, <1>10, <1>11

\* set_sig_handler puts back the mask it saved.
LEMMA FinishSetStep ==
  ASSUME IInv, NEW s \in Maskable, NEW spec \in Spec3, FinishSet(s, spec)
  PROVE  IInv'
<1> USE DEF IInv
<1>1. ~throwing /\ Top.kind = "set" /\ stack' = Popped
  BY DEF FinishSet
<1>2. /\ stack # <<>> /\ Top \in SetFrame /\ Top = stack[Len(stack)]
      /\ Len(stack) \in DOMAIN stack
  BY <1>1, TopFacts, FrameKinds
<1>3. Top.saved # Sig /\ (IsrBelow(stack, Len(stack)) => Top.saved = Maskable)
  BY <1>1, <1>2 DEF Fits, SetFits
<1>4. /\ stack' \in Seq(Frame) /\ Fits(stack')
      /\ \A i \in 1 .. Len(stack') : stack'[i].kind # "set"
      /\ (Inside' <=> Inside) /\ (InsideCpu' <=> InsideCpu)
  BY <1>1, <1>2, PopFacts DEF Inside, InsideCpu
<1>5. Inside => IsrBelow(stack, Len(stack))
  BY <1>1, <1>2 DEF Inside, IsrBelow
<1>6. Top'.kind # "set"
  BY <1>4, TopKind DEF Top
<1>7. cache = Sig /\ cache' = Top.saved /\ mask' = Top.saved \cap Maskable
  BY <1>1, <1>3 DEF MaskInv, FinishSet, SetMask
<1>8. UNCHANGED <<flags, throwing>>
  BY DEF FinishSet
<1>9. TypeOK'
  <2>1. deferred' \subseteq Maskable /\ lambda' \in [Maskable -> Spec3]
    BY DEF TypeOK, FinishSet, Cleared
  <2>2. cache' \subseteq Sig /\ mask' \subseteq Maskable
    BY <1>2, <1>7 DEF SetFrame
  <2> QED BY <1>4, <1>8, <2>1, <2>2 DEF TypeOK, flags
<1>10. MaskInv'
  BY <1>1, <1>3, <1>4, <1>5, <1>6, <1>7, <1>8 DEF MaskInv
<1>11. CountInv' /\ GcInv'
  BY <1>4, <1>8 DEF CountInv, GcInv, flags
<1> QED BY <1>4, <1>9, <1>10, <1>11

\* A catch saves the mask and the switch.
LEMMA EnterCatchStep == ASSUME IInv, EnterCatch PROVE IInv'
<1> USE DEF IInv
<1> DEFINE f == [kind |-> "catch", se |-> async, gc |-> gc, blocked |-> cache]
<1>1. Top.kind # "set" /\ stack' = Append(stack, f) /\ ~throwing
  BY DEF EnterCatch, Pushed, Running
<1>2. f \in Frame /\ f.kind = "catch" /\ f.blocked = cache
  BY DEF TypeOK, Frame, CatchFrame
<1>3. f.blocked # Sig /\ (Inside => f.blocked = Maskable)
  BY <1>1, <1>2 DEF MaskInv
<1>4. f.gc <=> ~InsideCpu
  BY <1>1 DEF GcInv
<1>5. stack \in Seq(Frame) /\ \A i \in 1 .. Len(stack) : stack[i].kind # "set"
  BY <1>1, NoSet DEF TypeOK
<1> HIDE DEF f
<1>6. /\ stack' \in Seq(Frame) /\ stack' # <<>> /\ Fits(stack')
      /\ stack'[Len(stack')] = f
      /\ (Inside' <=> Inside) /\ (InsideCpu' <=> InsideCpu)
  BY <1>1, <1>2, <1>3, <1>4, <1>5, PushFits DEF Inside, InsideCpu
<1>7. Top'.kind # "set"
  BY <1>2, <1>6 DEF Top
<1>8. TypeOK' /\ UNCHANGED <<ic, gc, masks, throwing>>
  BY <1>6 DEF TypeOK, EnterCatch, flags, masks
<1> QED BY <1>1, <1>6, <1>7, <1>8, Undisturbed

-----------------------------------------------------------------------------
(* Non-local exits.                                                        *)

\* An unwinding step stops at the innermost activation that catches, and
\* drops it with everything above it.
LEMMA StopFacts ==
  ASSUME TypeOK, Fits(stack), OnStack("catch")
  PROVE  LET p == SubSeq(stack, 1, Stop - 1)
         IN  /\ Stop \in DOMAIN stack /\ stack[Stop] \in Frame
             /\ stack[Stop].kind \in {"catch", "isr"}
             /\ p \in Seq(Frame) /\ Fits(p)
             /\ \A i \in 1 .. Len(p) : p[i].kind # "set"
             /\ IsrBelow(p, Len(p) + 1) <=> IsrBelow(stack, Stop)
             /\ CpuBelow(p, Len(p) + 1) <=> CpuBelow(stack, Stop)
             /\ Inside <=> IsrBelow(stack, Stop) \/ stack[Stop].kind = "isr"
<1> DEFINE T == {i \in DOMAIN stack : stack[i].kind \in {"catch", "isr"}}
           n == Len(stack)
<1>1. n \in Nat /\ DOMAIN stack = 1 .. n /\ stack \in Seq(Frame)
  BY TopFacts DEF TypeOK
<1>2. \E i \in T : \A j \in T : j <= i
  <2>1. T \subseteq Nat /\ T # {} /\ \A i \in T : i <= n
    BY <1>1 DEF OnStack
  <2> HIDE DEF T
  <2> QED BY <1>1, <2>1, GreatestNat
<1>3. \E i \in DOMAIN stack :
        /\ stack[i].kind \in {"catch", "isr"}
        /\ \A j \in i + 1 .. n : stack[j].kind \notin {"catch", "isr"}
  BY <1>1, <1>2
<1>4. /\ Stop \in DOMAIN stack
      /\ stack[Stop].kind \in {"catch", "isr"}
      /\ \A j \in Stop + 1 .. n : stack[j].kind \notin {"catch", "isr"}
  BY <1>3 DEF Stop
<1> DEFINE k == Stop - 1
           p == SubSeq(stack, 1, k)
<1>5. k \in 0 .. n /\ k < n /\ k + 1 = Stop /\ k + 1 \in 1 .. k + 1
  BY <1>1, <1>4
<1>6. /\ p \in Seq(Frame) /\ Len(p) = k /\ Fits(p)
      /\ \A i \in 1 .. k : p[i] = stack[i]
      /\ k < n => \A i \in 1 .. k : stack[i].kind # "set"
      /\ \A i \in 1 .. k + 1 : IsrBelow(p, i) <=> IsrBelow(stack, i)
      /\ \A i \in 1 .. k + 1 : CpuBelow(p, i) <=> CpuBelow(stack, i)
  <2> HIDE DEF k
  <2> QED BY <1>1, <1>5, PrefixFits, Zenon
<1>7. Inside <=> IsrBelow(stack, Stop) \/ stack[Stop].kind = "isr"
  BY <1>1, <1>4 DEF Inside, IsrBelow
<1>8. stack[Stop] \in Frame
  BY <1>1, <1>4, ElementOfSeq
<1> QED BY <1>4, <1>5, <1>6, <1>7, <1>8

\* An exit reaches a catch.
LEMMA ThrowStep == ASSUME IInv, Throw PROVE IInv'
<1> USE DEF IInv
<1> DEFINE f == stack[Stop]
<1>1. /\ OnStack("catch") /\ f.kind = "catch"
      /\ stack' = SubSeq(stack, 1, Stop - 1)
      /\ async' = f.se /\ gc' = f.gc /\ SetMask(f.blocked)
      /\ throwing' = FALSE /\ UNCHANGED <<lambda, deferred, ic, limit>>
  BY DEF Throw
<1>2. /\ Stop \in DOMAIN stack /\ f \in CatchFrame
      /\ stack' \in Seq(Frame) /\ Fits(stack')
      /\ \A i \in 1 .. Len(stack') : stack'[i].kind # "set"
      /\ Inside' <=> IsrBelow(stack, Stop)
      /\ InsideCpu' <=> CpuBelow(stack, Stop)
      /\ Inside <=> Inside'
  BY <1>1, StopFacts, FrameKinds DEF Inside, InsideCpu
<1>3. CatchFits(stack, Stop)
  BY <1>2 DEF Fits
<1>4. /\ cache' # Sig /\ (Inside' => cache' = Maskable)
      /\ (Inside' => mask' = Maskable)
  <2>1. f.blocked # Sig /\ (Inside' => f.blocked = Maskable)
    BY <1>1, <1>2, <1>3 DEF CatchFits
  <2> QED BY <1>1, <1>2, <2>1 DEF SetMask, MaskInv
<1>5. Top'.kind # "set"
  BY <1>2, TopKind DEF Top
<1>6. TypeOK'
  <2>1. f.se \in BOOLEAN /\ f.gc \in BOOLEAN /\ f.blocked \subseteq Sig
    BY <1>2 DEF CatchFrame
  <2>2. cache' \subseteq Sig /\ mask' \subseteq Maskable
    BY <1>1, <2>1 DEF SetMask, TypeOK
  <2> QED BY <1>1, <1>2, <2>1, <2>2 DEF TypeOK
<1>7. MaskInv'
  BY <1>1, <1>4, <1>5 DEF MaskInv
<1>8. GcInv'
  BY <1>1, <1>2, <1>3, Zenon DEF GcInv, CatchFits
<1>9. CountInv'
  BY <1>1, <1>2 DEF CountInv
<1> QED BY <1>2, <1>6, <1>7, <1>8, <1>9

\* An exit passes through sig_handler.
LEMMA ThrowFromIsrStep == ASSUME IInv, ThrowFromIsr PROVE IInv'
<1> USE DEF IInv
<1> DEFINE f == stack[Stop]
<1>1. /\ OnStack("catch") /\ f.kind = "isr"
      /\ stack' = SubSeq(stack, 1, Stop - 1)
      /\ ic' = f.ic /\ gc' = GcAfter(f) /\ SetMask(f.blocked)
      /\ async' = TRUE /\ throwing' = TRUE
      /\ UNCHANGED <<lambda, deferred, limit>>
  BY DEF ThrowFromIsr, CountAfter
<1>2. /\ Stop \in DOMAIN stack /\ f \in IsrFrame
      /\ stack' \in Seq(Frame) /\ Fits(stack')
      /\ \A i \in 1 .. Len(stack') : stack'[i].kind # "set"
      /\ Inside' <=> IsrBelow(stack, Stop)
      /\ Inside
  BY <1>1, StopFacts, FrameKinds DEF Inside, InsideCpu
<1>3. IsrFits(stack, Stop)
  BY <1>2 DEF Fits
<1>4. ~Inside' /\ f.ic = 0 /\ f.blocked = Maskable /\ mask = Maskable
  BY <1>1, <1>2, <1>3 DEF IsrFits, MaskInv
<1>5. cache' = Maskable /\ mask' = Maskable
  BY <1>1, <1>4 DEF SetMask
<1>6. Top'.kind # "set"
  BY <1>2, TopKind DEF Top
<1>7. TypeOK'
  <2>1. gc' \in BOOLEAN
    BY <1>1 DEF GcAfter
  <2>2. ic' \in Nat /\ cache' \subseteq Sig /\ mask' \subseteq Maskable
    BY <1>1, <1>4, <1>5, MaskFacts
  <2> QED BY <1>1, <1>2, <2>1, <2>2 DEF TypeOK
<1>8. MaskInv'
  BY <1>4, <1>5, <1>6, MaskFacts DEF MaskInv
<1>9. CountInv' /\ GcInv'
  BY <1>1, <1>4 DEF CountInv, GcInv
<1> QED BY <1>2, <1>7, <1>8, <1>9

\* Every step preserves the invariant.
LEMMA NextIInv == IInv /\ [Next]_vars => IInv'
<1> SUFFICES ASSUME IInv, [Next]_vars PROVE IInv'
  OBVIOUS
<1>1. CASE Arrival
  BY <1>1, InterruptStep, DeferStep DEF Arrival
<1>2. CASE \E again \in BOOLEAN : IsrReturn(again)
  BY <1>2, IsrReturnStep
<1>3. CASE BeginCheck \/ CheckNext
  BY <1>3, BeginCheckStep, CheckNextStep
<1>4. CASE CallReturn \/ CheckDone \/ LeaveCatch \/ EndIo
  BY <1>4, PopStep
<1>5. CASE BeginSet \/ \E s \in Maskable, spec \in Spec3 : FinishSet(s, spec)
  BY <1>5, BeginSetStep, FinishSetStep
<1>6. CASE BeginIo \/ EnterIo
  BY <1>6, BeginIoStep, EnterIoStep
<1>7. CASE EnterCatch
  BY <1>7, EnterCatchStep
<1>8. CASE Throw \/ ThrowFromIsr
  BY <1>8, ThrowStep, ThrowFromIsrStep
<1>9. CASE UNCHANGED vars
  <2>1. TypeOK'
    BY <1>9 DEF vars, flags, masks, IInv, TypeOK
  <2>2. MaskInv'
    BY <1>9 DEF vars, flags, masks, IInv, MaskInv, Inside, Top
  <2>3. CountInv' /\ GcInv' /\ Fits(stack')
    BY <1>9 DEF vars, flags, masks, IInv, CountInv, GcInv, Inside, InsideCpu
  <2> QED BY <2>1, <2>2, <2>3 DEF IInv
<1> QED
  BY <1>1, <1>2, <1>3, <1>4, <1>5, <1>6, <1>7, <1>8, <1>9 DEF Next

\* The inductive invariant holds in every reachable state.
THEOREM Invariance == Spec => []IInv
BY InitIInv, NextIInv, PTL DEF Spec

\* The variables and every frame keep their types.
THEOREM TypeCorrect == Spec => []TypeOK
<1>1. IInv => TypeOK
  BY DEF IInv
<1> QED BY <1>1, Invariance, PTL

\* The counts and sets of the properties, in terms of the invariant.
LEMMA IsrCount ==
  ASSUME IInv
  PROVE  /\ (Isrs = {}) <=> ~Inside
         /\ Cardinality(Isrs) = IF Inside THEN 1 ELSE 0
         /\ (CpuIsrs = {}) <=> ~InsideCpu
<1>0. Len(stack) \in Nat /\ DOMAIN stack = 1 .. Len(stack)
  BY TopFacts DEF IInv
<1>1. (Isrs = {}) <=> ~Inside
  BY <1>0 DEF Isrs, Inside, IsrBelow
<1>2. (CpuIsrs = {}) <=> ~InsideCpu
  BY <1>0 DEF Isrs, CpuIsrs, InsideCpu, CpuBelow
<1>3. \A i, j \in Isrs : i = j
  BY <1>0 DEF IInv, Fits, IsrFits, Isrs, IsrBelow
<1>4. CASE Inside
  <2> PICK i \in Isrs : TRUE
    BY <1>1, <1>4
  <2>1. Isrs = {i}
    BY <1>3
  <2> QED BY <1>1, <1>2, <1>4, <2>1, FS_Singleton
<1>5. CASE ~Inside
  BY <1>1, <1>2, <1>5, FS_EmptySet
<1> QED BY <1>4, <1>5

\* A handler is never entered from another one, and sig_lambda and
\* sig_deferred are changed only while every signal is blocked.
THEOREM HandlersMasked == Spec => []AllBlocked
<1>1. IInv => AllBlocked
  <2> SUFFICES ASSUME IInv PROVE AllBlocked
    OBVIOUS
  <2>1. Cardinality(Isrs) <= 1 /\ ((Isrs = {}) <=> ~Inside)
    BY IsrCount
  <2> QED BY <2>1 DEF IInv, MaskInv, AllBlocked, IsrsBlocked, SetBlocked
<1> QED BY <1>1, Invariance, PTL

\* interrupt_count is right after every return and every non-local exit.
THEOREM CountRestored == Spec => []CountExact
<1>1. IInv => CountExact
  BY IsrCount DEF IInv, CountInv, CountExact
<1> QED BY <1>1, Invariance, PTL

\* Collection is disabled exactly while a processor exception is handled,
\* however its handler is left.
THEOREM CollectionRestored == Spec => []GcRestored
<1>1. IInv => GcRestored
  BY IsrCount DEF IInv, GcInv, GcRestored
<1> QED BY <1>1, Invariance, PTL

-----------------------------------------------------------------------------
(* Deferred signals: sig_check calls only functions, and loses nothing,     *)
(* under Orderly and Timely.                                                *)

\* The signals an activation is about to call, or was called for, have a
\* function.
HasFunction(f, lam) ==
  /\ f.kind = "check" => \A t \in f.sd : lam[t] = "fun"
  /\ f.kind = "isr" => lam[f.sig] = "fun"
  /\ f.kind = "call" => f.fun = "fun"

\* Deferred signals, and those an activation is about, have a function.
HandlerInv ==
  /\ \A t \in deferred : lambda[t] = "fun"
  /\ \A i \in DOMAIN stack : HasFunction(stack[i], lambda)

\* Dropping activations from the top.
LEMMA KeepPrefix ==
  ASSUME TypeOK, HandlerInv, NEW k \in 0 .. Len(stack)
  PROVE  LET p == SubSeq(stack, 1, k)
         IN  /\ p \in Seq(Frame)
             /\ \A i \in DOMAIN p : HasFunction(p[i], lambda)
<1> DEFINE p == SubSeq(stack, 1, k)
<1>0. Len(stack) \in Nat /\ DOMAIN stack = 1 .. Len(stack) /\ k \in Nat
  BY TopFacts
<1>1. \A i \in 1 .. k : stack[i] \in Frame
  BY <1>0, ElementOfSeq DEF TypeOK
<1>2. p \in Seq(Frame) /\ Len(p) = k /\ \A i \in 1 .. k : p[i] = stack[i]
  BY <1>0, <1>1, SubSeqProperties
<1>3. DOMAIN p = 1 .. k
  BY <1>2, LenProperties
<1> HIDE DEF p
<1>4. \A i \in DOMAIN p : HasFunction(p[i], lambda)
  BY <1>0, <1>2, <1>3 DEF HandlerInv
<1> QED BY <1>2, <1>4 DEF p

\* Entering an activation.
LEMMA KeepPushed ==
  ASSUME NEW st \in Seq(Frame), \A i \in DOMAIN st : HasFunction(st[i], lambda),
         NEW f \in Frame, HasFunction(f, lambda)
  PROVE  LET p == Append(st, f)
         IN  p \in Seq(Frame) /\ \A i \in DOMAIN p : HasFunction(p[i], lambda)
<1> DEFINE p == Append(st, f)
<1>0. Len(st) \in Nat /\ DOMAIN st = 1 .. Len(st)
  BY LenProperties
<1>1. /\ p \in Seq(Frame) /\ Len(p) = Len(st) + 1
      /\ p[Len(st) + 1] = f /\ \A i \in 1 .. Len(st) : p[i] = st[i]
  BY AppendProperties
<1>2. DOMAIN p = 1 .. Len(st) + 1
  BY <1>1, LenProperties
<1> HIDE DEF p
<1>3. \A i \in DOMAIN p : HasFunction(p[i], lambda)
  BY <1>0, <1>1, <1>2
<1> QED BY <1>1, <1>3 DEF p

\* Only set_sig_handler changes sig_lambda.
LEMMA FunctionsStay ==
  ASSUME [Next]_vars
  PROVE  \/ lambda' = lambda
         \/ \E s \in Maskable, spec \in Spec3 : FinishSet(s, spec)
BY DEF Next, vars, flags, masks, Arrival, Interrupt, Defer, IsrReturn,
   BeginCheck, CheckNext, CallReturn, CheckDone, BeginSet, BeginIo, EnterIo,
   EndIo, EnterCatch, LeaveCatch, Throw, ThrowFromIsr

\* set_sig_handler removes a function that nothing is about: what is deferred,
\* and what is on the stack, keeps the one it has.
LEMMA FinishHandlerInv ==
  ASSUME IInv, HandlerInv, Orderly,
         NEW s \in Maskable, NEW spec \in Spec3, FinishSet(s, spec)
  PROVE  HandlerInv'
<1> USE DEF IInv
<1>1. /\ stack # <<>> /\ stack' = SubSeq(stack, 1, Len(stack) - 1)
      /\ lambda' = [lambda EXCEPT ![s] = spec] /\ deferred' = Cleared(s, spec)
  BY TopFacts DEF FinishSet, Popped
<1>2. Len(stack) \in Nat \ {0} /\ DOMAIN stack = 1 .. Len(stack)
  BY <1>1, TopFacts
<1>3. \A i \in 1 .. Len(stack) : stack[i] \in Frame
  BY <1>2, ElementOfSeq DEF TypeOK
<1>4. Len(stack') = Len(stack) - 1
      /\ \A i \in 1 .. Len(stack) - 1 : stack'[i] = stack[i]
  BY <1>1, <1>2, <1>3, SubSeqProperties
<1>5. DOMAIN stack' = 1 .. Len(stack) - 1
  <2>1. stack' \in Seq(Frame)
    BY <1>1, <1>2, KeepPrefix
  <2> QED BY <1>2, <1>4, <2>1, LenProperties
<1>6. \A t \in deferred' : lambda'[t] = "fun"
  BY <1>1 DEF HandlerInv, TypeOK, Cleared
<1>7. ASSUME NEW i \in DOMAIN stack PROVE HasFunction(stack[i], lambda')
  <2> DEFINE f == stack[i]
  <2>1. f \in Frame /\ HasFunction(f, lambda)
    BY <1>2, <1>3 DEF HandlerInv
  <2>2. /\ f.kind = "check" => f.sd \subseteq Maskable
        /\ f.kind = "isr" => f.sig \in Maskable
    BY <2>1, FrameKinds DEF CheckFrame, IsrFrame
  <2>3. lambda[s] = "fun" /\ spec # "fun" => ~About(f, s)
    BY <1>1 DEF Orderly, TypeOK
  <2> HIDE DEF f
  <2>4. \A t \in Maskable :
          lambda[t] = "fun" /\ (About(f, t) \/ t # s) => lambda'[t] = "fun"
    BY <1>1, <2>3 DEF TypeOK
  <2>5. HasFunction(f, lambda')
    BY <2>1, <2>2, <2>4 DEF HasFunction, About
  <2> QED BY <2>5 DEF f
<1>8. \A i \in DOMAIN stack' : HasFunction(stack'[i], lambda')
  BY <1>2, <1>4, <1>5, <1>7
<1> QED BY <1>6, <1>8 DEF HandlerInv

\* What a step adds to sig_deferred and to the stack is about a signal with
\* a function.
LEMMA NextHandlerInv ==
  ASSUME IInv, HandlerInv, lambda' = lambda, [Next]_vars
  PROVE  HandlerInv'
<1> USE DEF IInv
<1>0. TypeOK'
  BY NextIInv
<1>1. Maskable \subseteq Sig
  BY MaskFacts
<1>2. ASSUME NEW f \in Frame, HasFunction(f, lambda) PROVE HasFunction(f, lambda')
  BY <1>2
<1>3. ASSUME NEW st \in Seq(Frame), stack' = st,
             \A i \in DOMAIN st : HasFunction(st[i], lambda)
      PROVE  \A i \in DOMAIN stack' : HasFunction(stack'[i], lambda')
  <2>1. \A i \in DOMAIN st : st[i] \in Frame
    BY LenProperties, ElementOfSeq
  <2> QED BY <1>2, <1>3, <2>1
<1>4. stack \in Seq(Frame) /\ \A i \in DOMAIN stack : HasFunction(stack[i], lambda)
  BY DEF TypeOK, HandlerInv
<1>5. \A k \in 0 .. Len(stack) : stack' = SubSeq(stack, 1, k) =>
        \A i \in DOMAIN stack' : HasFunction(stack'[i], lambda')
  BY <1>3, KeepPrefix
<1>6. \A f \in Frame : HasFunction(f, lambda) /\ stack' = Append(stack, f) =>
        \A i \in DOMAIN stack' : HasFunction(stack'[i], lambda')
  <2> SUFFICES ASSUME NEW f \in Frame, HasFunction(f, lambda), stack' = Append(stack, f)
               PROVE  \A i \in DOMAIN stack' : HasFunction(stack'[i], lambda')
    OBVIOUS
  <2> QED BY <1>3, <1>4, KeepPushed
<1>7. stack # <<>> => /\ Len(stack) - 1 \in 0 .. Len(stack)
                      /\ Popped = SubSeq(stack, 1, Len(stack) - 1)
                      /\ Popped \in Seq(Frame)
                      /\ \A i \in DOMAIN Popped : HasFunction(Popped[i], lambda)
                      /\ HasFunction(Top, lambda)
  <2>1. stack # <<>> => Len(stack) - 1 \in 0 .. Len(stack)
                        /\ Len(stack) \in DOMAIN stack
    BY TopFacts
  <2> QED BY <1>4, <2>1, KeepPrefix DEF Popped, Top
<1>8. stack' = Popped /\ stack # <<>> =>
        \A i \in DOMAIN stack' : HasFunction(stack'[i], lambda')
  BY <1>3, <1>7
<1>9. \A t \in deferred : lambda'[t] = "fun"
  BY <1>1 DEF HandlerInv, TypeOK
<1>10. ASSUME NEW s \in Maskable, Interrupt(s) PROVE HandlerInv'
  <2> DEFINE f == [kind |-> "isr", sig |-> s, ic |-> ic, as |-> async,
                   gc |-> gc, limit |-> limit, blocked |-> HandlerMask,
                   old |-> mask]
  <2>1. f \in Frame
    BY MaskFacts DEF TypeOK, Frame, IsrFrame, HandlerMask
  <2>2. HasFunction(f, lambda)
    BY <1>10 DEF HasFunction, Interrupt, Caught
  <2>3. stack' = Append(stack, f) /\ deferred' = deferred
    BY <1>10 DEF Interrupt, Pushed
  <2> HIDE DEF f
  <2> QED BY <1>6, <1>9, <2>1, <2>2, <2>3 DEF HandlerInv
<1>11. ASSUME NEW s \in Maskable, Defer(s) PROVE HandlerInv'
  <2>1. lambda' = lambda /\ stack' = stack /\ deferred' = deferred \cup {s}
        /\ lambda[s] = "fun"
    BY <1>11 DEF Defer, Caught
  <2> QED BY <1>3, <1>4, <1>9, <2>1 DEF HandlerInv
<1>12. ASSUME NEW again \in BOOLEAN, IsrReturn(again) PROVE HandlerInv'
  <2>1. /\ stack' = Popped /\ Top.kind = "isr" /\ lambda' = lambda
        /\ deferred' \subseteq deferred \cup {Top.sig}
    BY <1>12 DEF IsrReturn
  <2>2. stack # <<>>
    BY <2>1, TopFacts
  <2>3. lambda[Top.sig] = "fun"
    BY <1>7, <2>1, <2>2 DEF HasFunction
  <2> QED BY <1>8, <1>9, <2>1, <2>2, <2>3 DEF HandlerInv
<1>13. CASE BeginCheck \/ BeginIo
  <2> DEFINE g == [kind |-> "check", sd |-> deferred]
             f == [kind |-> "enter-io", save |-> async]
  <2>1. g \in Frame /\ f \in Frame
    BY DEF TypeOK, Frame, CheckFrame, IoFrame
  <2>2. HasFunction(f, lambda) /\ HasFunction(g, lambda)
    BY DEF HasFunction, HandlerInv
  <2>3. /\ stack' \in {Append(stack, g), Append(stack, f),
                       Append(Append(stack, f), g)}
        /\ deferred' = deferred
    BY <1>13 DEF BeginCheck, BeginIo, Pushed
  <2> HIDE DEF f, g
  <2>4. \A i \in DOMAIN stack' : HasFunction(stack'[i], lambda')
    <3>1. CASE stack' = Append(Append(stack, f), g)
      <4> DEFINE p == Append(stack, f)
      <4>1. p \in Seq(Frame) /\ \A i \in DOMAIN p : HasFunction(p[i], lambda)
        BY <1>4, <2>1, <2>2, KeepPushed
      <4>2. stack' = Append(p, g)
        BY <3>1
      <4> HIDE DEF p
      <4>3. stack' \in Seq(Frame) /\ \A i \in DOMAIN Append(p, g) : HasFunction(Append(p, g)[i], lambda)
        BY <2>1, <2>2, <4>1, <4>2, KeepPushed
      <4> QED BY <1>3, <4>2, <4>3
    <3> QED BY <1>6, <2>1, <2>2, <2>3, <3>1
  <2> QED BY <1>9, <2>3, <2>4 DEF HandlerInv
<1>14. CASE CheckNext
  <2> DEFINE s == Lowest(Top.sd)
             f == [Top EXCEPT !.sd = @ \ {s}]
             g == [kind |-> "call", sig |-> s, fun |-> lambda[s]]
             p == Append(Popped, f)
  <2>1. Top.kind = "check" /\ Top.sd # {} /\ stack # <<>> /\ Top \in CheckFrame
    BY <1>14, TopFacts, FrameKinds DEF CheckNext
  <2>2. s \in Top.sd /\ s \in Maskable
    BY <2>1, LowestFacts DEF CheckFrame
  <2>3. f \in Frame /\ g \in Frame /\ lambda[s] = "fun"
        /\ \A t \in Top.sd : lambda[t] = "fun"
    BY <1>7, <2>1, <2>2 DEF TypeOK, Frame, CheckFrame, CallFrame, HasFunction
  <2>4. HasFunction(f, lambda) /\ HasFunction(g, lambda)
    BY <2>1, <2>3 DEF HasFunction, CheckFrame
  <2>5. stack' = Append(p, g) /\ deferred' \subseteq Top.sd /\ lambda' = lambda
    BY <1>14 DEF CheckNext, Remaining
  <2> HIDE DEF f, g, s
  <2>6. p \in Seq(Frame) /\ \A i \in DOMAIN p : HasFunction(p[i], lambda)
    BY <1>7, <2>1, <2>3, <2>4, KeepPushed
  <2> HIDE DEF p
  <2>7. stack' \in Seq(Frame)
        /\ \A i \in DOMAIN Append(p, g) : HasFunction(Append(p, g)[i], lambda)
    BY <2>3, <2>4, <2>5, <2>6, KeepPushed
  <2> QED BY <1>3, <2>3, <2>5, <2>7 DEF HandlerInv
<1>15. CASE CallReturn \/ CheckDone \/ EndIo \/ LeaveCatch
  <2>1. stack' = Popped /\ Top.kind # "main" /\ deferred' = deferred
    BY <1>15 DEF CallReturn, CheckDone, EndIo, LeaveCatch
  <2>2. stack # <<>>
    BY <2>1, TopFacts
  <2> QED BY <1>8, <1>9, <2>1, <2>2 DEF HandlerInv
<1>16. CASE BeginSet \/ EnterCatch
  <2>1. PICK f \in Frame : /\ f.kind \in {"set", "catch"}
                           /\ stack' = Append(stack, f)
    <3>1. [kind |-> "catch", se |-> async, gc |-> gc, blocked |-> cache]
            \in Frame
      BY DEF TypeOK, Frame, CatchFrame
    <3>2. [kind |-> "set", saved |-> IF cache = Sig THEN cache ELSE mask]
            \in Frame
      BY <1>1 DEF TypeOK, Frame, SetFrame
    <3> QED BY <1>16, <3>1, <3>2 DEF BeginSet, EnterCatch, Pushed
  <2>2. HasFunction(f, lambda)
    BY <2>1 DEF HasFunction
  <2>3. deferred' = deferred
    BY <1>16 DEF BeginSet, EnterCatch
  <2> QED BY <1>6, <1>9, <2>1, <2>2, <2>3 DEF HandlerInv
<1>17. ASSUME NEW s \in Maskable, NEW spec \in Spec3, FinishSet(s, spec)
       PROVE  HandlerInv'
  <2>1. stack' = Popped /\ Top.kind # "main" /\ deferred' \subseteq deferred
    BY <1>17 DEF FinishSet, Cleared
  <2>2. stack # <<>>
    BY <2>1, TopFacts
  <2> QED BY <1>8, <1>9, <2>1, <2>2 DEF HandlerInv
<1>18. CASE EnterIo
  <2> DEFINE f == [Top EXCEPT !.kind = "io"]
  <2>1. Top.kind = "enter-io" /\ stack # <<>> /\ Top \in IoFrame
    BY <1>18, TopFacts, FrameKinds DEF EnterIo
  <2>2. f \in Frame /\ f.kind = "io"
    BY <2>1 DEF Frame, IoFrame
  <2>3. HasFunction(f, lambda)
    BY <2>2 DEF HasFunction
  <2>4. stack' = Append(Popped, f) /\ deferred' = deferred
    BY <1>18 DEF EnterIo
  <2> HIDE DEF f
  <2>5. stack' \in Seq(Frame)
        /\ \A i \in DOMAIN Append(Popped, f) : HasFunction(Append(Popped, f)[i], lambda)
    BY <1>7, <2>1, <2>2, <2>3, <2>4, KeepPushed
  <2> QED BY <1>3, <1>9, <2>4, <2>5 DEF HandlerInv
<1>19. CASE Throw \/ ThrowFromIsr
  <2>1. stack' = SubSeq(stack, 1, Stop - 1) /\ deferred' = deferred
        /\ OnStack("catch")
    BY <1>19 DEF Throw, ThrowFromIsr
  <2>2. Stop - 1 \in 0 .. Len(stack)
    BY <2>1, StopFacts, TopFacts
  <2> QED BY <1>5, <1>9, <2>1, <2>2 DEF HandlerInv
<1>20. CASE UNCHANGED vars
  BY <1>3, <1>4, <1>9, <1>20 DEF vars, HandlerInv
<1> QED
  BY <1>10, <1>11, <1>12, <1>13, <1>14, <1>15, <1>16, <1>17, <1>18, <1>19,
     <1>20 DEF Next, Arrival

\* No step disturbs that while removals are orderly.
LEMMA HandlerInvariance ==
  Spec /\ [][Orderly]_vars => []HandlerInv
<1>1. Init => HandlerInv
  BY EmptySeq DEF Init, HandlerInv
<1>2. IInv /\ HandlerInv /\ [Next]_vars /\ [Orderly]_vars => HandlerInv'
  <2> SUFFICES ASSUME IInv, HandlerInv, [Next]_vars, [Orderly]_vars
               PROVE  HandlerInv'
    OBVIOUS
  <2>1. CASE lambda' = lambda
    BY <2>1, NextHandlerInv
  <2>2. CASE Orderly /\ \E s \in Maskable, spec \in Spec3 : FinishSet(s, spec)
    BY <2>2, FinishHandlerInv
  <2> QED BY <2>1, <2>2, FunctionsStay DEF vars
<1> QED BY <1>1, <1>2, Invariance, PTL DEF Spec

\* sig_check calls nothing but functions, if none is removed while an
\* activation is about to call it or to defer its signal.
THEOREM OnlyFunctionsCalled ==
  Spec /\ [][Orderly]_vars => []CallsFunctions
<1>1. HandlerInv => CallsFunctions
  BY DEF HandlerInv, HasFunction, CallsFunctions
<1> QED BY <1>1, HandlerInvariance, PTL

\* The activation is sig_check with something left to call.
Calling(f) == f.kind = "check" /\ f.sd # {}

\* Every check in progress still has to call what is deferred in D, and what
\* the checks that began later have to call.
Nested(st, D) ==
  /\ \A i \in DOMAIN st : Calling(st[i]) => D \subseteq st[i].sd
  /\ \A i, j \in DOMAIN st :
       i < j /\ Calling(st[i]) /\ Calling(st[j]) => st[j].sd \subseteq st[i].sd

NestInv == Nested(stack, deferred)

\* Dropping activations from the top.
LEMMA NestPrefix ==
  ASSUME TypeOK, NEW D, Nested(stack, D), NEW k \in 0 .. Len(stack)
  PROVE  LET p == SubSeq(stack, 1, k)
         IN  /\ p \in Seq(Frame) /\ Nested(p, D)
             /\ DOMAIN p = 1 .. k /\ \A i \in DOMAIN p : p[i] = stack[i]
<1> DEFINE p == SubSeq(stack, 1, k)
<1>0. Len(stack) \in Nat /\ DOMAIN stack = 1 .. Len(stack) /\ k \in Nat
  BY TopFacts
<1>1. \A i \in 1 .. k : stack[i] \in Frame
  BY <1>0, ElementOfSeq DEF TypeOK
<1>2. p \in Seq(Frame) /\ Len(p) = k /\ \A i \in 1 .. k : p[i] = stack[i]
  BY <1>0, <1>1, SubSeqProperties
<1>3. DOMAIN p = 1 .. k
  BY <1>2, LenProperties
<1> HIDE DEF p
<1>4. Nested(p, D)
  BY <1>0, <1>2, <1>3 DEF Nested
<1> QED BY <1>2, <1>3, <1>4 DEF p

\* Entering an activation; a check has all that is deferred to call.
LEMMA NestPushed ==
  ASSUME NEW st \in Seq(Frame), NEW D, Nested(st, D),
         NEW f \in Frame, Calling(f) => f.sd = D
  PROVE  LET p == Append(st, f) IN p \in Seq(Frame) /\ Nested(p, D)
<1> DEFINE p == Append(st, f)
<1>0. Len(st) \in Nat /\ DOMAIN st = 1 .. Len(st)
  BY LenProperties
<1>1. /\ p \in Seq(Frame) /\ Len(p) = Len(st) + 1
      /\ p[Len(st) + 1] = f /\ \A i \in 1 .. Len(st) : p[i] = st[i]
  BY AppendProperties
<1>2. DOMAIN p = 1 .. Len(st) + 1
  BY <1>1, LenProperties
<1> HIDE DEF p
<1>3. \A i \in DOMAIN p : Calling(p[i]) => D \subseteq p[i].sd
  <2> SUFFICES ASSUME NEW i \in DOMAIN p, Calling(p[i]) PROVE D \subseteq p[i].sd
    OBVIOUS
  <2>1. CASE i = Len(st) + 1
    BY <1>1, <2>1
  <2>2. CASE i # Len(st) + 1
    <3>1. i \in DOMAIN st /\ p[i] = st[i]
      BY <1>0, <1>1, <1>2, <2>2
    <3> QED BY <3>1 DEF Nested
  <2> QED BY <2>1, <2>2
<1>4. ASSUME NEW i \in DOMAIN p, NEW j \in DOMAIN p, i < j,
             Calling(p[i]), Calling(p[j])
      PROVE  p[j].sd \subseteq p[i].sd
  <2>1. i \in DOMAIN st /\ p[i] = st[i]
    BY <1>0, <1>1, <1>2, <1>4
  <2>2. CASE j = Len(st) + 1
    <3>1. p[j].sd = D
      BY <1>1, <1>4, <2>2
    <3> QED BY <1>4, <2>1, <3>1 DEF Nested
  <2>3. CASE j # Len(st) + 1
    <3>1. j \in DOMAIN st /\ p[j] = st[j]
      BY <1>0, <1>1, <1>2, <2>3
    <3> QED BY <1>4, <2>1, <3>1 DEF Nested
  <2> QED BY <2>2, <2>3
<1> QED BY <1>1, <1>3, <1>4 DEF p, Nested

\* A check that nothing else arrives in leaves the ones below it nested.
LEMMA NextNestInv ==
  ASSUME IInv, NestInv, Timely, Next
  PROVE  NestInv'
<1> USE DEF IInv
<1>2. (\A s \in deferred' \ deferred : \A i \in DOMAIN stack :
         Calling(stack[i]) => s \in stack[i].sd) => Nested(stack, deferred')
  BY DEF NestInv, Nested
<1>3. Nested(stack, deferred')
  BY <1>2 DEF Timely, Calling
<1>4. ASSUME NEW k \in 0 .. Len(stack), stack' = SubSeq(stack, 1, k),
             Nested(stack, deferred')
      PROVE  NestInv'
  <2>1. Nested(SubSeq(stack, 1, k), deferred')
    BY <1>4, NestPrefix
  <2> QED BY <1>4, <2>1 DEF NestInv
<1>5. stack \in Seq(Frame)
  BY DEF TypeOK
<1>6. ASSUME NEW f \in Frame, Calling(f) => f.sd = deferred', deferred' = deferred,
             stack' = Append(stack, f)
      PROVE  NestInv'
  <2>1. Nested(Append(stack, f), deferred')
    BY <1>5, <1>6, NestPushed DEF NestInv
  <2> QED BY <1>6, <2>1 DEF NestInv
<1>7. stack # <<>> => /\ Len(stack) - 1 \in 0 .. Len(stack)
                      /\ Popped = SubSeq(stack, 1, Len(stack) - 1)
                      /\ Len(stack) \in Nat /\ DOMAIN stack = 1 .. Len(stack)
                      /\ Top = stack[Len(stack)]
  <2>1. stack # <<>> => /\ Len(stack) - 1 \in 0 .. Len(stack)
                        /\ Len(stack) \in Nat /\ DOMAIN stack = 1 .. Len(stack)
    BY TopFacts
  <2> QED BY <2>1 DEF Popped, Top
<1>8. ASSUME NEW s \in Maskable, Interrupt(s) PROVE NestInv'
  <2> DEFINE f == [kind |-> "isr", sig |-> s, ic |-> ic, as |-> async,
                   gc |-> gc, limit |-> limit, blocked |-> HandlerMask,
                   old |-> mask]
  <2>1. f \in Frame /\ ~Calling(f)
    BY MaskFacts DEF TypeOK, Frame, IsrFrame, HandlerMask, Calling
  <2>2. stack' = Append(stack, f) /\ deferred' = deferred
    BY <1>8 DEF Interrupt, Pushed
  <2> HIDE DEF f
  <2> QED BY <1>6, <2>1, <2>2
<1>9. ASSUME NEW s \in Maskable, Defer(s) PROVE NestInv'
  <2>1. stack' = stack
    BY <1>9 DEF Defer
  <2> QED BY <1>3, <2>1 DEF NestInv
<1>10. CASE BeginCheck \/ BeginIo
  <2> DEFINE g == [kind |-> "check", sd |-> deferred]
             f == [kind |-> "enter-io", save |-> async]
  <2>1. g \in Frame /\ f \in Frame /\ ~Calling(f) /\ g.sd = deferred
    BY DEF TypeOK, Frame, CheckFrame, IoFrame, Calling
  <2>2. /\ stack' \in {Append(stack, g), Append(stack, f),
                       Append(Append(stack, f), g)}
        /\ deferred' = deferred
    BY <1>10 DEF BeginCheck, BeginIo, Pushed
  <2> HIDE DEF f, g
  <2>3. CASE stack' = Append(Append(stack, f), g)
    <3> DEFINE p == Append(stack, f)
    <3>1. p \in Seq(Frame) /\ Nested(p, deferred)
      BY <1>5, <2>1, NestPushed DEF NestInv
    <3> HIDE DEF p
    <3>2. Nested(Append(p, g), deferred)
      BY <2>1, <3>1, NestPushed
    <3>3. stack' = Append(p, g)
      BY <2>3 DEF p
    <3> QED BY <2>2, <3>2, <3>3 DEF NestInv
  <2> QED BY <1>6, <2>1, <2>2, <2>3
<1>11. CASE CheckNext
  <2> DEFINE s == Lowest(Top.sd)
             D == Top.sd \ {s}
             f == [Top EXCEPT !.sd = @ \ {s}]
             g == [kind |-> "call", sig |-> s, fun |-> lambda[s]]
  <2>1. Top.kind = "check" /\ Top.sd # {} /\ stack # <<>> /\ Top \in CheckFrame
    BY <1>11, TopFacts, FrameKinds DEF CheckNext
  <2>2. s \in Top.sd /\ s \in Maskable
    BY <2>1, LowestFacts DEF CheckFrame
  <2>3. f \in Frame /\ g \in Frame /\ f.sd = D /\ ~Calling(g)
    BY <2>1, <2>2 DEF TypeOK, Frame, CheckFrame, CallFrame, Calling
  <2>4. stack' = Append(Append(Popped, f), g) /\ deferred' = D
    BY <1>11 DEF CheckNext, Remaining
  <2>5. D \subseteq Top.sd
    OBVIOUS
  <2> HIDE DEF f, g, s, D
  <2>6. Popped \in Seq(Frame) /\ Nested(Popped, D)
    <3>1. /\ Popped \in Seq(Frame) /\ Nested(Popped, deferred)
          /\ DOMAIN Popped = 1 .. Len(stack) - 1
          /\ \A i \in DOMAIN Popped : Popped[i] = stack[i]
      BY <1>7, <2>1, NestPrefix DEF NestInv
    <3>2. \A i \in DOMAIN Popped : i \in DOMAIN stack /\ i < Len(stack)
      BY <1>7, <2>1, <3>1
    <3>3. Len(stack) \in DOMAIN stack /\ Calling(stack[Len(stack)])
      BY <1>7, <2>1 DEF Calling
    <3>4. \A i \in DOMAIN Popped : Calling(Popped[i]) => Top.sd \subseteq Popped[i].sd
      BY <1>7, <2>1, <3>1, <3>2, <3>3 DEF NestInv, Nested
    <3>5. \A i \in DOMAIN Popped : Calling(Popped[i]) => D \subseteq Popped[i].sd
      BY <2>5, <3>4
    <3> QED BY <3>1, <3>5 DEF Nested
  <2> DEFINE p == Append(Popped, f)
  <2>7. p \in Seq(Frame) /\ Nested(p, D)
    BY <2>3, <2>6, NestPushed
  <2>8. stack' = Append(p, g)
    BY <2>4
  <2> HIDE DEF p
  <2>9. Nested(Append(p, g), D)
    BY <2>3, <2>7, NestPushed
  <2> QED BY <2>4, <2>8, <2>9 DEF NestInv
<1>12. CASE \/ \E again \in BOOLEAN : IsrReturn(again)
            \/ CallReturn \/ CheckDone \/ EndIo \/ LeaveCatch
            \/ \E s \in Maskable, spec \in Spec3 : FinishSet(s, spec)
  <2>1. stack' = Popped /\ Top.kind # "main"
    BY <1>12 DEF IsrReturn, CallReturn, CheckDone, EndIo, LeaveCatch, FinishSet
  <2>2. stack # <<>>
    BY <2>1, TopFacts
  <2> QED BY <1>3, <1>4, <1>7, <2>1, <2>2
<1>13. CASE BeginSet \/ EnterCatch
  <2>1. PICK f \in Frame : /\ f.kind \in {"set", "catch"}
                           /\ stack' = Append(stack, f)
    <3>0. Maskable \subseteq Sig
      BY MaskFacts
    <3>1. [kind |-> "catch", se |-> async, gc |-> gc, blocked |-> cache]
            \in Frame
      BY DEF TypeOK, Frame, CatchFrame
    <3>2. [kind |-> "set", saved |-> IF cache = Sig THEN cache ELSE mask]
            \in Frame
      BY <3>0 DEF TypeOK, Frame, SetFrame
    <3> QED BY <1>13, <3>1, <3>2 DEF BeginSet, EnterCatch, Pushed
  <2>2. ~Calling(f) /\ deferred' = deferred
    BY <1>13, <2>1 DEF Calling, BeginSet, EnterCatch
  <2> QED BY <1>6, <2>1, <2>2
<1>14. CASE EnterIo
  <2> DEFINE f == [Top EXCEPT !.kind = "io"]
  <2>1. Top.kind = "enter-io" /\ stack # <<>> /\ Top \in IoFrame
    BY <1>14, TopFacts, FrameKinds DEF EnterIo
  <2>2. f \in Frame /\ ~Calling(f)
    BY <2>1 DEF Frame, IoFrame, Calling
  <2>3. stack' = Append(Popped, f) /\ deferred' = deferred
    BY <1>14 DEF EnterIo
  <2> HIDE DEF f
  <2>4. Popped \in Seq(Frame) /\ Nested(Popped, deferred)
    BY <1>7, <2>1, NestPrefix DEF NestInv
  <2>5. Nested(Append(Popped, f), deferred)
    BY <2>2, <2>4, NestPushed
  <2> QED BY <2>3, <2>5 DEF NestInv
<1>15. CASE Throw \/ ThrowFromIsr
  <2>1. stack' = SubSeq(stack, 1, Stop - 1) /\ deferred' = deferred
        /\ OnStack("catch")
    BY <1>15 DEF Throw, ThrowFromIsr
  <2>2. Stop - 1 \in 0 .. Len(stack)
    BY <2>1, StopFacts, TopFacts
  <2> QED BY <1>3, <1>4, <2>1, <2>2
<1> QED
  BY <1>8, <1>9, <1>10, <1>11, <1>12, <1>13, <1>14, <1>15 DEF Next, Arrival

\* Whatever is deferred stays deferred until its function is called or is
\* removed, for any number of signals, provided that none arrives that a
\* check in progress will not call (Timely) and that no function is removed
\* that an activation is about (Orderly).  Without the first a check stores
\* the mask it read when it began over what has arrived since.
THEOREM NothingDeferredLost ==
  Spec /\ [][Timely]_vars /\ [][Orderly]_vars => DeferredKept
<1>1. Init => NestInv
  BY EmptySeq DEF Init, NestInv, Nested
<1>2. IInv /\ NestInv /\ [Next]_vars /\ [Timely]_vars => NestInv'
  <2>1. CASE UNCHANGED vars
    BY <2>1 DEF vars, NestInv
  <2> QED BY <2>1, NextNestInv
<1>3. IInv /\ HandlerInv /\ NestInv /\ [Next]_vars =>
        [\A s \in deferred \ deferred' :
           \/ Top'.kind = "call" /\ Top'.sig = s /\ Top'.fun = "fun"
           \/ lambda[s] = "fun" /\ lambda'[s] # "fun"]_vars
  <2> SUFFICES ASSUME IInv, HandlerInv, NestInv, Next,
                      NEW s \in deferred \ deferred'
               PROVE  \/ Top'.kind = "call" /\ Top'.sig = s /\ Top'.fun = "fun"
                      \/ lambda[s] = "fun" /\ lambda'[s] # "fun"
    OBVIOUS
  <2>1. s \in deferred /\ s \notin deferred' /\ lambda[s] = "fun" /\ s \in Maskable
    BY DEF IInv, TypeOK, HandlerInv
  <2>2. CASE CheckNext
    <3>1. Top.kind = "check" /\ Top.sd # {} /\ Top \in CheckFrame
      BY <2>2, TopFacts, FrameKinds DEF CheckNext, IInv
    <3>2. stack # <<>> /\ Len(stack) \in DOMAIN stack /\ Top = stack[Len(stack)]
      BY <3>1, TopFacts DEF Top, IInv
    <3>3. deferred \subseteq Top.sd
      BY <3>1, <3>2 DEF NestInv, Nested, Calling
    <3>4. Lowest(Top.sd) = s
      BY <2>1, <2>2, <3>3 DEF CheckNext, Remaining
    <3> DEFINE f == [Top EXCEPT !.sd = @ \ {s}]
               g == [kind |-> "call", sig |-> s, fun |-> lambda[s]]
    <3>5. stack' = Append(Append(Popped, f), g)
      BY <2>2, <3>4 DEF CheckNext
    <3>6. f \in Frame /\ g \in Frame
      BY <2>1, <3>1 DEF IInv, TypeOK, Frame, CheckFrame, CallFrame
    <3>7. Popped \in Seq(Frame)
      BY <3>1, PopPlain DEF Plain, IInv
    <3> HIDE DEF f, g
    <3>8. Append(Popped, f) \in Seq(Frame)
      BY <3>6, <3>7, AppendProperties
    <3>9. stack' # <<>> /\ stack'[Len(stack')] = g
      BY <3>5, <3>6, <3>8, AppendProperties
    <3> QED BY <2>1, <3>9 DEF Top, g
  <2>3. ASSUME NEW t \in Maskable, NEW spec \in Spec3, FinishSet(t, spec)
        PROVE  lambda[s] = "fun" /\ lambda'[s] # "fun"
    BY <2>1, <2>3 DEF FinishSet, Cleared, IInv, TypeOK
  <2> QED
    BY <2>1, <2>2, <2>3 DEF Next, vars, flags, masks, Arrival, Interrupt,
       Defer, IsrReturn, BeginCheck, CallReturn, CheckDone, BeginSet, BeginIo,
       EnterIo, EndIo, EnterCatch, LeaveCatch, Throw, ThrowFromIsr
<1>4. Spec /\ [][Orderly]_vars => []HandlerInv
  BY HandlerInvariance
<1> QED BY <1>1, <1>2, <1>3, <1>4, Invariance, PTL DEF Spec, DeferredKept
=============================================================================

# A TLA+ verification of TXR

TXR is a data-munging language: a pattern language for extracting data from text
(`match.c`) and TXR Lisp, a Lisp dialect with its own run-time (everything
else).  The program is one C process with one thread.  What makes it hard is
not threads but re-entrance: a garbage collection can start inside any
allocation and inside some stores, a signal handler can run Lisp code between
any two instructions of an unblocked region, a finalizer or a hash function can
call back into the structure that is calling it, and a non-local exit can leave
any of these half way.

This directory holds TLA+ models of the parts where that matters, configurations
that check them with TLC, and theorems about them that TLAPS checks.

## 1. Inventory

| part | source | state | operations | how it meets the others |
|---|---|---|---|---|
| generational heap | `gc.c` | heap blocks, free list, `t.gen` and REACHABLE bits, `freshobj`, `checkobj`, `mutobj`, `full_gc`, `gc_enabled` | `make_obj`, `gc_set`, `gc_mutated`, `gc`, `gc_state` | everything allocates; every store of a reference must pass the barrier |
| finalizers | `gc.c` | `final_list`, `fincount`, `inprogress` | `finalize`, `call-finalizers`, `prepare_finals`, `call_finals` | call user code out of the collector; structs and streams register themselves |
| weak tables | `hash.c` | `reachable_weak_hashes`, `reachable_weak_iters`, weakness options | `hash_mark`, `hash_process_weak` | run by `gc` between marking and finalizers |
| recycled conses | `lib.c` | `recycled_conses` | `rcyc_cons`, `rcyc_pop`, `rcyc_empty`, `cons` | a second free list on top of the heap's |
| hash tables | `hash.c` | table vector, `mask`, `count`, `usecount` | lookup, insert, delete with back shift, resize, iterators | hash and equality functions may call Lisp code |
| signals | `signal.c`, `signal.h` | `async_sig_enabled`, `sig_deferred`, `deferred[]`, lambdas, cached mask | `set_sig_handler`, handler entry, `sig_check`, `sig_save_enable`, `sig_restore_enable` | `make_obj` asserts that asynchronous signals are off; jumps save and restore the state |
| unwinding | `unwind.c` | frame stack, `uw_exit_point`, dynamic environment, continuation stacks | push and pop of frames, `uw_throw`, `uw_block_return`, `uw_unwind_to_exit_point`, capture and revive of continuations | frames live on the C stack; `extjmp` restores gc and signal state |
| structs | `struct.c` | types, slot hash, static slot arrays, slot caches on symbols | `make_struct_type`, `make_struct`, `slot`, `slotset`, static slot inheritance, lazy initialization | constructors and finalizers are user code |
| search trees | `tree.c` | nodes, `size`, `max_size`, iterators | insert with scapegoat rebuild, delete, iterate | key and comparison functions are user code |
| virtual machine | `vm.c` | frames, display levels, closures, symbol binding caches | `vm_execute`, `vm_funcall`, `vm_make_closure`, jumps | runs compiled Lisp; catches are unwind frames |
| evaluator, expander, match | `eval.c`, `match.c` | environments, special variables, binding caches | `eval`, `expand`, pattern directives | tree walking over syntax |
| parser | `parser.c`, `lex.yy.c.shipped`, `y.tab.c.shipped` | pushback, token stream, syntax tree, circular references | `parse`, circular-reference patching | raw stores into mature syntax followed by `mut` |
| regex | `regex.c` | NFA and derivative back ends, character classes | compile, `regex_machine_feed`, match | pure once compiled |
| strings, lists, sequences | `lib.c` | objects | list building, lazy strings, sequences, symbols and packages | everything |
| arithmetic | `arith.c`, `mpi/` | none | fixnum, bignum and float operations | pure |
| streams | `stream.c`, `gzio.c`, `strudel.c` | buffers, UTF-8 decoders, pushback, process handles | get and put of characters and bytes, indentation, close | external files and processes |
| UTF-8 | `utf8.c` | decoder state | `utf8_decode`, `utf8_encode`, push and pull conversion | used by streams |
| buffers, carrays, FFI | `buf.c`, `ffi.c`, `itypes.c` | bytes, types | get and put of sized integers, conversion | external C code |
| system | `sysif.c`, `socket.c`, `termios.c`, `time.c`, `syslog.c`, `ftw.c`, `glob.c` | operating system | calls through to the C library | external |
| command line, REPL | `txr.c`, `linenoise/`, `debug.c` | options, terminal | interactive editing | external |
| other algorithms | `combi.c`, `rand.c`, `psquare.c`, `chksum.c`, `chksums/`, `filter.c` | small | combinations, random numbers, quantile estimation, digests, tries | pure |
| Lisp library | `stdlib/` | none in C | compiler, macros | runs on the machine above |

What is hard, part by part, is the `hazards` list of `PROJECT.json`; each entry
names the line and the properties that would catch it.

The properties that make each part correct, in a line each: the heap never
reclaims what can still be reached, and in the end reclaims the rest; a
finalizer runs once, on an object nothing can reach, and may bring it back; weak
entries lapse with what they refer to and not before; a hash table is a map,
and a traversal of it meets every entry once; a signal is handled once, in a
state in which Lisp code may run, and none is lost; a non-local exit leaves all
this as the catch found it; a tree is sorted and balanced; a struct's slot is
found in its own type; the two UTF-8 decoders and the encoder agree.

## 2. Modules

| module | of | extends or instantiates |
|---|---|---|
| `Reachability` | reachability in a finite graph, as a least fixed point | – |
| `AbstractHeap` | a heap without a collector | `Reachability` |
| `GcHeap` | allocator, write barriers, collector (`gc.c`) | `Reachability`; instantiates `AbstractHeap` |
| `GcFinal` | finalization, on the whole of `GcHeap` | `GcHeap` |
| `Signals` | handlers, deferral, mask, what exits restore (`signal.c`) | – |
| `AbstractMap` | a set of keys | – |
| `Hash` | hash tables, their iterators, their part in a collection (`hash.c`) | instantiates `AbstractMap` |
| `AbstractTree` | a sequence of nodes in key order | – |
| `Tree` | search trees and their iterators (`tree.c`) | instantiates `AbstractTree` |
| `TreeGc` | the stores of `Tree` and the write barrier | `Tree` |
| `Unwind` | frames, throws, cleanups, continuations, callbacks (`unwind.c`, part of `ffi.c`) | – |
| `Slices`, `Sorting` | functions of every kind of sequence (`lib.c`, `buf.c`, `ffi.c`) | – |
| `Combi` | permutations and combinations (`combi.c`) | – |
| `Mpi`, `Arith` | integers of several digits; fixnums, bignums, characters (`mpi/`, `arith.c`) | `Arith` instantiates `Mpi` |
| `Regex`, `Derivatives`, `Nfa`, `Charsets`, `Matching` | regular expressions: rewriting, two back ends, character sets, the machine and its users (`regex.c`) | each the ones before |
| `Utf8` | encoder and the two decoders (`utf8.c`) | – |
| `LineMatch`, `Output`, `FileMatch` | the pattern language: in a line, output, in a file (`match.c`) | `LineMatch` |
| `Calls` | a program that calls pure functions | – |
| `SequenceCalls`, `NumberCalls`, `TextCalls`, `QueryCalls`, `Algorithms` | which functions with which arguments, and what the manual says they return | `Calls` and the modules above |
| `MC…` | instances for TLC | the module in the name |
| `GcHeapProofs`, `GcFinalProofs`, `SignalsProofs`, `HashProofs`, `TreeProofs`, `UnwindProofs` | theorems | the module in the name, `TLAPS` |
| `TreeShapes` | facts about binary trees, for `TreeProofs` | `Tree`, `TLAPS` |
| `LeastNumber` | every set of naturals has a least element | `TLAPS` |

Every definition that stands for code is listed under `map` in `PROJECT.json`,
with the lines.  A name with an underscore (`Enters_MinorAlways`) is a plausible
mistake in the definition it is named after; no specification uses it, and
`mutants` says which property it would break.

### The heap: `GcHeap`

A cell is an object; `slot` holds its reference fields, whatever its type.
`live` is the type field without its FREE bit, `flag` the REACHABLE bit, `gen`
is `t.gen`; `fresh`, `check` and `mutd` are the arrays `freshobj`, `checkobj`
and `mutobj` up to their indices.  They are sets: `ListsExact` says among other
things that nothing is in two of them, and a cell listed twice in one array
would have `gen` 1 when sweep meets it again, which is the abort of `GcAborts`.
`roots` stands for the registered locations and the live local variables of
the program; `junk`, chosen anew by each collection, for the words on the stack
and in registers that look like references (the collector scans conservatively).

The program has one thread, and `gc()` is one step, `Gc`.  What interleaves is
where it is entered from and returns to.  `pc` is "find" inside `make_obj`,
"gc" on entry to `gc()`, "store" in a `gc_set` whose barrier has collected
before the store; `op` is what `gc()` returns into.  `MakeObj`, `Refill` and
`TakeFree` are the head of `make_obj` and its loop; `Set` and `FinishSet` are
`gc_set` with `gc_assign_check`; `Replace` is `replace_struct`, as the user of
`gc_mutated` that copies fields; `GcState` and `GcWrap` are `gc_state` and
`gc_wrap`.  The mark phase's recursion is the least fixed point
`ReachedFrom`, cut at mature cells in a minor collection.

`AbstractHeap` is a graph in which a cell stays while it can be reached.
`Implements` maps the heap to the cells the program can reach: every step is an
abstract step or a stutter, so that no collection is visible.

### Finalization: `GcFinal`

All of `GcHeap`, whose steps are the program's and the finalizers'.  `finals` is
`final_list`; `calls` has one entry per activation of `call_finalizers_impl`:
the detached list `todo`, the object asked for, and the interrupted operation.
A finalizer is not a step but an interval: `CallNext` enters it, any steps of
the heap may follow, `Return` or `Throw` leaves it.  `FinalizerMay` says what
a finalizer called by `gc()` may do beyond allocating, loading, dropping and
collecting: store, register, throw.  `HarmlessSpec` of `MCGcFinal` restricts further
what the programs of the passing run do, because the findings below need little:
`final_revive` and `final_detached` are the runs without those restrictions.

### Signals: `Signals`

`stack` holds those activations that save something: a catch (the
`extended_jmp_buf`), `sig_handler`, `sig_check`, a call from it,
`set_sig_handler`, a region of `sig_save_enable`.  `Interrupt` and `Defer` are
the two ways through `sig_handler`, and may come between any two steps when
the kernel's mask admits the signal.  `cache` is `sig_blocked_cache`, `mask`
what the kernel has: `SetMask` is `sig_mask`, which makes no system call when
the cache says that nothing changes.  A throw unwinds from stop to stop:
`ThrowFromIsr` is the catch that `sig_handler` has of its own, `Throw` the end.

### Hash tables: `Hash`

`tabs` has every vector the table has had, the last one being `h->table`, since
iterators keep old ones; `old` is `h->tblstack`.  A cell is a key with a number,
because an iterator must tell an entry from a later one for the same key.  Keys
have arbitrary hash codes (`Hcode`).  Probing, the back shift of `hash_remove`
(`Without`), growth and the weak sweep (`Swept`) are recursive functions that
follow the loops of the code.  `Gc` is what `hash_mark`, `do_weak_tables` and
`do_iters` do to one table in a collection that marks it, `GcMinor` a
collection that does not.  Which iterators survive and which keys have died
is the environment's choice, within what the other references allow.
`begun`, `seen`, `twice` and `removal`, in an iterator, are history.

### Search trees: `Tree`, `TreeGc`

`tn` has the fields of every node; a node that neither the tree nor an iterator
refers to is blank, and insertion takes one.  The recursive functions of the
code are recursive functions over the nodes: `tr_insert` goes down with the
depth, decides on the way up whether a subtree is the scapegoat and rebuilds it
through a list (`tn_flatten`, `tn_build_tree`).  An iterator is the path of
ancestors with the state of `tn_find_next`; `todo` is history, the nodes it
should still visit.  `AbstractTree` is the manual's ordered sequence.  `TreeGc`
adds what each store does to the remembered set; a minor collection between two
operations takes what it does not reach.

### Unwinding: `Unwind`

`stk` is the frame stack; the address of a frame is its position, so that a
pointer to a popped frame may come to point to another.  The frames are blocks,
catches (with their phase: body, clause, cleanup), handlers, pattern matching
environments, dynamic bindings, the frames of throw and hook in progress,
foreign calls and the guards of callbacks.  `LeaveFrom` is
`uw_unwind_to_exit_point` from one place to the next cleanup (`StopAt`) or to
its end (`Arrive`); `uw_catch_end` goes on from there.  `Search` is the loop of
`uw_rthrow`: a catch takes the transfer, a handler is called on top of the
stack with a catch of its own (`Invoke`), and `HandlerEnd` resumes the search
below.  `Capture` copies the frames above a block and `Revive` pushes them,
with their links relocated by `revive_cont`.  A callback of `ffi.c` that a
transfer wants to leave stores it in `s_exit_point` (`sexit`) for the foreign
call to take up.  `Programs` says which operations a behaviour mixes.

### Pure functions: the `…Calls` modules

A state of `Calls` is a call with its arguments and its result.  The functions
are translated in the modules the calls extend: one definition for each
function of the code, with the code's own case distinctions; what is compared
is the result with a definition of what the manual says, over all arguments of
the instance.  Errors are results too.  `Slices` has what `lib.c` writes once
for lists, strings, lazy strings, vectors, buffers and carrays; `Arith` has
machine words of `Bits` bits, so that every boundary between fixnum and bignum
is met with small numbers; `Charsets` has the representation of character sets
with smaller tables.  `Nfa` and `Derivatives` are compared with the language of
the expression and with each other; the pattern directives of `LineMatch` and
`FileMatch` with the bindings that the manual's description of each directive
allows, as far as it says.

## 3. Runs

`tlc -workers 2 -config X.cfg M.tla` in this directory runs each in less than
five minutes.

| run (`.cfg`) | checks | shows |
|---|---|---|
| `gc_heap` (`GcHeap`) | `TypeOK` `NoDangling` `NoAbort` `Remembered` `ListsExact` `ListsFit` `NoBabiesAfterGc` `FullGcExact` `Implements` | over every interleaving of the program's steps the collector is safe, it cannot be seen, and full collections are exact |
| `final_gc` (`GcFinal`) | `AccessibleLive` `FincountCovers` `RegistrationsLive` `NoAbort` `FinalizesUnreachable` `RoundsShrink` | for finalizers that do not store: only unreachable objects are finalized, none is missed by a full collection, demotion takes nothing from the program, what is registered is kept, what registers itself again waits for the next collection |
| `signals` (`Signals`) | `AllBlocked` `CountExact` `GcRestored` `DeferredHandled` | the mask, the count and the collector's switch through any nesting of handlers, catches, calls and throws; the deferred signal of lowest number does not wait for ever |
| `hash` (`Hash`) | `TableSound` `SweepExact` `Implements` | the table is a set of keys, through removal and weak sweeps in clusters that wrap round, growth and clearing |
| `hash_iter` (`HashIter`) | `VisitsOnce` `UsesCounted` | unless an entry is removed meanwhile, a traversal meets every entry once, across growth, clearing, collection and reset; the use count, where it is right |
| `tree` (`Tree`) | `CountsExact` `Balance` `Traversal` `Implements` | the tree is the ordered sequence of the manual and stays balanced through every rebuild; traversals follow it |
| `unwind` (`Unwind`) | `ContextKept` `HandlersOff` `NoAbort` `TransferKept` `Cleanups` | no cleanup is skipped or repeated, environments and handlers are as the surviving frames say, transfers arrive, callbacks pass them across foreign code |
| `algorithms` (`Algorithms`) | `SequencesExact` `NumbersExact` `RegexExact` `CodingExact` `PatternsExact` | the functions return what the manual says, for every argument of the instance but those that the properties' comments name |
| `tree_barrier` (`TreeBarrier`) | `NoneReclaimed` is violated | section 6 |
| `signals_lost` (`SignalsLost`) | `DeferredKept` is violated | section 6 |
| `final_revive` (`GcFinalRevive`) | `AccessibleLive` is violated | section 6 |
| `final_detached` (`GcFinalDetached`) | `RegistrationsLive` is violated | section 6 |

### Bounds, and why they are enough

*Heap.*  Three blocks of one cell each, so that blocks are obtained, emptied and
given back; `freshobj` holds two, `checkobj` and `mutobj` one, every third
collection is full.  Each array overflows within a few steps, with collection
enabled and disabled.  A missed reference needs a mature cell, a baby and one
way to hide it: three cells.  A cell has one field; the proofs cover all
numbers of fields, cells and blocks.  `JunkMax` is 1: one stray word revives one
garbage structure, and the properties concern each structure alone.

*Finalization.*  A block of three cells and two registrations (`RegMax`), on one
object or two, of which one may be the other's child or its function; the third
cell holds on to either, or is what a collection demotes beside them.  `FinMax`, the
largest value of a bit field in the code, is 2, so that an object may have both
registrations, and one that registers itself again comes to the limit.  Every second
collection is full.  `DepthMax` 1 has one explicit `call-finalizers` at a time, with
collections in its finalizers.  `HarmlessSpec` names what the programs do not
do, each because without it a property is false or the run too large:

- `Single`: `call-finalizers` is used on objects with one registration
  (`final_detached` shows why);
- `RegistersItself`: a finalizer called by `gc()` registers its own object, as
  the manual suggests, with a function, and neither refers to a third cell
  (`final_revive`, and the rows on `NoAbort` in section 6);
- `AllocatesOnly`: a finalizer called by `call-finalizers` allocates, collects,
  returns and throws (a bound);
- `FewAfterThrow`: two cells are in use while a throw has left a count (a
  bound).

*Signals.*  An ordinary signal, a processor exception and one that cannot be
masked; five activations: a handler, under a region, under a catch, with
`sig_check` and a call inside it.  `DeferredKept` is in no passing run: with two
ordinary signals it fails, which `signals_lost` is about, and with one there is
nothing to overwrite.  What does hold for any number of signals is proved
(`NothingDeferredLost`).

*Hash.*  In `hash` a table of eight slots (the code's 256 to begin with) grows
when the fourth entry comes.  The hash codes give homes 7, 7, 6, 0 and 5: a
cluster that wraps round, with two keys that collide, one that belongs before
them and one displaced by them; after growth the first becomes 15, so that the
cluster falls apart.  `Instances` is 1: a key that is put back is the same
cell.  `hash_iter` begins with four slots, which two entries fill, and grows
under two iterators.  `Programs` lists which operations are explored together;
`hash` keeps clearing and collection apart because `clearhash` returns the
count, which after a weak sweep may be wrong.  `UseMax` bounds the use count,
which resets and collections drive away from the truth (section 6).

*Trees.*  Four keys and five nodes, so that every shape of up to five nodes with
duplicates occurs, deletion meets each of its cases (no child, one, a successor
that is the child itself, one further down with a subtree), and insertion at
`TREE_DEPTH_MAX` 2 rebuilds scapegoats at the root and below it.  One iterator
suffices, for iterators do not touch the tree.

*Unwinding.*  Six frames: a block or a catch to arrive at, a catch with a cleanup
on the way, a handler whose invocation takes two, and one that the cleanup or
the handler pushes.  `Tag` has one block name, since an inner block hides an
outer one of the same name.  `Programs` lists seven sets of two to six operations that
are explored together; two mechanisms that no set has both of do not meet in the runs.
The proofs have no such bound.

*Pure functions.*  Sequences of up to three elements (six when sorted, with
the median of three used from five on); six-bit words with two tag bits, so that
fixnums are −8 to 7; an alphabet of two
letters of which one is a digit and texts of up to three; up to three bytes of
UTF-8, among all that the decoder's branches tell apart; up to three lines or
elements.  The boundary cases of each function (the empty sequence, both ends,
positions counted from the end and outside, each type of number at each
limit) all occur.

### Fairness

`signals` is the only run with a liveness property.  It assumes strong fairness of
`BeginCheck` and of `CheckNext`: Lisp code that goes on running calls
`sig_check_fast` in every function call, and comes to it when signals are enabled
again and again.  And for each depth of the stack it assumes strong fairness of
`Progress`, the steps that end or carry on the activation there: what Lisp code calls
(a handler, a system call, the body of a catch) returns or throws.  Without
these a program that waits forever in a system call would keep a signal deferred,
and does.  No fairness is assumed of signals.  `DeferredHandled` is about the
deferred signal of lowest number, which `sig_check` calls first.  A higher one may
starve: its turn comes only when all lower ones have been called, and a throw out of
their handlers ends the check each time.

## 4. Proofs

The theorems hold for every value of the constants that meets the named
assumptions of the modules: any number of blocks of any equal size and of
reference fields, any sizes of the collector's arrays, any set of signals and
depth, any keys, hash codes and table sizes, any nodes, keys and iterators of a
tree, any number of registrations and of nested calls, any names and any depth of
the frame stack.

| module | theorems |
|---|---|
| `GcHeapProofs` | `TypeCorrect`, `HeapSafe` (`NoDangling`), `BarrierSufficient` (`Remembered`), `BookkeepingExact` (`ListsExact`, `NoStaleMarks`), `NeverAborts`, `Promotion` (`NoBabiesAfterGc`), `ArraysSafe` (`ListsFit`), `CollectorInvisible` (`Implements`), `FullCollectionExact` (`FullGcExact`) |
| `GcFinalProofs` | `CountsCover` (`FincountCovers`), `NothingLost` (`AccessibleLive`, `RegistrationsLive`), `OnlyUnreachable` (`FinalizesUnreachable`), `RegistrationsHold` (`RegistrationsLive`), `RegisteredWaits` (`RoundsShrink`) |
| `SignalsProofs` | `TypeCorrect`, `HandlersMasked` (`AllBlocked`), `CountRestored`, `CollectionRestored`, `NothingDeferredLost` (`DeferredKept`), `OnlyFunctionsCalled` |
| `HashProofs` | `TableInvariance`, `EntriesFound` (`TableSound`), `SweepRemovesTheDead`, `SetOfKeys` (`Implements`), `TraversalInvariance`, `EachVisitedOnce`, `UsesAreCounted` |
| `TreeProofs`, on `TreeShapes` | `TreesInv`, `CountsAlwaysExact` (`CountsExact`), `AlwaysBalanced` (`Balance`), `TraversesInOrder` (`Traversal`), `ImplementsSequence` (`Implements`) |
| `UnwindProofs` | `StackSound`, `ContextInvariance`, `HandlersInvariance`, `NoAbortInvariance`, `TransferInvariance`, `CleanupsRunOnce` |

Some theorems have a hypothesis on what the program does.  Most are there because
without them the statement is false, as section 6 tells, and TLC finds the
counterexample when the instance is given that ability.  Two are not: that no
continuation is captured (`Uncaptured` of `UnwindProofs`) and that
`call-finalizers` is not used (`DepthMax = 0` in `Mild` of `GcFinalProofs`).  There
the invariant is not worked out, and TLC's runs are what there is.

### The heap

`NoDangling` is not inductive.  That a collection reclaims only what nothing
refers to depends, if it is a minor one, on every reference from a mature
cell to a baby being noted (`Remembered`); that in turn on the lists naming
exactly the cells that are not mature (`ListsExact`), on no mark being left over
(`NoStaleMarks`) and on where in an operation the program is (`Control`: what
`op` holds is held by a root, and a barrier that has collected finds its child
mature).  `IInv` is the conjunction.  `Remembered` has one exception that the
proof cannot do without, and it is the code's: `gc_mutated` with `mutobj` full
collects before it has noted the object, and the babies of that object survive
because the object they were copied from holds them.

The argument per step: allocation adds a cell to `live` and `fresh` and nothing
refers to it; a store adds one reference, and `Unsafe` is exactly the
condition under which `Remembered` would break; a collection marks a set that is
closed under the references it follows (`MarkedFacts`), so that what it sweeps
has no reference from what stays.  `ListsFit` needs an invariant of its own
(`FitInv`), which says that a `freshobj` that is full implies a collection, or a
full one scheduled, before the next cell is listed.  `ReachedFrom` is defined
without recursion, as the least set closed under the edges.

`CollectorInvisible` maps a state to the graph of what the roots reach.  A
collection keeps that graph whole, so it is a stutter; a store or an allocation
changes the graph as `AbstractHeap` allows, because what it stores was held.

### Finalization

`CountsCover` is independent of what finalizers do.  `Registered` says that the
entries of the list and of each activation are for live objects, that at most
one activation is a collection's, and that `fincount` of a live object is at
least its entries on the list and in all activations together; the lemmas on
`Many` and `Owed` are the arithmetic of moving entries between lists.  The
hypothesis `[]AccessibleLive` is the other half: an object that were reclaimed
and allocated anew under a running program would get a count of zero.

`NothingLost` and `OnlyUnreachable` hold when finalizers called by the collector
neither store nor register, and nobody calls `call-finalizers` (`Mild`).
`NoDangling` does not hold even then, since an object that was finalized is made
a baby again while mature garbage, such as the closure that was its finalizer,
may refer to it.  `SafeInv` has two closed sets of live cells instead.  `S` is what the
program can get at once the finalizers have returned, and in it every
reference from a mature cell to a baby is noted; `T` is what it can get at now, with
what the finalizer was given.  The objects being finalized are in `T` and never
in `S`: so a demotion takes nothing from `S`; and because the count
of a demoted object was one, no registration on the list needs it either.
`GcSplit` is the main step: a collection that does not abort keeps two such sets.

`RegistrationsHold` lets finalizers do anything: register, store, throw, call others.
A collection marks the objects and functions on `final_list`, but of an activation
only what is in a C variable, which is the entry being called.  So the theorem is for
programs that use `call-finalizers` on objects with one registration (`Single`; with
two it is false, section 6).  An activation of `call_finals` may hold many, but
nothing is collected while one exists: `inprogress` is set, and `Alone` makes it the
only one.

`RegisteredWaits` is about the rounds of `call_finals`: a registration made while they
go on is marked reachable when it is made, so no later round takes it, and the list
being worked on only gets shorter.  It holds whatever finalizers do, as long as what is in
use is not reclaimed.  A program may make the rounds of an explicit `call-finalizers` go
on for ever, by a finalizer that registers itself, as `txr.1:82962` warns.

### Signals

An induction over `stack`.  What each activation saved fits what is below it
(`CatchFits`, `IsrFits`, `SetFits`): the value of `interrupt_count` that a catch
restores is the number of handlers below it, and so on.  Facts about a frame
mention nothing above it, so pushing and popping leave the others as they are,
and a throw, which pops many at once, restores what its catch saved.
`NothingDeferredLost` is for any number of signals and any depth.  `sig_check` stores
its copy of the deferred signals back, so what arrived since would be lost; the
theorem's hypotheses exclude exactly that, and nothing else: no signal arrives that a
check in progress will not call (`Timely`), and no function is removed that an activation
is about to call (`Orderly`).  The invariant is `Nested`: what a check has still to
call includes what every check above it has, and all that is deferred.  A check
that begins, a handler that calls another, and a throw that passes several checks
preserve it, so that every store of a copy is one of a set that has all there is.
`OnlyFunctionsCalled` needs `Orderly` only.

### Hash tables

The first part of `HashProofs` proves what the loops over a table compute.  They are recursive
functions; where a proof needs an induction it takes the least turn that would
falsify the claim (`LeastNat` of `LeastNumber`) and shows the turn before it to
do so already.  `TabInv` says that an entry lies in the cluster that begins at
its home, with no empty slot between, and that there is an empty slot;
`IterInv` that an active iterator's table is kept for it and that it has met
what it has passed.  Back-shift deletion and the weak sweep, which edits the table
it walks, are the hard steps: what they move stays reachable from its home.
`SetOfKeys` assumes that no program both clears a table and lets the collector
sweep it (`CountKept`), because `clearhash` returns the count, which a sweep
that wraps can leave too large.  `UsesAreCounted` is for as long as nothing is
collected and no iterator is reset.

### Search trees

`Inv` has two parts.  `TreeOK`: the links form no cycle (`Forest`: some rank falls
from each node to its children), no node is in the tree twice, the nodes are in key
order, `size` is their number, `size` ≤ `max_size` ≤ 2·`size`, and the height
is at most that of a balanced tree of `max_size` nodes.  The last bound is what
makes `Balance` inductive, for a deletion lowers `size` and not the height.
`ItersOK`: an iterator that no change of the tree has overtaken stands between the
nodes it has visited and the others, in order, and its path is the ancestors of the
last one.

The walks of `tree.c` are recursive functions over nodes, and the library's
induction theorems cannot be used; a claim about all nodes of a forest is proved
by going to a node of least rank for which it fails (`TreeInduction`).  That
such a function exists at all, and equals its body, is proved the same way
(`TreeRecursion`).  `TreeShapes` takes a tree apart along the way from its root to
a node: the sequence of nodes is some, those of the subtree, and the rest, so that a change
below changes that middle part only.  Replacing a subtree by one with the same
sequence (`tn_flatten` and `tn_build_tree`) leaves the order as it was and
makes the height logarithmic.  The step a reader may doubt is `RepairMends`: an
insertion that went too deep has met an ancestor that `tr_insert` finds
unbalanced.  Its test compares the subtree it came from and all the rest, the node
itself included, with half of the whole, so only an exact half passes, and a way
on which every step is an exact half would be too short to be too deep.
Rebuilding the ancestor it picks brings the height back within the bound.

Each operation changes the sequence in one place: it gains a node, trades one
for another, loses one or is emptied (`Changes`); from this and the order
`ImplementsSequence` follows.  The proofs assume that keys are naturals
(`KeyAssumption`) and that `Nil` is no node and no key (`NilAssumption`).

### Unwinding

`StackSound` is the invariant of programs that capture no continuation
(`Uncaptured`).  It is said of each frame and those below it, so that it
holds of every prefix of a sound stack, which is what a transfer leaves.
`Whole` says how frames nest, `Fit` that each frame's links are to frames below
it of the right kind, `Safe` where the code is and what it is about to do.  The other
theorems follow from it; `TransferInvariance` also assumes that foreign code
does not call back again after a callback has begun a transfer (`NeverAgain`),
`NoAbortInvariance` and `CleanupsRunOnce` that foreign calls do not fail
(`Unfailing`): a failing one leaves `s_exit_point` set, and the next foreign call
to return begins that transfer again, with the cleanups on its way.

### Out of reach, and only model-checked

- Liveness under fairness: `DeferredHandled`.
- What the pure functions of `Algorithms` and the modules it checks compute for
  all arguments.  They rest on recursive definitions throughout, and the library's
  induction theorems are out of the provers' reach; the least-number argument used
  for `Hash` and `Tree` would be needed for each of them anew.
- `AccessibleLive` and `NoAbort` where finalizers register their objects again or
  `call-finalizers` is used, which `final_gc` checks for one registration each, and
  `CountsCover`, `RegistrationsHold` and `RegisteredWaits` assume.
- `ContextKept`, `HandlersOff`, `TransferKept` and `Cleanups` for programs with
  captured continuations, which the runs have: a revived frame may have a copy
  of itself below it, and the invariant for that is not worked out yet.

## 5. Hazards

`PROJECT.json` lists, by line, what in this code a test would hardly reach, and
the properties that would notice.  Those without a property say why.

## 6. Findings

Four disagreements are runs that TLC refutes; `PROJECT.json` quotes what they
contradict.

| run (`.cfg`) | property | what happens |
|---|---|---|
| `tree_barrier` (`TreeBarrier`) | `NoneReclaimed` | deletion of a root with two children stores the new root without the write barrier (`tree.c:473`); the next minor collection reclaims it |
| `signals_lost` (`SignalsLost`) | `DeferredKept` | `sig_check` stores its copy of what was deferred back (`signal.c:339`) over what has been deferred since |
| `final_revive` (`GcFinalRevive`) | `AccessibleLive` | a finalizer stores its object in a mature one, or registers a mature function that refers to it, as the manual allows (`txr.1:82944`); the object is demoted all the same (`gc.c:876`), no list knows the reference, and the next minor collection reclaims the object |
| `final_detached` (`GcFinalDetached`) | `RegistrationsLive` | a collection in the first of two finalizers run by `call-finalizers` reclaims the function of the second, which is on a detached list that is not scanned (`gc.c:854`); `txr.1:82938` says that neither is reclaimed |

The models show more.  Each of the following is found by TLC when the instance
is changed as the second column says.

| property | instance | what happens |
|---|---|---|
| `NoAbort` of `GcHeap`, in `GcFinal` | "throw" | a throw out of a finalizer called by `gc()` restores `gc_enabled` but not `inprogress`; the next collection fails the assertion of `gc.c:920` |
| `AccessibleLive`, `NoAbort`, in `GcFinal` | `final_gc` with `FinalSpec` | a finalizer, a mature function that refers to its own object `a`, registers another object with itself; `a` is demoted, reclaimed by the next minor collection, and the function is later called with a dangling reference, or the next full collection meets a free cell and aborts |
| `NoAbort`, in `GcFinal` | `final_gc` with `FinalSpec` | `b` refers to `a` and both are finalized; `a` is demoted after its finalizer, and `b`'s registers `b` again: the next minor collection reclaims `a` under `b` |
| `NoAbort`, in `GcFinal` | `JunkMax` 1 | mature garbage still refers to an object that was demoted and reclaimed; a stray word that revives it leads `mark_obj` to a free cell (`gc.c:391`) |
| `CallsFunctions` | removal of handlers | `sig_check` calls the function of a signal that no longer has one; `txr.1:76899` says that removing a function clears the deferred flag |
| `DeferredHandled`, of every signal | two maskable signals | a signal waits for ever when a lower one keeps coming and its handler throws out of the check |
| `EnabledOpen` | `Signals` run | the cached mask stays full after a handler; a throw then blocks all signals |
| `GuardKept` | `Signals` run | a throw out of a handler for a processor exception leaves the stack guard off (`signal.c:92`) |
| `NoneMissed` of `Hash` | removal under iterators | removing visited entries makes a traversal end before an unvisited one (`hash.c:607`) |
| `CountExact` of `Hash` | weak sweeps | a weak sweep counts an entry twice when a removal moves it across the end of the table (`hash.c:1488`) |
| `Released` | iterators and collections | `hash_mark` returns before it resets the use count when there are old tables; a collected iterator then leaves a count for good, and the table is never weak again; the comment at `hash.c:903` says that counts are recalculated |
| `NoCrash` of `Hash` | resets to nil | `hash-reset` to nil reads the use count through the new table (`hash.c:1387`), a null pointer; `txr.1:58823` allows nil |
| `CopyComplete` | copies and collections | a collection between two cells of `copy-hash` shrinks and shifts the weak table being copied (`hash.c:1136`): the copy has the old count, and may lack entries |
| `TransferKept` | "again" | a second callback of the same foreign function forgets the transfer that the first one began (`ffi.c:5628`) |
| `RegexExact` | `Misread` without its second disjunct | the optimizer makes `[^ab]` of `[^a]|[^b]` (`regex.c:2164`), where `txr.1:3001` says of `R1|R2`: "Match either the expression R1 or R2" |
| `NoAbort`, `ContextKept` of `Unwind` | "capture" with environments, or with a transfer pending | a revived continuation brings environments and exit points from the time of its capture (`unwind.c:1127`) |

Others came up while functions were translated.  The models of those functions
do as the code does, and the `…Calls` modules leave the arguments concerned out of
what they compare; the comment of each property names them.

*Arithmetic* (`arith.c`).  `(* -2 (expt 2 70))` is positive; `(- -1 b)` is `1-b`
for a bignum; `(neg (+ fixnum-max 1))` and others are not normalized; a negative
bignum divided by a fixnum loses its sign; `gcd` does not end with a negative
fixnum, nor with a bignum and zero; `lognot`, `logand`, `logior` and `logxor` of
negative bignums, `ash` of negative numbers and of zero, `isqrt` of a negative
bignum and `logtrunc` at the word's limit are off; `round` of operands of different
signs compares bignums with `eq` (`arith.c:1700`), so an exact half of a bignum is rounded
the wrong way; `trunc-rem`, `floor-rem` and `round` inherit the faults of the product
and the difference that they compute; `(exptmod 5 0 1)` is 1.  (`(n-choose-k 3 -1)` is 1 and
`k` above `n` gives what the loop gives, which the manual leaves open.)

*Digits* (`mpi.c`, read and not modelled).  The guess of a quotient's digit can
stay too small: `(trunc (+ (expt 2 127) 5) (+ (expt 2 127) 1))` does not end, where
a comment near line 3936 promises termination; the size of the text of zero is
given as 1 and 2 bytes are written; a shifted zero keeps its length.

*Sequences* (`lib.c`, `combi.c`).  `ssort` of a vector with a key compares ranges of two
elements without the key, since the test of `is_identity` is inverted (`lib.c:11458`),
where `txr.1:39124` says that the keys are compared; nor is it stable, though
`txr.1:39178` says so; `med_of_three` passes the last element for its key
(`lib.c:11365`, 11372), which costs no more than a worse pivot when the function
bears it; partitioning at negative positions
(`txr.1:37415`) and ranges of lazy strings (`lib.c:5848`) differ from those
of lists; `permi` of nil throws, and an exhausted one answers t again.

*Regular expressions, UTF-8.*  `a&.*` is rewritten to `.*`; folding a state that
accepts can drop its transitions; a repetition of what matches nothing, such as
`[]*`, dereferences a null pointer; a search from the end with an expression that is run as derivatives finds nothing but empty
matches, since `dv_run` never goes on to the derivative (`regex.c:1950`); a search that
fails begins again too late; several functions are off at an empty match or at
the end of the text.  The decoder of streams reports the end of a file in the
midst of an invalid tail.

*Pattern language* (`match.c`).  A variable named only in the `:last` clause of a
repetition is not examined (`parser.y:1749`); several active `@(mod)` clauses are
tried in reverse order; `@x@{x /re/}` binds `x` twice without comparing;
a trailing `@(skip max min)` ignores `min`; a source opened within a clause is
closed with it (`match.c:5070`); `@(gather)` drops what is bound once all its
required variables are (3363); a mismatch of a `catch`'s parameters leaves them bound;
`@(accept)` within a function or a `try` loses bindings (`txr.1:8768`, 10935);
`@(collect)` with `:mandatory` fails when it is left by `accept`; a
`@(choose)` of which no clause qualifies succeeds.

*Others.*  `extjmp_restore` (`unwind.c:1271`) assigns the saved debug state from
the current one instead of the reverse; `tree_hash_op` of `tree.c` has its loop
condition inverted.

## 7. What is not modelled

The mark recursion and its stack limit, the tables of registered locations,
`checkobj` under valgrind, the sizes of objects; the alternate signal stack,
timers and `kill`; hashing and equality, values and user data of tables, more than
one table at a time; nodes of trees changed from outside; floating point, and
`mpi`'s loops over digits; the printers; filters, streams as sources of patterns
and evaluation inside them.  Whole components without a model are in `components`,
each with its reason: the evaluator and the expander are tree walks over unbounded
syntax whose states a model checker would drown in; the system interface and FFI
are wrappers of other people's state.

## 8. Plan

*Models*, in order of what is at stake.

1. `GcRawStore`: code that stores behind the barrier's back and calls `mut`
   afterwards (`replace` on vectors, `parse`, `random-sample`, tree iterators),
   on top of `GcHeap`: for each, whether an allocation in between can lose the
   object.
2. `GcRecycle`: `recycled_conses` as a second free list whose links bypass the
   barrier.
3. `GcWeak`: several weak tables and finalizers in one collection; the order of
   `hash_process_weak` and `prepare_finals`.  Abstract specification: an entry
   lapses exactly when what it refers to weakly is unreachable.
4. `Struct`: lazy initialization, slot caches, replacement under callbacks.
5. `Vm` (binding caches against redefinition), `Stream` (pushback), the digits of
   `mpi`, buffers and integer types, more of the functions of `lib.c`.

*Proofs*, in order: `AccessibleLive` with explicit calls of finalizers; the
unwinding theorems with continuations that hold no environment; the functions of
`Slices` over sequences of any length.

------------------------------- MODULE Calls --------------------------------
(***************************************************************************)
(* A program that calls the pure functions of the library, one after       *)
(* another.  A call is a state of its own, with the arguments and with what*)
(* was returned, for the properties to compare with the manual.            *)
(***************************************************************************)
EXTENDS TLC

CONSTANTS
  Suites,     \* which functions behaviours call, one suite each
  Missing,    \* an argument that is not given
  Nil         \* the value nil

VARIABLES
  suite,    \* the one of this behaviour
  call,     \* the name of the function that was called, with its arguments
  result    \* ... with what it returned

vars == <<suite, call, result>>

Idle == "none" :> <<>>

\* A call, by a program that is Ready to call something.
Ready(functions) == call = Idle /\ suite = functions

Call(fn, args, value) ==
  /\ call' = fn :> args
  /\ result' = fn :> value
  /\ UNCHANGED suite

Return == /\ call # Idle
          /\ call' = Idle /\ result' = Idle
          /\ UNCHANGED suite

Called(fn) == fn \in DOMAIN call
Args       == call[CHOOSE fn \in DOMAIN call : TRUE]
Result     == result[CHOOSE fn \in DOMAIN result : TRUE]
=============================================================================

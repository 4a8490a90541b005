----------------------------- MODULE Algorithms -----------------------------
(***************************************************************************)
(* All the calls of pure functions, for one run.                           *)
(***************************************************************************)
EXTENDS SequenceCalls, NumberCalls, TextCalls, QueryCalls

Init == suite \in Suites /\ call = Idle /\ result = Idle

Next ==
  \/ /\ Ready("sequences")
     /\ \/ Sub \/ SubLazy \/ Replace \/ ReplaceCarray \/ Edit \/ Select \/ Divide
        \/ Compare \/ Search \/ Sort \/ Choose
  \/ /\ Ready("numbers")
     /\ \/ Sum \/ Product \/ Quotient \/ Factor \/ Combine \/ Move \/ Single \/ Raise
  \/ Ready("matching") /\ Match
  \/ Ready("finding") /\ Find
  \/ Ready("coding") /\ (Recode \/ Collect)
  \/ Ready("patterns") /\ (MatchLine \/ MatchFile \/ Output)
  \/ Return

Spec == Init /\ [][Next]_vars
=============================================================================

---------------------------- MODULE AbstractMap ----------------------------
(***************************************************************************)
(* What a hash table promises: a set of keys, and answers about it.  There *)
(* is no table, no probing and no growth here, and nothing is ever lost.   *)
(***************************************************************************)
EXTENDS FiniteSets

CONSTANT Key

VARIABLES
  dict,    \* the keys present
  answer   \* what the last operation returned

mapVars == <<dict, answer>>

Init == dict = {} /\ answer = <<"none", 0>>

\* gethash-c: whether the entry is a new one.
Put == \E k \in Key :
  /\ answer' = IF k \in dict THEN <<"old", 0>> ELSE <<"new", 0>>
  /\ dict' = dict \cup {k}

Delete == \E k \in Key :
  /\ answer' = IF k \in dict THEN <<"found", 0>> ELSE <<"absent", 0>>
  /\ dict' = dict \ {k}

Lookup == \E k \in Key :
  /\ answer' = IF k \in dict THEN <<"found", 0>> ELSE <<"absent", 0>>
  /\ dict' = dict

\* clearhash, which returns how many entries it purged.
Clear == dict' = {} /\ answer' = <<"cleared", Cardinality(dict)>>

\* Entries with weak references lapse, between any two operations.
Lapse == dict' \in SUBSET dict /\ answer' = answer

Next == Put \/ Delete \/ Lookup \/ Clear \/ Lapse

Spec == Init /\ [][Next]_mapVars
=============================================================================

---------------------------- MODULE LeastNumber ----------------------------
(***************************************************************************)
(* Sets of natural numbers have a least element, and bounded ones a        *)
(* greatest: the form in which the proofs use induction.  (The induction   *)
(* theorems of the library take the predicate as a parameter; that the     *)
(* order of the naturals is well-founded does not.)                        *)
(***************************************************************************)
EXTENDS Integers, TLAPS, WellFoundedInduction

\* Every nonempty set of natural numbers has a least element.
LEMMA LeastNat == 
  ASSUME NEW T, T \subseteq Nat, T # {}
  PROVE \E x \in T : \A y \in T : x <= y
<1> DEFINE R == OpToRel(<, Nat)
<1>1. IsWellFoundedOn(R, Nat)
  BY NatLessThanWellFounded
<1>2. \A x, y \in Nat : <<x, y>> \in R <=> x < y
  BY DEF OpToRel
<1> HIDE DEF R
<1>3. PICK x \in T : \A y \in T : ~(<<y, x>> \in R)
  BY <1>1, WFMin
<1>4. \A y \in T : y \in Nat /\ ~(y < x)
  BY <1>2, <1>3
<1>5. \A y \in T : x <= y
  BY <1>4
<1> QED BY <1>5

\* Every nonempty set of natural numbers with a bound has a greatest element.
LEMMA GreatestNat == 
  ASSUME NEW T, T \subseteq Nat, T # {}, NEW n \in Nat, \A x \in T : x <= n
  PROVE \E x \in T : \A y \in T : y <= x
<1> DEFINE U == {m \in Nat : \E x \in T : m = n - x}
<1>0. PICK t \in T : TRUE
  OBVIOUS
<1>1. U \subseteq Nat /\ n - t \in U
  BY <1>0
<1>2. PICK u \in U : \A y \in U : u <= y
  <2> HIDE DEF U
  <2> QED BY <1>1, LeastNat
<1>3. PICK x \in T : u = n - x
  BY <1>2
<1>4. ASSUME NEW y \in T PROVE y <= x
  <2>1. y \in Nat /\ x \in Nat /\ n - y \in U
    OBVIOUS
  <2>2. n - x <= n - y
    BY <1>2, <1>3, <2>1
  <2> QED BY <2>1, <2>2
<1> QED BY <1>4
=============================================================================

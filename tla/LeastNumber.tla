---------------------------- MODULE LeastNumber ----------------------------
(***************************************************************************)
(* Induction without a predicate parameter: a set of naturals has a least  *)
(* element, so a set that holds 0 and is closed under successors holds     *)
(* all.  The loops of the models are recursive functions, and this is what *)
(* their proofs rest on.                                                   *)
(***************************************************************************)
EXTENDS Integers, TLAPS, WellFoundedInduction

\* A set of naturals has a least element.
LEMMA LeastNatural ==
    ASSUME NEW T \in SUBSET Nat, T # {}
    PROVE  \E m \in T : \A n \in T : m <= n
<1> DEFINE R == {p \in Nat \X Nat : p[1] < p[2]}
<1>1. IsWellFoundedOn(R, Nat)
  BY NatLessThanWellFounded DEF OpToRel
<1>2. \A m, n \in Nat : <<n, m>> \notin R => m <= n
  OBVIOUS
<1> HIDE DEF R
<1>3. PICK m \in T : \A n \in T : <<n, m>> \notin R
  BY <1>1, WFMin
<1> QED
  BY <1>2, <1>3

\* A set that holds 0, and with a number the next one up to L, holds all of 0..L.
LEMMA Reaches ==
    ASSUME NEW S, NEW L \in Nat, 0 \in S,
           \A i \in 1..L : i - 1 \in S => i \in S
    PROVE  0..L \subseteq S
<1> DEFINE T == {i \in 0..L : i \notin S}
<1>1. SUFFICES ASSUME T # {} PROVE FALSE
  OBVIOUS
<1>2. PICK m \in T : \A n \in T : m <= n
  <2>1. T \in SUBSET Nat
    OBVIOUS
  <2> HIDE DEF T
  <2> QED
    BY <1>1, <2>1, LeastNatural
<1>3. m \in 1..L /\ m - 1 \in 0..L /\ m - 1 \notin T
  BY <1>2
<1> QED
  BY <1>2, <1>3
=============================================================================

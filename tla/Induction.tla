----------------------------- MODULE Induction -----------------------------
(***************************************************************************)
(* Induction over the natural numbers for the provers at hand: the         *)
(* library's own theorem takes a predicate as a parameter, this one a set. *)
(***************************************************************************)
EXTENDS Integers, WellFoundedInduction, TLAPS

LEMMA Least ==
  ASSUME NEW T, T \subseteq Nat, T # {}
  PROVE  \E m \in T : \A k \in T : m <= k
<1> DEFINE R == OpToRel(<, Nat)
<1>1. IsWellFoundedOn(R, Nat)
  BY NatLessThanWellFounded
<1> HIDE DEF R
<1>2. PICK m \in T : \A k \in T : ~(<<k, m>> \in R)
  BY <1>1, WFMin
<1> USE DEF R
<1>3. \A k \in T : ~(k < m)
  BY <1>2 DEF OpToRel
<1> HIDE DEF R
<1> QED
  BY <1>2, <1>3

LEMMA SetInduction ==
  ASSUME NEW T, 0 \in T, \A n \in Nat : n \in T => n + 1 \in T
  PROVE  \A n \in Nat : n \in T
<1> DEFINE U == {n \in Nat : n \notin T}
<1>1. SUFFICES ASSUME U # {} PROVE FALSE
  OBVIOUS
<1>2. PICK m \in U : \A k \in U : m <= k
  BY <1>1, Least
<1>3. m - 1 \in Nat /\ m - 1 \notin U
  BY <1>2
<1>4. (m - 1) + 1 \in T
  BY <1>3
<1> QED
  BY <1>2, <1>4
=============================================================================

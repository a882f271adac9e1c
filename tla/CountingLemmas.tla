--------------------------- MODULE CountingLemmas ---------------------------
(***************************************************************************)
(* Least and greatest members of sets of naturals, and induction over     *)
(* the naturals for sets instead of predicates, as the proofs about        *)
(* recursive functions and queues need them.                               *)
(***************************************************************************)
EXTENDS Integers, WellFoundedInduction, TLAPS

\* A set of naturals that is not empty has a least member.
LEMMA LeastNatural ==
    ASSUME NEW S, S \subseteq Nat, S # {}
    PROVE  \E x \in S : \A y \in S : x <= y
  <1>1. PICK x \in S : \A y \in S : ~ (<<y, x>> \in OpToRel(<, Nat))
    BY WFMin, NatLessThanWellFounded, Zenon
  <1>2. \A y \in S : ~(y < x)
    <2> SUFFICES ASSUME NEW y \in S PROVE ~(y < x)
      OBVIOUS
    <2>1. y \in Nat /\ x \in Nat
      BY <1>1
    <2>2. <<y, x>> \in OpToRel(<, Nat) <=> y < x
      BY <2>1 DEF OpToRel
    <2> QED BY <1>1, <2>2, Zenon
  <1> QED BY <1>2

\* A least natural outside the set would contradict the step.
LEMMA SetInduction ==
    ASSUME NEW S, 0 \in S, \A n \in Nat : n \in S => n + 1 \in S
    PROVE  Nat \subseteq S
  <1> SUFFICES ASSUME Nat \ S # {} PROVE FALSE
    OBVIOUS
  <1>1. PICK x \in Nat \ S : \A y \in Nat \ S : x <= y
    <2> DEFINE M == Nat \ S
    <2> SUFFICES \E x \in M : \A y \in M : x <= y
      OBVIOUS
    <2>1. M \subseteq Nat /\ M # {}
      OBVIOUS
    <2> HIDE DEF M
    <2> QED BY <2>1, LeastNatural
  <1>2. x # 0 /\ x - 1 \in Nat
    OBVIOUS
  <1>3. x - 1 \in S
    BY <1>1, <1>2
  <1> QED BY <1>2, <1>3

\* The same up to a bound.
LEMMA UpToInduction ==
    ASSUME NEW n \in Nat, NEW S, 0 \in S, \A k \in 1 .. n : k - 1 \in S => k \in S
    PROVE  0 .. n \subseteq S
  <1> DEFINE T == {k \in Nat : k <= n => k \in S}
  <1>1. \A k \in Nat : k \in T => k + 1 \in T
    OBVIOUS
  <1>2. 0 \in T
    OBVIOUS
  <1>3. Nat \subseteq T
    <2> HIDE DEF T
    <2> QED BY <1>1, <1>2, SetInduction
  <1> QED BY <1>3

\* A set of naturals that is bounded and not empty has a greatest member.
LEMMA GreatestNatural ==
    ASSUME NEW S, S \subseteq Nat, S # {}, NEW b \in Nat, \A x \in S : x <= b
    PROVE  \E x \in S : \A y \in S : y <= x
  <1> DEFINE B == {c \in Nat : \A x \in S : x <= c}
  <1>1. PICK c \in B : \A d \in B : c <= d
    <2>1. B \subseteq Nat /\ B # {}
      OBVIOUS
    <2> HIDE DEF B
    <2> QED BY <2>1, LeastNatural
  <1>2. c \in S
    <2> SUFFICES ASSUME c \notin S PROVE FALSE
      OBVIOUS
    <2>1. PICK x \in S : TRUE
      OBVIOUS
    <2>2. c - 1 \in Nat
      BY <2>1
    <2>3. c - 1 \in B
      BY <2>2
    <2> QED BY <1>1, <2>3
  <1> QED BY <1>2
=============================================================================

---------------------------- MODULE PositionFacts ----------------------------
(***************************************************************************)
(* Facts about sets of positions that several proofs need: a nonempty set  *)
(* of positions has a first and a last member.  Both come from the order   *)
(* of the naturals being well founded.                                     *)
(***************************************************************************)
EXTENDS WellFoundedInduction, TLAPS

(* Every nonempty set of naturals has a least member.                       *)
LEMMA LeastExists ==
  ASSUME NEW S \in SUBSET Nat, S # {}
  PROVE  \E n \in S : \A m \in S : n <= m
<1> DEFINE Below == OpToRel(<, Nat)
<1>1. IsWellFoundedOn(Below, Nat)
  BY NatLessThanWellFounded
<1>2. \A x, y \in Nat : x < y => <<x, y>> \in Below
  BY DEF OpToRel
<1> HIDE DEF Below
<1>3. PICK n \in S : \A m \in S : <<m, n>> \notin Below
  BY <1>1, WFMin
<1>4. \A m \in S : ~(m < n)
  BY <1>2, <1>3
<1>5. \A m \in S : n <= m
  BY <1>4
<1> QED BY <1>5

(* Every nonempty set of positions up to N has a greatest member.           *)
LEMMA GreatestExists ==
  ASSUME NEW N \in Nat, NEW S \in SUBSET (1..N), S # {}
  PROVE  \E n \in S : \A m \in S : m <= n
<1> DEFINE D == {N - n : n \in S}
<1>1. \A n \in S : N - n \in Nat
  OBVIOUS
<1>2. D \subseteq Nat /\ D # {}
  BY <1>1
<1>3. PICK x \in D : \A y \in D : x <= y
  BY <1>2, LeastExists
<1>4. PICK n \in S : x = N - n
  OBVIOUS
<1>5. \A m \in S : N - n <= N - m
  BY <1>3, <1>4
<1> QED BY <1>5
=============================================================================

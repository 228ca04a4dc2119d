------------------------------ MODULE OrderLemmas ------------------------------
(***************************************************************************)
(* Facts about the natural numbers and about finite ordered sets that the   *)
(* proofs about the modules share.  An order is a set of pairs, so that the *)
(* lemmas apply to any.                                                    *)
(***************************************************************************)
EXTENDS Integers, FiniteSetTheorems, TLAPS

(* R orders S: strictly, and any two elements. *)
Orders(R, S) ==
    /\ \A x \in S : <<x, x>> \notin R
    /\ \A x, y, z \in S : <<x, y>> \in R /\ <<y, z>> \in R => <<x, z>> \in R
    /\ \A x, y \in S : x = y \/ <<x, y>> \in R \/ <<y, x>> \in R

Below(R, S, x) == {y \in S : <<y, x>> \in R}
Position(R, S, x) == Cardinality(Below(R, S, x))
-----------------------------------------------------------------------------
LEMMA LessOnNat == IsWellFoundedOn({p \in Nat \X Nat : p[1] < p[2]}, Nat)
  BY NatLessThanWellFounded DEF OpToRel

(* A set of natural numbers has a least one. *)
LEMMA LeastNat ==
    ASSUME NEW T \in SUBSET Nat, T # {}
    PROVE  \E x \in T : \A y \in T : x <= y
<1> DEFINE R == {p \in Nat \X Nat : p[1] < p[2]}
<1>1. IsWellFoundedOn(R, Nat)
  BY LessOnNat
<1>2. PICK x \in T : \A y \in T : <<y, x>> \notin R
  <2> HIDE DEF R
  <2>1. QED BY <1>1, WFMin
<1>3. ASSUME NEW y \in T PROVE x <= y
  <2>1. x \in Nat /\ y \in Nat
    OBVIOUS
  <2>2. y < x => <<y, x>> \in R
    BY <2>1
  <2> HIDE DEF R
  <2>3. QED BY <1>2, <2>1, <2>2
<1>4. QED BY <1>2, <1>3

(* Induction: a set of natural numbers that has 0, and with each number the *)
(* next, has all.                                                          *)
LEMMA NatSetInduction ==
    ASSUME NEW S \in SUBSET Nat, 0 \in S, \A n \in S : n + 1 \in S
    PROVE  S = Nat
<1> SUFFICES ASSUME Nat \ S # {} PROVE FALSE
  OBVIOUS
<1>1. PICK x \in Nat \ S : \A y \in Nat \ S : x <= y
  BY LeastNat
<1>2. x # 0 /\ x - 1 \in Nat /\ x - 1 \in S
  BY <1>1
<1>3. QED BY <1>1, <1>2

(* Of two elements the lower one has the lower position. *)
LEMMA PositionsGrow ==
    ASSUME NEW S, IsFiniteSet(S), NEW R, Orders(R, S),
           NEW x \in S, NEW y \in S, <<x, y>> \in R
    PROVE  /\ Position(R, S, x) \in Nat /\ Position(R, S, y) \in Nat
           /\ Position(R, S, x) < Position(R, S, y)
<1>1. /\ Below(R, S, x) \in SUBSET S /\ Below(R, S, y) \in SUBSET S
      /\ x \notin Below(R, S, x)
      /\ Below(R, S, x) \union {x} \in SUBSET Below(R, S, y)
  BY DEF Orders, Below
<1>2. IsFiniteSet(Below(R, S, x)) /\ IsFiniteSet(Below(R, S, y))
  BY <1>1, FS_Subset
<1>3. Cardinality(Below(R, S, x) \union {x}) = Position(R, S, x) + 1
  BY <1>1, <1>2, FS_AddElement DEF Position
<1>4. Cardinality(Below(R, S, x) \union {x}) <= Position(R, S, y)
  BY <1>1, <1>2, FS_Subset DEF Position
<1>5. QED BY <1>2, <1>3, <1>4, FS_CardinalityType DEF Position

(* Each position from 0 on is that of exactly one element. *)
LEMMA PositionsAreTaken ==
    ASSUME NEW S, IsFiniteSet(S), NEW R, Orders(R, S)
    PROVE  /\ \A x, y \in S : Position(R, S, x) = Position(R, S, y) => x = y
           /\ \A x \in S : Position(R, S, x) \in 0..(Cardinality(S) - 1)
           /\ \A i \in 0..(Cardinality(S) - 1) : \E x \in S : Position(R, S, x) = i
<1> DEFINE n == Cardinality(S)
           f == [x \in S |-> Position(R, S, x)]
<1>1. n \in Nat
  BY FS_CardinalityType
<1>2. ASSUME NEW x \in S, NEW y \in S, Position(R, S, x) = Position(R, S, y)
      PROVE  x = y
  <2>1. CASE <<x, y>> \in R
    BY <1>2, <2>1, PositionsGrow
  <2>2. CASE <<y, x>> \in R
    BY <1>2, <2>2, PositionsGrow
  <2>3. QED BY <2>1, <2>2 DEF Orders
<1>3. ASSUME NEW x \in S PROVE Position(R, S, x) \in 0..(n - 1)
  <2>1. Below(R, S, x) \in SUBSET (S \ {x})
    BY DEF Orders, Below
  <2>2. IsFiniteSet(S \ {x}) /\ Cardinality(S \ {x}) = n - 1
    BY FS_RemoveElement
  <2>3. IsFiniteSet(Below(R, S, x)) /\ Position(R, S, x) <= n - 1
    BY <2>1, <2>2, FS_Subset DEF Position
  <2>4. Position(R, S, x) \in Nat
    BY <2>3, FS_CardinalityType DEF Position
  <2>5. QED BY <1>1, <2>3, <2>4
<1>4. f \in Injection(S, 0..(n - 1))
  BY <1>2, <1>3 DEF Injection, IsInjective
<1>5. IsFiniteSet(0..(n - 1)) /\ Cardinality(0..(n - 1)) = n
  BY <1>1, FS_Interval
<1> HIDE DEF n, f
<1>6. f \in Surjection(S, 0..(n - 1))
  BY <1>4, <1>5, FS_Injection DEF n
<1>7. ASSUME NEW i \in 0..(n - 1) PROVE \E x \in S : f[x] = i
  BY <1>6 DEF Surjection
<1>8. QED BY <1>2, <1>3, <1>7 DEF f, n
=============================================================================

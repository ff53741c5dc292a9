------------------------------- MODULE SetLemmas -------------------------------
(***************************************************************************)
(* Facts about finite sets of numbers that several proofs need.            *)
(***************************************************************************)
EXTENDS Integers, FiniteSetsExt, FiniteSetTheorems, TLAPS

\* A set of numbers has a least element; the well-founded order of the library
\* takes the place of an induction.
LEMMA LeastExists ==
  ASSUME NEW S \in SUBSET Nat, S # {}
  PROVE  \E x \in S : \A y \in S : x <= y
<1> DEFINE R == {ss \in Nat \X Nat : ss[1] < ss[2]}
<1>1. IsWellFoundedOn(R, Nat)
  BY NatLessThanWellFounded, Zenon DEF OpToRel
<1> HIDE DEF R
<1>2. PICK x \in S : \A y \in S : ~(<<y, x>> \in R)
  BY <1>1, WFMin
<1>3. ASSUME NEW y \in S, y < x PROVE FALSE
  <2>1. <<y, x>> \in R
    BY <1>3 DEF R
  <2> QED  BY <2>1, <1>2
<1> QED  BY <1>3

\* Min chooses it.
LEMMA MinIsLeast ==
  ASSUME NEW S \in SUBSET Nat, S # {}
  PROVE  Min(S) \in S /\ \A y \in S : Min(S) <= y
BY LeastExists DEF Min

\* A finite set of numbers has a greatest element.
LEMMA GreatestExists ==
  ASSUME NEW S \in SUBSET Nat, S # {}, IsFiniteSet(S)
  PROVE  \E x \in S : \A y \in S : y <= x
<1> DEFINE Above(x) == {y \in S : y > x}
           Counts == {Cardinality(Above(x)) : x \in S}
<1>1. \A x \in S : IsFiniteSet(Above(x)) /\ Cardinality(Above(x)) \in Nat
  BY FS_Subset, FS_CardinalityType
<1>2. PICK x \in S : \A y \in S : Cardinality(Above(x)) <= Cardinality(Above(y))
  <2>1. Counts \in SUBSET Nat /\ Counts # {}
    BY <1>1
  <2>2. PICK c \in Counts : \A d \in Counts : c <= d
    BY <2>1, LeastExists
  <2> QED  BY <2>2
<1>3. ASSUME NEW y \in S, y > x PROVE FALSE
  <2>1. Above(y) \subseteq Above(x) /\ y \in Above(x) /\ y \notin Above(y)
    <3>1. \A z \in S : z > y => z > x
      BY <1>3
    <3>2. ~(y > y)
      OBVIOUS
    <3> QED  BY <1>3, <3>1, <3>2, Zenon
  <2>2. Cardinality(Above(y)) <= Cardinality(Above(x))
        /\ (Cardinality(Above(y)) = Cardinality(Above(x)) => Above(y) = Above(x))
    <3> HIDE DEF Above
    <3> QED  BY <2>1, <1>1, FS_Subset
  <2>3. Cardinality(Above(y)) = Cardinality(Above(x))
    BY <2>2, <1>2, <1>1
  <2> QED  BY <2>1, <2>2, <2>3
<1> QED  BY <1>3

\* A list without repetition has as many elements as places.
LEMMA CountOfImage ==
  ASSUME NEW n \in Nat, NEW f, NEW S,
         \A i, j \in 1..n : f[i] = f[j] => i = j,
         S = {f[i] : i \in 1..n}
  PROVE  IsFiniteSet(S) /\ Cardinality(S) = n
<1> DEFINE g == [i \in 1..n |-> f[i]]
<1>1. g \in Bijection(1..n, S)
  BY DEF Bijection, Injection, Surjection, IsInjective
<1>2. ExistsBijection(1..n, S)
  BY <1>1 DEF ExistsBijection
<1> QED  BY <1>2, FS_CountingElements, FS_NatBijection

\* A list has finitely many elements.
LEMMA ImageFinite ==
  ASSUME NEW n \in Nat, NEW f, NEW S, S = {f[i] : i \in 1..n}
  PROVE  IsFiniteSet(S)
<1> DEFINE g == [i \in 1..n |-> f[i]]
<1>1. g \in Surjection(1..n, S)
  BY DEF Surjection
<1>2. IsFiniteSet(1..n)
  BY FS_Interval
<1> HIDE DEF g
<1> QED  BY <1>1, <1>2, FS_Surjection

===============================================================================

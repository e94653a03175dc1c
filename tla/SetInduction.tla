---------------------------- MODULE SetInduction -----------------------------
(* Induction over the natural numbers for sets. The theorems of the library  *)
(* take an operator; these take the set of numbers that have the property.   *)
EXTENDS Integers, FiniteSets, FiniteSetTheorems, WellFoundedInduction, TLAPS

(* A set of natural numbers has a least element.                             *)
LEMMA LeastElement ==
  ASSUME NEW T \in SUBSET Nat, T # {}
  PROVE  \E x \in T : \A y \in T : x <= y
<1> DEFINE I == {0 .. n : n \in T}
<1>1. I \subseteq FiniteSubsetsOf(Nat)
  <2>1. ASSUME NEW n \in T PROVE 0 .. n \in FiniteSubsetsOf(Nat)
    <3>1. IsFiniteSet(0 .. n)
      BY FS_Interval
    <3>2. 0 .. n \in SUBSET Nat
      OBVIOUS
    <3>3. QED
      BY <3>1, <3>2 DEF FiniteSubsetsOf
  <2>2. QED
    BY <2>1
<1>2. I # {}
  OBVIOUS
<1>3. PICK J \in I : \A K \in I : ~(<<K, J>> \in StrictSubsetOrdering(Nat))
  BY <1>1, <1>2, WFMin, FS_StrictSubsetOrderingWellFounded
<1>4. PICK x \in T : J = 0 .. x
  BY <1>3
<1>5. ASSUME NEW y \in T, y < x
      PROVE  FALSE
  <2>1. 0 .. y \in I /\ 0 .. y \subseteq 0 .. x
    BY <1>5
  <2>2. x \in 0 .. x /\ x \notin 0 .. y
    BY <1>5
  <2>3. <<0 .. y, J>> \in StrictSubsetOrdering(Nat)
    BY <1>4, <2>1, <2>2 DEF StrictSubsetOrdering
  <2>4. QED
    BY <1>3, <2>1, <2>3
<1>6. QED
  BY <1>5

(* Induction from the end of an interval to its beginning.                   *)
LEMMA DownInduction ==
  ASSUME NEW m \in Int, NEW n \in Int, NEW T,
         \A i \in m .. n : (\A j \in i + 1 .. n : j \in T) => i \in T
  PROVE  \A i \in m .. n : i \in T
<1> DEFINE Missing == {d \in Nat : n - d \in (m .. n) \ T}
<1>1. CASE Missing = {}
  <2>1. ASSUME NEW i \in m .. n, i \notin T
        PROVE  FALSE
    <3>1. n - i \in Nat /\ n - (n - i) = i
      OBVIOUS
    <3>2. n - i \in Missing
      BY <2>1, <3>1
    <3>3. QED
      BY <1>1, <3>2
  <2>2. QED
    BY <2>1
<1>2. CASE Missing # {}
  <2>1. PICK d \in Missing : \A x \in Missing : d <= x
    BY <1>2, LeastElement
  <2>2. ASSUME NEW j \in n - d + 1 .. n, j \notin T
        PROVE  FALSE
    <3>1. n - j \in Nat /\ n - (n - j) = j /\ j \in m .. n /\ n - j < d
      BY <2>1
    <3>2. n - j \in Missing
      BY <2>2, <3>1
    <3>3. QED
      BY <2>1, <3>1, <3>2
  <2>3. QED
    BY <2>1, <2>2
<1>3. QED
  BY <1>1, <1>2

(* The least of the positions in an interval that have a property.           *)
LEMMA LeastPosition ==
  ASSUME NEW m \in Nat, NEW n \in Int, NEW T, NEW k \in m .. n, k \in T
  PROVE  \E i \in m .. k : i \in T /\ \A j \in m .. i - 1 : j \notin T
<1> DEFINE S == T \cap (m .. k)
<1>1. S \in SUBSET Nat /\ S # {}
  OBVIOUS
<1>2. PICK i \in S : \A j \in S : i <= j
  BY <1>1, LeastElement
<1>3. QED
  BY <1>2

(* Induction from the beginning of an interval to its end.                   *)
LEMMA UpInduction ==
  ASSUME NEW n \in Nat, NEW T, 0 \in T, \A i \in 0 .. n - 1 : i \in T => i + 1 \in T
  PROVE  \A i \in 0 .. n : i \in T
<1> DEFINE Missing == (0 .. n) \ T
<1>1. CASE Missing = {}
  BY <1>1
<1>2. CASE Missing # {}
  <2>1. PICK i \in Missing : \A j \in Missing : i <= j
    <3>1. Missing \in SUBSET Nat
      OBVIOUS
    <3> HIDE DEF Missing
    <3>2. QED
      BY <1>2, <3>1, LeastElement
  <2>2. i - 1 \in 0 .. n - 1 /\ (i - 1) + 1 = i /\ ~(i <= i - 1)
    BY <2>1
  <2>3. i - 1 \in T
    BY <2>1, <2>2
  <2>4. QED
    BY <2>1, <2>2, <2>3
<1>3. QED
  BY <1>1, <1>2
=============================================================================

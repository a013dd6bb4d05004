------------------------------ MODULE Maximum ------------------------------
(***************************************************************************)
(* Facts about the operator Max that several components number things      *)
(* with: row ids, key numbers, positions in a name.                        *)
(***************************************************************************)
EXTENDS Integers, FiniteSets, FiniteSetsExt, TLAPS, FiniteSetTheorems, WellFoundedInduction

(* A known maximum. *)
LEMMA MaxIs ==
  ASSUME NEW S \in SUBSET Int, NEW m \in S, \A y \in S : m >= y
  PROVE  Max(S) = m
<1>1. \A x \in S : (\A y \in S : x >= y) => x = m
  OBVIOUS
<1> QED BY <1>1 DEF Max

(* A set of naturals that is not empty has a least element. *)
LEMMA LeastExists ==
  ASSUME NEW T \in SUBSET Nat, T # {}
  PROVE  \E x \in T : \A y \in T : ~(y < x)
<1>1. \E x \in T : \A y \in T : ~(<<y, x>> \in OpToRel(<, Nat))
  BY NatLessThanWellFounded, WFMin, Zenon
<1> QED BY <1>1 DEF OpToRel

(* A bounded set of numbers has a maximum. *)
LEMMA MaxExists ==
  ASSUME NEW N \in Nat, NEW S \in SUBSET (0 .. N), S # {}
  PROVE  Max(S) \in S /\ \A y \in S : Max(S) >= y
<1> DEFINE T == {N - x : x \in S}
<1>1. T \subseteq Nat /\ T # {}
  OBVIOUS
<1>2. PICK x \in T : \A y \in T : ~(y < x)
  <2> HIDE DEF T
  <2> QED BY <1>1, LeastExists
<1>3. PICK m \in S : x = N - m
  BY <1>2
<1>4. \A y \in S : m >= y
  <2>1. \A y \in S : ~(N - y < N - m)
    BY <1>2, <1>3
  <2> QED BY <2>1
<1>5. \E z \in S : \A y \in S : z >= y
  BY <1>3, <1>4
<1> QED BY <1>5 DEF Max

(* A finite set of naturals is bounded: a smallest one that is not would    *)
(* have an element to take away.                                            *)
LEMMA FiniteBounded ==
  ASSUME NEW S \in SUBSET Nat, IsFiniteSet(S)
  PROVE  \E N \in Nat : \A x \in S : x =< N
<1> DEFINE Bounded(T) == \E N \in Nat : \A x \in T : x =< N
           W == {n \in Nat : \E T \in SUBSET S : Cardinality(T) = n /\ ~Bounded(T)}
<1>1. SUFFICES ASSUME ~Bounded(S) PROVE FALSE
  OBVIOUS
<1>2. \A T \in SUBSET S : IsFiniteSet(T) /\ Cardinality(T) \in Nat
  BY FS_Subset, FS_CardinalityType
<1>3. W # {}
  BY <1>1, <1>2
<1>4. PICK n \in W : \A m \in W : ~(m < n)
  <2> HIDE DEF W
  <2> QED BY <1>3, LeastExists DEF W
<1>5. PICK T \in SUBSET S : Cardinality(T) = n /\ ~Bounded(T)
  BY <1>4
<1>6. PICK x \in T : TRUE
  BY <1>5
<1>7. Cardinality(T \ {x}) = n - 1 /\ n - 1 \in Nat
  BY <1>2, <1>5, <1>6, FS_RemoveElement
<1>8. Bounded(T \ {x})
  BY <1>4, <1>5, <1>7
<1>9. PICK N \in Nat : \A y \in T \ {x} : y =< N
  BY <1>8
<1>10. \A y \in T : y =< IF x =< N THEN N ELSE x
  BY <1>6, <1>9
<1>11. Bounded(T)
  BY <1>6, <1>9, <1>10
<1> QED BY <1>5, <1>11

(* The number after all those given so far, none of which it is. *)
LEMMA NextNumber ==
  ASSUME NEW N \in Nat, NEW S \in SUBSET (0 .. N)
  PROVE  /\ 1 + Max({0} \cup S) \in 1 .. N + 1
         /\ \A x \in S : x < 1 + Max({0} \cup S)
<1>1. {0} \cup S \in SUBSET (0 .. N) /\ {0} \cup S # {}
  OBVIOUS
<1>2. PICK M : M = Max({0} \cup S)
  OBVIOUS
<1>3. M \in {0} \cup S /\ \A y \in {0} \cup S : M >= y
  BY <1>1, <1>2, MaxExists
<1>4. 1 + M \in 1 .. N + 1 /\ \A x \in S : x < 1 + M
  BY <1>1, <1>3
<1> QED BY <1>2, <1>4
=============================================================================

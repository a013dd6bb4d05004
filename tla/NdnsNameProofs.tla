--------------------------- MODULE NdnsNameProofs ---------------------------
(***************************************************************************)
(* The order of names is a strict order, and what it takes for the order   *)
(* of records to be the order of the names that deny them.                 *)
(***************************************************************************)
EXTENDS NdnsName, Maximum

(* No name precedes itself. *)
LEMMA NameLessIrreflexive ==
  ASSUME NEW a \in Name
  PROVE  ~NameLess(a, a)
BY DEF NameLess, Name

(* Two names do not precede each other. *)
LEMMA NameLessAsymmetric ==
  ASSUME NEW a \in Name, NEW b \in Name, NameLess(a, b)
  PROVE  ~NameLess(b, a)
<1> SUFFICES ASSUME NameLess(b, a) PROVE FALSE
  OBVIOUS
<1>1. PICK i \in 1 .. Len(b) :
        i =< Len(a) + 1 /\ (\A k \in 1 .. i - 1 : a[k] = b[k]) /\ (i =< Len(a) => a[i] < b[i])
  BY DEF NameLess
<1>2. PICK j \in 1 .. Len(a) :
        j =< Len(b) + 1 /\ (\A k \in 1 .. j - 1 : b[k] = a[k]) /\ (j =< Len(b) => b[j] < a[j])
  BY DEF NameLess
<1>3. Len(a) \in Nat /\ Len(b) \in Nat
  BY DEF Name
<1>4. \A k \in 1 .. Len(a) : a[k] \in Nat
  BY DEF Name
<1>5. \A k \in 1 .. Len(b) : b[k] \in Nat
  BY DEF Name
<1>6. CASE i < j
  BY <1>1, <1>2, <1>3, <1>4, <1>5, <1>6
<1>7. CASE j < i
  BY <1>1, <1>2, <1>3, <1>4, <1>5, <1>7
<1>8. CASE i = j
  BY <1>1, <1>2, <1>3, <1>4, <1>5, <1>8
<1> QED BY <1>3, <1>6, <1>7, <1>8

(* The order of names is transitive. *)
LEMMA NameLessTransitive ==
  ASSUME NEW a \in Name, NEW b \in Name, NEW c \in Name,
         NameLess(a, b), NameLess(b, c)
  PROVE  NameLess(a, c)
<1>1. PICK i \in 1 .. Len(b) :
        i =< Len(a) + 1 /\ (\A k \in 1 .. i - 1 : a[k] = b[k]) /\ (i =< Len(a) => a[i] < b[i])
  BY DEF NameLess
<1>2. PICK j \in 1 .. Len(c) :
        j =< Len(b) + 1 /\ (\A k \in 1 .. j - 1 : b[k] = c[k]) /\ (j =< Len(b) => b[j] < c[j])
  BY DEF NameLess
<1>3. Len(a) \in Nat /\ Len(b) \in Nat /\ Len(c) \in Nat
  BY DEF Name
<1>4. /\ \A k \in 1 .. Len(a) : a[k] \in Nat
      /\ \A k \in 1 .. Len(b) : b[k] \in Nat
      /\ \A k \in 1 .. Len(c) : c[k] \in Nat
  BY DEF Name
<1>5. CASE i < j
  <2>1. i \in 1 .. Len(c) /\ \A k \in 1 .. i - 1 : a[k] = c[k]
    BY <1>1, <1>2, <1>3, <1>5
  <2>2. i =< Len(a) => a[i] < c[i]
    BY <1>1, <1>2, <1>3, <1>5
  <2> QED BY <1>1, <2>1, <2>2 DEF NameLess
<1>6. CASE j < i
  <2>1. j =< Len(a) + 1 /\ \A k \in 1 .. j - 1 : a[k] = c[k]
    BY <1>1, <1>2, <1>3, <1>6
  <2>2. j =< Len(a) => a[j] < c[j]
    BY <1>1, <1>2, <1>3, <1>6
  <2> QED BY <1>2, <2>1, <2>2 DEF NameLess
<1>7. CASE i = j
  <2>1. j =< Len(a) + 1 /\ \A k \in 1 .. j - 1 : a[k] = c[k]
    BY <1>1, <1>2, <1>3, <1>7
  <2>2. j =< Len(a) => a[j] < c[j]
    BY <1>1, <1>2, <1>3, <1>4, <1>7
  <2> QED BY <1>2, <2>1, <2>2 DEF NameLess
<1> QED BY <1>3, <1>5, <1>6, <1>7

(* Of two different names one precedes the other: the first component that  *)
(* differs decides, or else the length does.                                *)
LEMMA NameLessTotal ==
  ASSUME NEW a \in Name, NEW b \in Name, a # b
  PROVE  NameLess(a, b) \/ NameLess(b, a)
<1> DEFINE D == {i \in Nat : i \in 1 .. Len(a) /\ i \in 1 .. Len(b) /\ a[i] # b[i]}
<1>1. Len(a) \in Nat /\ Len(b) \in Nat
  BY DEF Name
<1>2. /\ \A k \in 1 .. Len(a) : a[k] \in Nat
      /\ \A k \in 1 .. Len(b) : b[k] \in Nat
  BY DEF Name
<1>3. CASE D # {}
  <2>1. D \in SUBSET Nat
    OBVIOUS
  <2>2. PICK i \in D : \A j \in D : ~(j < i)
    <3> HIDE DEF D
    <3> QED BY <1>3, <2>1, LeastExists
  <2>3. i \in 1 .. Len(a) /\ i \in 1 .. Len(b) /\ a[i] # b[i]
    BY <2>2
  <2>4. \A j \in 1 .. i - 1 : a[j] = b[j]
    BY <1>1, <2>2, <2>3
  <2>5. a[i] < b[i] \/ b[i] < a[i]
    BY <1>2, <2>3
  <2> QED BY <1>1, <2>3, <2>4, <2>5 DEF NameLess
<1>4. CASE D = {}
  <2>1. \A j \in 1 .. Len(a) : j \in 1 .. Len(b) => a[j] = b[j]
    BY <1>4
  <2>2. CASE Len(a) < Len(b)
    <3> DEFINE i == Len(a) + 1
    <3>1. i \in 1 .. Len(b) /\ i =< Len(a) + 1 /\ ~(i =< Len(a))
      BY <1>1, <2>2
    <3>2. \A j \in 1 .. i - 1 : a[j] = b[j]
      BY <1>1, <2>1, <2>2
    <3> QED BY <3>1, <3>2 DEF NameLess
  <2>3. CASE Len(b) < Len(a)
    <3> DEFINE i == Len(b) + 1
    <3>1. i \in 1 .. Len(a) /\ i =< Len(b) + 1 /\ ~(i =< Len(b))
      BY <1>1, <2>3
    <3>2. \A j \in 1 .. i - 1 : b[j] = a[j]
      BY <1>1, <2>1, <2>3
    <3> QED BY <3>1, <3>2 DEF NameLess
  <2>4. Len(a) # Len(b)
    <3> SUFFICES ASSUME Len(a) = Len(b) PROVE a = b
      OBVIOUS
    <3> QED BY <1>1, <2>1 DEF Name
  <2> QED BY <1>1, <2>2, <2>3, <2>4
<1> QED BY <1>3, <1>4

(* Names with the same components are the same. *)
LEMMA SeqEqual ==
  ASSUME NEW a \in Seq(Nat), NEW b \in Seq(Nat), Len(a) = Len(b),
         \A i \in 1 .. Len(a) : a[i] = b[i]
  PROVE  a = b
OBVIOUS

(* A label and its type, as one name. *)
LEMMA KeyNameProperties ==
  ASSUME NEW r, r.label \in Name, r.type \in Nat
  PROVE  /\ KeyName(r) \in Name
         /\ Len(KeyName(r)) = Len(r.label) + 1
         /\ \A i \in 1 .. Len(r.label) : KeyName(r)[i] = r.label[i]
         /\ KeyName(r)[Len(r.label) + 1] = r.type
BY DEF KeyName, Name

(* The name tells label and type. *)
LEMMA KeyNameInjective ==
  ASSUME NEW r, NEW s, r.label \in Name, r.type \in Nat, s.label \in Name, s.type \in Nat,
         KeyName(r) = KeyName(s)
  PROVE  r.label = s.label /\ r.type = s.type
<1>1. Len(r.label) \in Nat /\ Len(s.label) \in Nat
  BY DEF Name
<1>2. Len(r.label) = Len(s.label)
  BY <1>1, KeyNameProperties
<1>3. \A i \in 1 .. Len(r.label) : r.label[i] = s.label[i]
  BY <1>2, KeyNameProperties
<1>4. r.label = s.label
  <2> DEFINE a == r.label
             b == s.label
  <2>1. a \in Seq(Nat) /\ b \in Seq(Nat) /\ Len(a) = Len(b) /\ \A i \in 1 .. Len(a) : a[i] = b[i]
    BY <1>2, <1>3 DEF Name
  <2> HIDE DEF a, b
  <2>2. a = b
    BY <2>1, SeqEqual
  <2> QED BY <2>2 DEF a, b
<1> QED BY <1>2, <1>4, KeyNameProperties

(* The empty name comes before every label and type. *)
LEMMA EmptyBeforeKey ==
  ASSUME NEW r, r.label \in Name, r.type \in Nat
  PROVE  NameLess(<<>>, KeyName(r)) /\ KeyName(r) # <<>>
<1>1. Len(r.label) \in Nat /\ Len(<<>>) = 0
  BY DEF Name
<1>2. Len(KeyName(r)) >= 1
  BY <1>1, KeyNameProperties
<1>3. 1 \in 1 .. Len(KeyName(r))
  BY <1>1, KeyNameProperties
<1> QED BY <1>1, <1>2, <1>3 DEF NameLess

(* Among finitely many rows that are not none, one has a label that no      *)
(* other's follows: a smallest set without one would have a row to spare.   *)
LEMMA TopLabel ==
  ASSUME NEW S, IsFiniteSet(S), S # {}, \A d \in S : d.label \in Name
  PROVE  \E d \in S : \A e \in S : ~NameLess(d.label, e.label)
<1> DEFINE Top(T) == \E d \in T : \A e \in T : ~NameLess(d.label, e.label)
           W == {n \in Nat : \E T \in SUBSET S : Cardinality(T) = n /\ T # {} /\ ~Top(T)}
<1>1. SUFFICES ASSUME ~Top(S) PROVE FALSE
  OBVIOUS
<1>2. \A T \in SUBSET S : IsFiniteSet(T) /\ Cardinality(T) \in Nat
  BY FS_Subset, FS_CardinalityType
<1>3. W # {}
  BY <1>1, <1>2
<1>4. PICK n \in W : \A m \in W : ~(m < n)
  <2> HIDE DEF W
  <2> QED BY <1>3, LeastExists DEF W
<1>5. PICK T \in SUBSET S : Cardinality(T) = n /\ T # {} /\ ~Top(T)
  BY <1>4
<1>6. PICK x \in T : TRUE
  BY <1>5
<1>7. Cardinality(T \ {x}) = n - 1 /\ n - 1 \in Nat
  <2>1. IsFiniteSet(T) /\ n \in Nat /\ x \in T
    BY <1>2, <1>4, <1>6
  <2>2. Cardinality(T \ {x}) = n - 1
    BY <1>5, <2>1, FS_RemoveElement
  <2>3. Cardinality(T \ {x}) \in Nat
    BY <1>2
  <2> QED BY <2>2, <2>3
<1>8. ~NameLess(x.label, x.label)
  BY <1>6, NameLessIrreflexive
<1>9. CASE T \ {x} = {}
  <2>1. \A e \in T : e = x
    BY <1>9
  <2> QED BY <1>5, <1>6, <1>8, <2>1
<1>10. CASE T \ {x} # {}
  <2>1. Top(T \ {x})
    <3>1. n - 1 < n
      BY <1>4
    <3> QED BY <1>4, <1>5, <1>7, <1>10, <3>1
  <2>2. PICK y \in T \ {x} : \A e \in T \ {x} : ~NameLess(y.label, e.label)
    BY <2>1
  <2>3. CASE NameLess(y.label, x.label)
    <3>1. ASSUME NEW e \in T, NameLess(x.label, e.label) PROVE FALSE
      <4>1. e # x /\ e.label \in Name /\ x.label \in Name /\ y.label \in Name
        BY <1>6, <1>8, <3>1
      <4>2. NameLess(y.label, e.label)
        BY <2>3, <3>1, <4>1, NameLessTransitive
      <4> QED BY <2>2, <3>1, <4>1, <4>2
    <3> QED BY <1>5, <1>6, <3>1
  <2>4. CASE ~NameLess(y.label, x.label)
    BY <1>5, <2>2, <2>4
  <2> QED BY <2>3, <2>4
<1> QED BY <1>9, <1>10

(* Under one label the types decide. *)
LEMMA KeyOrderSameLabel ==
  ASSUME NEW r, NEW s, r.label \in Name, r.type \in Nat, s.type \in Nat,
         s.label = r.label, r.type < s.type
  PROVE  NameLess(KeyName(r), KeyName(s))
<1>1. Len(r.label) \in Nat
  BY DEF Name
<1> DEFINE i == Len(r.label) + 1
<1>2. i \in 1 .. Len(KeyName(s)) /\ i =< Len(KeyName(r)) + 1
  BY <1>1, KeyNameProperties
<1>3. \A j \in 1 .. i - 1 : KeyName(r)[j] = KeyName(s)[j]
  BY <1>1, KeyNameProperties
<1>4. KeyName(r)[i] < KeyName(s)[i]
  BY KeyNameProperties
<1> QED BY <1>2, <1>3, <1>4 DEF NameLess

(***************************************************************************)
(* The order std::sort applies (labels first) is the order of the names    *)
(* label/type as long as, whenever one label is a proper prefix of the     *)
(* other, the type of the shorter one ranks below the next component of    *)
(* the longer one.  This is the condition generateDoe relies on silently.  *)
(***************************************************************************)
THEOREM LabelOrderIsKeyOrder ==
  ASSUME NEW r, NEW s, r.label \in Name, s.label \in Name, r.type \in Nat, s.type \in Nat,
         NameLess(r.label, s.label),
         IsProperPrefix(r.label, s.label) => r.type < s.label[Len(r.label) + 1]
  PROVE  NameLess(KeyName(r), KeyName(s))
<1>1. PICK i \in 1 .. Len(s.label) :
        /\ i =< Len(r.label) + 1
        /\ \A j \in 1 .. i - 1 : r.label[j] = s.label[j]
        /\ i =< Len(r.label) => r.label[i] < s.label[i]
  BY DEF NameLess
<1>2. Len(r.label) \in Nat /\ Len(s.label) \in Nat
  BY DEF Name
<1>3. i \in 1 .. Len(KeyName(s)) /\ i =< Len(KeyName(r)) + 1
  BY <1>1, <1>2, KeyNameProperties
<1>4. \A j \in 1 .. i - 1 : KeyName(r)[j] = KeyName(s)[j]
  <2> TAKE j \in 1 .. i - 1
  <2>1. j \in 1 .. Len(r.label) /\ j \in 1 .. Len(s.label)
    BY <1>1, <1>2
  <2>2. KeyName(r)[j] = r.label[j] /\ KeyName(s)[j] = s.label[j]
    BY <2>1, KeyNameProperties
  <2> QED BY <1>1, <2>2
<1>5. KeyName(s)[i] = s.label[i]
  BY <1>1, <1>2, KeyNameProperties
<1>6. KeyName(r)[i] < KeyName(s)[i]
  <2>1. CASE i =< Len(r.label)
    BY <1>1, <1>2, <1>5, <2>1, KeyNameProperties
  <2>2. CASE i = Len(r.label) + 1
    <3>1. IsProperPrefix(r.label, s.label)
      BY <1>1, <1>2, <2>2 DEF IsProperPrefix
    <3> QED BY <3>1, <2>2, <1>5, KeyNameProperties
  <2> QED BY <1>1, <1>2, <2>1, <2>2
<1> QED BY <1>3, <1>4, <1>6 DEF NameLess
=============================================================================

---------------------------- MODULE QueueProofs ----------------------------
(***************************************************************************)
(* What the operations on queues do to the elements of a queue, for        *)
(* sequences over any set.                                                 *)
(***************************************************************************)
EXTENDS Queues, FiniteSetTheorems, SequenceTheorems, TLAPS

-----------------------------------------------------------------------------
(* Sequences without repetition.                                           *)

Distinct(s) == \A i, j \in 1..Len(s) : s[i] = s[j] => i = j
Elements(s) == {s[i] : i \in 1..Len(s)}

(* Retain keeps exactly the members of S, and repeats nothing it did not     *)
(* find repeated: the rank of a kept position among the kept positions is a  *)
(* bijection, so that nth is well defined.                                   *)
LEMMA RetainFacts ==
    ASSUME NEW X, NEW s \in Seq(X), NEW S
    PROVE  /\ Retain(s, S) \in Seq(X)
           /\ Elements(Retain(s, S)) = Elements(s) \cap S
           /\ Distinct(s) => Distinct(Retain(s, S))
<1> DEFINE kept == {i \in 1..Len(s) : s[i] \in S}
           below(i) == {j \in kept : j <= i}
           rank == [i \in kept |-> Cardinality(below(i))]
           nth(n) == CHOOSE i \in kept : Cardinality(below(i)) = n
           size == Cardinality(kept)
<1>1. Len(s) \in Nat /\ \A i \in 1..Len(s) : s[i] \in X
  OBVIOUS
<1>2. kept \subseteq 1..Len(s) /\ IsFiniteSet(kept) /\ size \in Nat
  <2>1. IsFiniteSet(1..Len(s))
    BY <1>1, FS_Interval
  <2>2. kept \in SUBSET (1..Len(s))
    OBVIOUS
  <2> HIDE DEF kept
  <2> QED BY <2>1, <2>2, FS_Subset, FS_CardinalityType
<1>3. \A i \in kept : IsFiniteSet(below(i)) /\ Cardinality(below(i)) \in 1..size
  <2> SUFFICES ASSUME NEW i \in kept
               PROVE  IsFiniteSet(below(i)) /\ Cardinality(below(i)) \in 1..size
    OBVIOUS
  <2>1. below(i) \in SUBSET kept /\ i \in below(i)
    BY <1>1, <1>2
  <2> HIDE DEF below, kept
  <2>2. IsFiniteSet(below(i)) /\ Cardinality(below(i)) <= size
    BY <2>1, <1>2, FS_Subset
  <2>3. Cardinality(below(i)) \in Nat /\ Cardinality(below(i)) # 0
    BY <2>1, <2>2, FS_CardinalityType, FS_EmptySet
  <2> QED BY <2>2, <2>3, <1>2
<1>4. \A i, j \in kept : Cardinality(below(i)) = Cardinality(below(j)) => i = j
  <2>1. ASSUME NEW i \in kept, NEW j \in kept, i < j,
               Cardinality(below(i)) = Cardinality(below(j))
        PROVE  FALSE
    <3>1. below(i) \in SUBSET below(j)
      BY <1>1, <1>2, <2>1
    <3>2. j \in below(j) /\ j \notin below(i)
      BY <1>1, <1>2, <2>1
    <3> HIDE DEF below, kept
    <3> QED BY <3>1, <3>2, <2>1, <1>3, FS_Subset
  <2> QED BY <2>1, <1>1, <1>2
<1>5. \A n \in 1..size : nth(n) \in kept /\ Cardinality(below(nth(n))) = n
  <2>1. rank \in Injection(kept, 1..size)
    <3> HIDE DEF kept, below
    <3> QED BY <1>3, <1>4 DEF Injection, IsInjective
  <2>2. IsFiniteSet(1..size) /\ Cardinality(1..size) = size
    BY <1>2, FS_Interval
  <2>3. rank \in Surjection(kept, 1..size)
    <3> HIDE DEF rank, kept
    <3> QED BY <2>1, <2>2, <1>2, FS_Injection
  <2>4. \A n \in 1..size : \E i \in kept : Cardinality(below(i)) = n
    <3> HIDE DEF kept, below
    <3> QED BY <2>3 DEF Surjection
  <2> HIDE DEF kept, below
  <2> QED BY <2>4
<1>6. \A i \in kept : nth(Cardinality(below(i))) = i
  <2> HIDE DEF kept, below, nth
  <2> QED BY <1>3, <1>4, <1>5
<1>7. Retain(s, S) = [n \in 1..size |-> s[nth(n)]]
  BY DEF Retain
<1> HIDE DEF nth
<1>8. \A n \in 1..size : nth(n) \in 1..Len(s) /\ s[nth(n)] \in X /\ s[nth(n)] \in S
  BY <1>5, <1>1
<1>9. Retain(s, S) \in Seq(X) /\ Len(Retain(s, S)) = size
  <2> HIDE DEF kept
  <2> QED BY <1>7, <1>8, <1>2
<1>10. Elements(Retain(s, S)) = Elements(s) \cap S
  <2>1. ASSUME NEW x \in Elements(Retain(s, S)) PROVE x \in Elements(s) \cap S
    <3> HIDE DEF kept
    <3> QED BY <2>1, <1>7, <1>8, <1>9 DEF Elements
  <2>2. ASSUME NEW x \in Elements(s) \cap S PROVE x \in Elements(Retain(s, S))
    <3>1. PICK i \in 1..Len(s) : s[i] = x
      BY <2>2 DEF Elements
    <3>2. i \in kept
      BY <3>1, <2>2
    <3> HIDE DEF kept, below
    <3> QED BY <3>1, <3>2, <1>3, <1>6, <1>7, <1>9 DEF Elements
  <2> QED BY <2>1, <2>2
<1>11. ASSUME Distinct(s) PROVE Distinct(Retain(s, S))
  <2> SUFFICES ASSUME NEW m \in 1..size, NEW n \in 1..size, s[nth(m)] = s[nth(n)]
               PROVE  m = n
    <3> HIDE DEF kept
    <3> QED BY <1>7, <1>9 DEF Distinct
  <2>1. nth(m) = nth(n)
    BY <1>8, <1>11 DEF Distinct
  <2> HIDE DEF kept, below
  <2> QED BY <2>1, <1>5
<1> HIDE DEF kept
<1> QED BY <1>9, <1>10, <1>11

LEMMA AppendFacts ==
    ASSUME NEW X, NEW s \in Seq(X), NEW t \in X
    PROVE  /\ Append(s, t) \in Seq(X)
           /\ Elements(Append(s, t)) = Elements(s) \cup {t}
           /\ Distinct(s) /\ t \notin Elements(s) => Distinct(Append(s, t))
<1>1. /\ Append(s, t) \in Seq(X) /\ Len(s) \in Nat
      /\ Len(Append(s, t)) = Len(s) + 1
      /\ \A i \in 1..Len(s) : Append(s, t)[i] = s[i]
      /\ Append(s, t)[Len(s) + 1] = t
  OBVIOUS
<1>2. Elements(Append(s, t)) = Elements(s) \cup {t}
  BY <1>1 DEF Elements
<1>3. ASSUME Distinct(s), t \notin Elements(s) PROVE Distinct(Append(s, t))
  BY <1>1, <1>3 DEF Distinct, Elements
<1> QED BY <1>1, <1>2, <1>3

LEMMA TailFacts ==
    ASSUME NEW X, NEW s \in Seq(X), s # <<>>
    PROVE  /\ Head(s) \in X /\ Head(s) \in Elements(s)
           /\ Tail(s) \in Seq(X)
           /\ Distinct(s) => Distinct(Tail(s)) /\ Elements(Tail(s)) = Elements(s) \ {Head(s)}
<1>1. /\ Len(s) \in Nat \ {0} /\ Head(s) = s[1] /\ Head(s) \in X
      /\ Tail(s) \in Seq(X) /\ Len(Tail(s)) = Len(s) - 1
      /\ \A i \in 1..(Len(s) - 1) : Tail(s)[i] = s[i + 1]
  OBVIOUS
<1>2. Head(s) \in Elements(s)
  BY <1>1 DEF Elements
<1>3. ASSUME Distinct(s) PROVE Distinct(Tail(s))
  BY <1>1, <1>3 DEF Distinct
<1>4. ASSUME Distinct(s) PROVE Elements(Tail(s)) = Elements(s) \ {Head(s)}
  <2>1. ASSUME NEW x \in Elements(Tail(s)) PROVE x \in Elements(s) \ {Head(s)}
    <3>1. PICK i \in 1..(Len(s) - 1) : x = s[i + 1]
      BY <1>1, <2>1 DEF Elements
    <3>2. i + 1 \in 1..Len(s) /\ i + 1 # 1
      BY <1>1
    <3> QED BY <1>1, <1>4, <3>1, <3>2 DEF Distinct, Elements
  <2>2. ASSUME NEW x \in Elements(s) \ {Head(s)} PROVE x \in Elements(Tail(s))
    <3>1. PICK i \in 1..Len(s) : x = s[i]
      BY <2>2 DEF Elements
    <3>2. i - 1 \in 1..(Len(s) - 1) /\ s[(i - 1) + 1] = x
      BY <1>1, <2>2, <3>1
    <3> QED BY <1>1, <3>2 DEF Elements
  <2> QED BY <2>1, <2>2
<1> QED BY <1>1, <1>2, <1>3, <1>4

LEMMA ConcatFacts ==
    ASSUME NEW X, NEW s \in Seq(X), NEW r \in Seq(X)
    PROVE  /\ s \o r \in Seq(X)
           /\ Elements(s \o r) = Elements(s) \cup Elements(r)
           /\ Distinct(s) /\ Distinct(r) /\ Elements(s) \cap Elements(r) = {} => Distinct(s \o r)
<1>1. /\ s \o r \in Seq(X) /\ Len(s) \in Nat /\ Len(r) \in Nat
      /\ Len(s \o r) = Len(s) + Len(r)
      /\ \A i \in 1..Len(s) : (s \o r)[i] = s[i]
      /\ \A i \in 1..(Len(s) + Len(r)) : i > Len(s) => (s \o r)[i] = r[i - Len(s)]
  OBVIOUS
<1>2. Elements(s \o r) = Elements(s) \cup Elements(r)
  <2>1. ASSUME NEW i \in 1..Len(r) PROVE r[i] \in Elements(s \o r)
    <3>1. Len(s) + i \in 1..(Len(s) + Len(r)) /\ Len(s) + i > Len(s) /\ (Len(s) + i) - Len(s) = i
      BY <1>1
    <3>2. (s \o r)[Len(s) + i] = r[i]
      BY <1>1, <3>1
    <3> QED BY <1>1, <3>1, <3>2 DEF Elements
  <2>2. ASSUME NEW i \in 1..Len(s) PROVE s[i] \in Elements(s \o r)
    BY <1>1 DEF Elements
  <2>3. ASSUME NEW i \in 1..(Len(s) + Len(r)) PROVE (s \o r)[i] \in Elements(s) \cup Elements(r)
    <3>1. i \in 1..Len(s) \/ (i > Len(s) /\ i - Len(s) \in 1..Len(r))
      BY <1>1
    <3> QED BY <1>1, <3>1 DEF Elements
  <2> QED BY <1>1, <2>1, <2>2, <2>3 DEF Elements
<1>3. ASSUME Distinct(s), Distinct(r), Elements(s) \cap Elements(r) = {},
             NEW i \in 1..Len(s \o r), NEW j \in 1..Len(s \o r), (s \o r)[i] = (s \o r)[j]
      PROVE  i = j
  <2>1. CASE i <= Len(s) /\ j <= Len(s)
    BY <1>1, <1>3, <2>1 DEF Distinct
  <2>2. CASE i > Len(s) /\ j > Len(s)
    <3>1. i - Len(s) \in 1..Len(r) /\ j - Len(s) \in 1..Len(r)
      BY <1>1, <2>2
    <3>2. r[i - Len(s)] = r[j - Len(s)]
      BY <1>1, <1>3, <2>2
    <3>3. i - Len(s) = j - Len(s)
      BY <3>1, <3>2, <1>3 DEF Distinct
    <3> QED BY <3>3, <1>1
  <2>3. CASE i <= Len(s) /\ j > Len(s)
    <3>1. s[i] \in Elements(s) /\ j - Len(s) \in 1..Len(r) /\ s[i] = r[j - Len(s)]
      BY <1>1, <1>3, <2>3 DEF Elements
    <3> QED BY <3>1, <1>3 DEF Elements
  <2>4. CASE i > Len(s) /\ j <= Len(s)
    <3>1. s[j] \in Elements(s) /\ i - Len(s) \in 1..Len(r) /\ s[j] = r[i - Len(s)]
      BY <1>1, <1>3, <2>4 DEF Elements
    <3> QED BY <3>1, <1>3 DEF Elements
  <2> QED BY <1>1, <2>1, <2>2, <2>3, <2>4
<1> QED BY <1>1, <1>2, <1>3 DEF Distinct

(* Taking out the element at i and moving what is before it to the end.      *)
LEMMA RotateFacts ==
    ASSUME NEW X, NEW s \in Seq(X), NEW i \in 1..Len(s), Distinct(s)
    PROVE  LET r == SubSeq(s, i + 1, Len(s)) \o SubSeq(s, 1, i - 1)
           IN  r \in Seq(X) /\ Distinct(r) /\ Elements(r) = Elements(s) \ {s[i]}
<1> DEFINE a == SubSeq(s, i + 1, Len(s))
           b == SubSeq(s, 1, i - 1)
<1>1. Len(s) \in Nat /\ i \in Nat /\ 1 <= i /\ i <= Len(s)
  OBVIOUS
<1>2. /\ a \in Seq(X) /\ Len(a) = Len(s) - i
      /\ \A k \in 1..(Len(s) - i) : a[k] = s[i + k]
  OBVIOUS
<1>3. /\ b \in Seq(X) /\ Len(b) = i - 1
      /\ \A k \in 1..(i - 1) : b[k] = s[k]
  OBVIOUS
<1> HIDE DEF a, b
<1>4. Distinct(a) /\ Distinct(b)
  <2>1. ASSUME NEW k \in 1..(Len(s) - i), NEW m \in 1..(Len(s) - i), a[k] = a[m]
        PROVE  k = m
    <3>1. i + k \in 1..Len(s) /\ i + m \in 1..Len(s) /\ s[i + k] = s[i + m]
      BY <1>1, <1>2, <2>1
    <3>2. i + k = i + m
      BY <3>1 DEF Distinct
    <3> QED BY <3>2, <1>1
  <2>2. ASSUME NEW k \in 1..(i - 1), NEW m \in 1..(i - 1), b[k] = b[m]
        PROVE  k = m
    <3>1. k \in 1..Len(s) /\ m \in 1..Len(s) /\ s[k] = s[m]
      BY <1>1, <1>3, <2>2
    <3> QED BY <3>1 DEF Distinct
  <2> QED BY <1>2, <1>3, <2>1, <2>2 DEF Distinct
<1>5. Elements(a) \cap Elements(b) = {}
  <2> SUFFICES ASSUME NEW k \in 1..(Len(s) - i), NEW m \in 1..(i - 1), a[k] = b[m]
               PROVE  FALSE
    BY <1>2, <1>3 DEF Elements
  <2>1. i + k \in 1..Len(s) /\ m \in 1..Len(s) /\ s[i + k] = s[m] /\ i + k # m
    BY <1>1, <1>2, <1>3
  <2> QED BY <2>1 DEF Distinct
<1>6. Elements(a) \cup Elements(b) = Elements(s) \ {s[i]}
  <2>1. ASSUME NEW k \in 1..(Len(s) - i) PROVE a[k] \in Elements(s) \ {s[i]}
    <3>1. i + k \in 1..Len(s) /\ i + k # i /\ a[k] = s[i + k]
      BY <1>1, <1>2
    <3> QED BY <3>1 DEF Distinct, Elements
  <2>2. ASSUME NEW k \in 1..(i - 1) PROVE b[k] \in Elements(s) \ {s[i]}
    <3>1. k \in 1..Len(s) /\ k # i /\ b[k] = s[k]
      BY <1>1, <1>3
    <3> QED BY <3>1 DEF Distinct, Elements
  <2>3. ASSUME NEW k \in 1..Len(s), k # i PROVE s[k] \in Elements(a) \cup Elements(b)
    <3>1. CASE k < i
      <4>1. k \in 1..(i - 1)
        BY <1>1, <3>1
      <4> QED BY <4>1, <1>3 DEF Elements
    <3>2. CASE k > i
      <4>1. k - i \in 1..(Len(s) - i) /\ i + (k - i) = k
        BY <1>1, <3>2
      <4>2. a[k - i] = s[k]
        BY <4>1, <1>2
      <4> QED BY <4>1, <4>2, <1>2 DEF Elements
    <3> QED BY <1>1, <2>3, <3>1, <3>2
  <2>4. Elements(a) \subseteq Elements(s) \ {s[i]}
    BY <1>2, <2>1 DEF Elements
  <2>5. Elements(b) \subseteq Elements(s) \ {s[i]}
    BY <1>3, <2>2 DEF Elements
  <2>6. ASSUME NEW x \in Elements(s) \ {s[i]} PROVE x \in Elements(a) \cup Elements(b)
    <3>1. PICK k \in 1..Len(s) : x = s[k]
      BY DEF Elements
    <3> QED BY <3>1, <2>3
  <2> QED BY <2>4, <2>5, <2>6
<1>7. /\ a \o b \in Seq(X) /\ Distinct(a \o b)
      /\ Elements(a \o b) = Elements(s) \ {s[i]}
  BY <1>2, <1>3, <1>4, <1>5, <1>6, ConcatFacts
<1> QED BY <1>7 DEF a, b
============================================================================

------------------------------ MODULE DataLemmas ------------------------------
(***************************************************************************)
(* Facts about numbers and the operators of Lists that the proofs share.   *)
(* What holds of every natural number is proved from the least one it does *)
(* not hold of, with sets in place of predicates.                          *)
(***************************************************************************)
EXTENDS Lists, FiniteSetTheorems, WellFoundedInduction, TLAPS

\* Natural numbers have a least one.
LEMMA LeastOf == ASSUME NEW S \in SUBSET Nat, S # {} PROVE \E m \in S : \A i \in S : m <= i
<1> DEFINE less == {p \in Nat \X Nat : p[1] < p[2]}
<1>1. IsWellFoundedOn(less, Nat)
  BY NatLessThanWellFounded, IsWellFoundedOnSubrelation DEF OpToRel
<1>2. ASSUME NEW i \in Nat, NEW j \in Nat, i < j PROVE <<i, j>> \in less
  <2>1. <<i, j>> \in Nat \X Nat /\ <<i, j>>[1] = i /\ <<i, j>>[2] = j
    OBVIOUS
  <2> QED
    BY <1>2, <2>1
<1> HIDE DEF less
<1>3. PICK m \in S : \A i \in S : <<i, m>> \notin less
  BY <1>1, WFMin
<1>4. \A i \in S : ~ i < m
  BY <1>2, <1>3
<1> QED
  BY <1>3, <1>4

\* Numbers up to a bound have a largest one.
LEMMA LargestOf ==
    ASSUME NEW b \in Nat, NEW S \in SUBSET Nat, S # {}, \A k \in S : k <= b
    PROVE  \E m \in S : \A k \in S : k <= m
<1> DEFINE T == {b - k : k \in S}
<1>1. T \in SUBSET Nat /\ T # {}
  <2>1. \A k \in S : b - k \in Nat
    OBVIOUS
  <2> QED
    BY <2>1
<1>2. PICK m \in T : \A i \in T : m <= i
  BY <1>1, LeastOf
<1>3. PICK k \in S : m = b - k
  OBVIOUS
<1>4. \A i \in S : i <= k
  <2> TAKE i \in S
  <2>1. b - k <= b - i
    BY <1>2, <1>3
  <2> QED
    BY <2>1
<1> QED
  BY <1>4

\* A set of numbers that has 0, and with each number the next, has them all.
LEMMA AllNumbers ==
    ASSUME NEW S, 0 \in S, \A n \in Nat : n \in S => n + 1 \in S
    PROVE  Nat \subseteq S
<1> SUFFICES ASSUME Nat \ S # {} PROVE FALSE
  OBVIOUS
<1>1. PICK m \in Nat \ S : \A i \in Nat \ S : m <= i
  BY LeastOf
<1>2. m # 0 /\ m - 1 \in Nat
  BY <1>1
<1>3. m - 1 \in S
  BY <1>1, <1>2
<1>4. (m - 1) + 1 \in S
  BY <1>2, <1>3
<1> QED
  BY <1>1, <1>4

\* The first n numbers.
LEMMA FirstNumbers == ASSUME NEW n \in Nat PROVE IsFiniteSet(1..n) /\ Cardinality(1..n) = n
<1>1. 1 \in Int /\ n \in Int /\ IF 1 > n THEN n = 0 ELSE n - 1 + 1 = n
  OBVIOUS
<1> QED
  BY <1>1, FS_Interval

\* A finite set of numbers is listed in ascending order, each once.
LEMMA InOrderIs ==
    ASSUME NEW C \in SUBSET Nat, IsFiniteSet(C)
    PROVE  /\ Cardinality(C) \in Nat
           /\ InOrder(C) \in [1..Cardinality(C) -> C]
           /\ \A c \in C : \E k \in 1..Cardinality(C) : InOrder(C)[k] = c
           /\ \A k, l \in 1..Cardinality(C) : k < l => InOrder(C)[k] < InOrder(C)[l]
<1> DEFINE n == Cardinality(C)
           Upto(c) == {b \in C : b <= c}
           rank == [c \in C |-> Cardinality(Upto(c))]
<1>1. \A c \in C : IsFiniteSet(Upto(c)) /\ Cardinality(Upto(c)) \in Nat
  <2> TAKE c \in C
  <2>1. Upto(c) \in SUBSET C
    OBVIOUS
  <2> HIDE DEF Upto
  <2> QED
    BY <2>1, FS_Subset, FS_CardinalityType
<1>2. n \in Nat
  BY FS_CardinalityType
<1>3. \A c \in C : rank[c] \in 1..n
  <2> TAKE c \in C
  <2>1. Upto(c) \in SUBSET C /\ c \in Upto(c)
    OBVIOUS
  <2> HIDE DEF Upto
  <2>2. Cardinality(Upto(c)) <= n
    BY <2>1, FS_Subset
  <2>3. Cardinality(Upto(c)) # 0
    BY <1>1, <2>1, FS_EmptySet
  <2> QED
    BY <1>1, <1>2, <2>2, <2>3
<1>4. \A b, c \in C : b < c => rank[b] < rank[c]
  <2> TAKE b \in C, c \in C
  <2> HAVE b < c
  <2>1. Upto(b) \in SUBSET Upto(c) /\ c \in Upto(c) /\ c \notin Upto(b)
    <3>1. b \in Nat /\ c \in Nat /\ c <= c /\ ~(c <= b) /\ \A d \in C : d \in Nat
      OBVIOUS
    <3>2. \A d \in C : d <= b => d <= c
      BY <3>1
    <3>3. \A d \in Upto(b) : d \in Upto(c)
      BY <3>2
    <3>4. c \in Upto(c) /\ c \notin Upto(b)
      BY <3>1
    <3> QED
      BY <3>3, <3>4
  <2> HIDE DEF Upto
  <2>2. IsFiniteSet(Upto(c)) /\ Cardinality(Upto(b)) \in Nat /\ Cardinality(Upto(c)) \in Nat
    BY <1>1
  <2>3. Cardinality(Upto(b)) <= Cardinality(Upto(c))
    BY <2>1, <2>2, FS_Subset
  <2>4. Cardinality(Upto(c)) = Cardinality(Upto(b)) => Upto(c) = Upto(b)
    BY <2>1, <2>2, FS_Subset
  <2> QED
    BY <2>1, <2>2, <2>3, <2>4
<1>5. rank \in Injection(C, 1..n)
  <2>1. rank \in [C -> 1..n]
    BY <1>3
  <2>2. \A b, c \in C : b < c \/ c < b \/ b = c
    OBVIOUS
  <2>3. \A b, c \in C : rank[b] = rank[c] => b = c
    BY <1>3, <1>4, <2>2
  <2> HIDE DEF rank
  <2> QED
    BY <2>1, <2>3 DEF Injection, IsInjective
<1>6. rank \in Surjection(C, 1..n)
  <2>1. IsFiniteSet(1..n) /\ Cardinality(1..n) = n
    BY <1>2, FirstNumbers
  <2> HIDE DEF rank
  <2> QED
    BY <1>5, <2>1, FS_Injection
<1>7. \A k \in 1..n : InOrder(C)[k] \in C /\ rank[InOrder(C)[k]] = k
  <2> TAKE k \in 1..n
  <2>1. \E c \in C : rank[c] = k
    <3> HIDE DEF rank
    <3> QED
      BY <1>6 DEF Surjection
  <2>2. InOrder(C)[k] = CHOOSE c \in C : rank[c] = k
    BY DEF InOrder
  <2> HIDE DEF rank
  <2> QED
    BY <2>1, <2>2
<1>8. InOrder(C) = [k \in 1..n |-> InOrder(C)[k]]
  BY DEF InOrder
<1> HIDE DEF rank, n
<1>9. InOrder(C) \in [1..n -> C]
  BY <1>7, <1>8
<1>10. \A c \in C : rank[c] \in 1..n /\ InOrder(C)[rank[c]] = c
  <2> TAKE c \in C
  <2>1. rank[c] \in 1..n
    BY <1>3
  <2>2. rank[InOrder(C)[rank[c]]] = rank[c] /\ InOrder(C)[rank[c]] \in C
    BY <1>7, <2>1
  <2> QED
    BY <1>5, <2>1, <2>2 DEF Injection, IsInjective
<1>11. \A k, l \in 1..n : k < l => InOrder(C)[k] < InOrder(C)[l]
  <2> TAKE k \in 1..n, l \in 1..n
  <2> HAVE k < l
  <2> DEFINE b == InOrder(C)[k]
             c == InOrder(C)[l]
  <2>1. b \in C /\ c \in C /\ rank[b] = k /\ rank[c] = l
    BY <1>7
  <2> HIDE DEF b, c
  <2>2. b < c \/ c < b \/ b = c
    BY <2>1
  <2>3. ~(c < b) /\ b # c
    BY <1>2, <1>4, <2>1
  <2>4. b < c
    BY <2>2, <2>3
  <2> QED
    BY <2>4 DEF b, c
<1> QED
  BY <1>2, <1>9, <1>10, <1>11 DEF n

\* One list after another.
LEMMA ConcatIs ==
    ASSUME NEW X, NEW s \in Seq(X), NEW t \in Seq(X)
    PROVE  /\ s \o t \in Seq(X) /\ Len(s) \in Nat /\ Len(t) \in Nat /\ Len(s \o t) = Len(s) + Len(t)
           /\ \A k \in 1..Len(s) : (s \o t)[k] = s[k]
           /\ \A k \in 1..Len(t) : (s \o t)[Len(s) + k] = t[k]
<1>1. s \o t \in Seq(X)
  OBVIOUS
<1>2. Len(s) \in Nat /\ Len(t) \in Nat /\ Len(s \o t) = Len(s) + Len(t)
  OBVIOUS
<1>3. \A k \in 1..Len(s) : (s \o t)[k] = s[k]
  OBVIOUS
<1>4. \A k \in 1..Len(t) : (s \o t)[Len(s) + k] = t[k]
  OBVIOUS
<1> QED
  BY <1>1, <1>2, <1>3, <1>4

\* Neighbouring places of a list are taken as they are.
LEMMA TakenNeighbours ==
    ASSUME NEW X, NEW s \in Seq(X), NEW a \in Nat, NEW b \in a..Len(s)
    PROVE  Taken(s, a + 1..b) = SubSeq(s, a + 1, b)
<1> DEFINE I == a + 1..b
<1>1. Cardinality(I) = b - a
  <2>1. a + 1 \in Int /\ b \in Int /\ IF a + 1 > b THEN b - a = 0 ELSE b - (a + 1) + 1 = b - a
    OBVIOUS
  <2> QED
    BY <2>1, FS_Interval
<1>2. ASSUME NEW k \in 1..b - a PROVE InOrder(I)[k] = a + k
  <2>1. \A c \in I : Cardinality({d \in I : d <= c}) = c - a
    <3> TAKE c \in I
    <3>1. {d \in I : d <= c} = a + 1..c /\ a + 1 \in Int /\ c \in Int /\ c - (a + 1) + 1 = c - a /\ ~(a + 1 > c)
      OBVIOUS
    <3> HIDE DEF I
    <3>2. Cardinality(a + 1..c) = c - a
      BY <3>1, FS_Interval
    <3> QED
      BY <3>1, <3>2
  <2>2. InOrder(I)[k] = CHOOSE c \in I : Cardinality({d \in I : d <= c}) = k
    BY <1>1 DEF InOrder
  <2>3. a + k \in I /\ \A c \in I : Cardinality({d \in I : d <= c}) = k <=> c = a + k
    BY <2>1
  <2> HIDE DEF I
  <2> QED
    BY <2>2, <2>3
<1>3. Taken(s, I) = [k \in 1..b - a |-> s[a + k]]
  BY <1>1, <1>2 DEF Taken
<1>4. SubSeq(s, a + 1, b) = [k \in 1..b - a |-> s[a + k]]
  <2> DEFINE t == SubSeq(s, a + 1, b)
  <2>1. t \in Seq(X) /\ Len(t) = b - a /\ \A k \in 1..b - a : t[k] = s[a + k]
    OBVIOUS
  <2> HIDE DEF t
  <2>2. t = [k \in 1..b - a |-> t[k]]
    BY <2>1
  <2> QED
    BY <2>1, <2>2
<1> QED
  BY <1>3, <1>4

==============================================================================

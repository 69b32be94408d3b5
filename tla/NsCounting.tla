----------------------------- MODULE NsCounting -----------------------------
(***************************************************************************)
(* What a loop keeps of a sequence when it passes over some of the lines,  *)
(* names or rows: the entries at certain positions, in their order.  It is *)
(* SelectSeq() by counting instead of recursion.  Operators, and the facts *)
(* about them.                                                             *)
(***************************************************************************)
EXTENDS Naturals, Sequences, FiniteSets, FiniteSetTheorems, SequenceTheorems, TLAPS

\* How many of the positions I come up to i, and the k-th of them.
UpTo(I, i) == Cardinality({j \in I : j <= i})
Kth(I, k)  == CHOOSE i \in I : UpTo(I, i) = k

Picked(s, I) == [k \in 1..Cardinality(I) |-> s[Kth(I, k)]]

(***************************************************************************)
(* Numbers                                                                 *)
(***************************************************************************)
\* Numbers are well ordered: sets of numbers have a least one, since among
\* the stretches below their elements there is a smallest.
LEMMA LeastNumber ==
  ASSUME NEW T, T \subseteq Nat, T # {}
  PROVE  \E m \in T : \A k \in T : m <= k
<1> DEFINE Below(m) == 0..(m - 1)
           Family == {Below(m) : m \in T}
<1>1. Family \subseteq FiniteSubsetsOf(Nat) /\ Family # {}
  <2>1. ASSUME NEW m \in T PROVE Below(m) \in FiniteSubsetsOf(Nat)
    <3>1. IsFiniteSet(Below(m)) /\ Below(m) \subseteq Nat
      BY FS_Interval
    <3> QED BY <3>1 DEF FiniteSubsetsOf
  <2> QED BY <2>1
<1>2. PICK x \in Family : \A y \in Family : <<y, x>> \notin StrictSubsetOrdering(Nat)
  <2> HIDE DEF Family
  <2> QED BY <1>1, WFMin, FS_StrictSubsetOrderingWellFounded
<1>3. PICK m \in T : x = Below(m)
  OBVIOUS
<1>4. ASSUME NEW k \in T, k < m PROVE FALSE
  <2>1. k \in Nat /\ m \in Nat
    OBVIOUS
  <2>2. Below(k) \subseteq Below(m) /\ k \in Below(m) /\ k \notin Below(k)
    BY <1>4, <2>1
  <2>3. Below(k) \in SUBSET Nat /\ Below(m) \in SUBSET Nat
    BY <2>1
  <2>4. Below(k) \in Family
    OBVIOUS
  <2> HIDE DEF Below
  <2>5. <<Below(k), Below(m)>> \in StrictSubsetOrdering(Nat)
    BY <2>2, <2>3 DEF StrictSubsetOrdering
  <2> QED BY <1>2, <1>3, <2>4, <2>5
<1> QED BY <1>4

\* Sets of numbers up to n have a greatest one: how far they are from n has a
\* least.
LEMMA GreatestNumber ==
  ASSUME NEW n \in Nat, NEW T \in SUBSET (1..n), T # {}
  PROVE  \E m \in T : \A k \in T : k <= m
<1> DEFINE D == {n - k : k \in T}
<1>1. D \subseteq Nat /\ D # {}
  <2>1. ASSUME NEW k \in T PROVE n - k \in Nat
    <3>1. k \in 1..n
      OBVIOUS
    <3> QED BY <3>1
  <2> QED BY <2>1
<1>2. PICK d \in D : \A e \in D : d <= e
  <2> HIDE DEF D
  <2> QED BY <1>1, LeastNumber
<1>3. PICK m \in T : d = n - m
  OBVIOUS
<1>4. ASSUME NEW k \in T PROVE k <= m
  <2>1. n - k \in D
    OBVIOUS
  <2>2. n - m <= n - k
    BY <1>2, <1>3, <2>1
  <2>3. k \in Nat /\ m \in Nat
    OBVIOUS
  <2> QED BY <2>2, <2>3
<1> QED BY <1>4

(***************************************************************************)
(* Positions                                                               *)
(***************************************************************************)
\* From one place to the next the count grows by one at most, and does so at
\* the positions that are counted.
LEMMA UpToSteps ==
  ASSUME NEW n \in Nat, NEW I \in SUBSET (1..n), NEW i \in Nat
  PROVE  /\ UpTo(I, i) \in Nat /\ UpTo(I, 0) = 0 /\ UpTo(I, n) = Cardinality(I)
         /\ UpTo(I, i + 1) = UpTo(I, i) + (IF i + 1 \in I THEN 1 ELSE 0)
<1>0. \A x \in I : x \in Nat /\ 0 < x /\ x <= n
  OBVIOUS
<1>1. IsFiniteSet(1..n)
  BY FS_Interval
<1>2. IsFiniteSet(I)
  BY <1>1, FS_Subset
<1> DEFINE Low(x) == {j \in I : j <= x}
<1>3. \A x : IsFiniteSet(Low(x))
  BY <1>2, FS_Subset
<1>4. UpTo(I, i) \in Nat
  BY <1>3, FS_CardinalityType DEF UpTo
<1>5. UpTo(I, 0) = 0
  <2>1. \A x \in I : ~(x <= 0)
    BY <1>0
  <2>2. Low(0) = {}
    BY <2>1
  <2> QED BY <2>2, FS_EmptySet DEF UpTo
<1>6. UpTo(I, n) = Cardinality(I)
  <2>1. Low(n) = I
    BY <1>0
  <2> QED BY <2>1 DEF UpTo
<1>7. CASE i + 1 \in I
  <2>1. Low(i + 1) = Low(i) \cup {i + 1} /\ i + 1 \notin Low(i)
    <3>1. \A x \in I : x <= i + 1 <=> (x <= i \/ x = i + 1)
      BY <1>0
    <3>2. ~(i + 1 <= i) /\ i + 1 <= i + 1
      OBVIOUS
    <3> QED BY <1>7, <3>1, <3>2
  <2> HIDE DEF Low
  <2>2. Cardinality(Low(i) \cup {i + 1}) = Cardinality(Low(i)) + 1
    BY <1>3, <2>1, FS_AddElement
  <2> QED BY <1>4, <1>5, <1>6, <1>7, <2>1, <2>2 DEF UpTo, Low
<1>8. CASE i + 1 \notin I
  <2>1. Low(i + 1) = Low(i)
    <3>1. \A x \in I : x <= i + 1 <=> (x <= i \/ x = i + 1)
      BY <1>0
    <3> QED BY <1>8, <3>1
  <2> QED BY <1>4, <1>5, <1>6, <1>8, <2>1 DEF UpTo
<1> QED BY <1>7, <1>8

\* The count never falls, and is greater at a later position.
LEMMA UpToGrows ==
  ASSUME NEW n \in Nat, NEW I \in SUBSET (1..n), NEW i \in Nat, NEW j \in Nat, i < j
  PROVE  UpTo(I, i) <= UpTo(I, j) /\ (j \in I => UpTo(I, i) < UpTo(I, j))
<1> DEFINE Low(x) == {y \in I : y <= x}
<1>1. IsFiniteSet(1..n)
  BY FS_Interval
<1>2. \A x : IsFiniteSet(Low(x))
  BY <1>1, FS_Subset
<1>3. Low(i) \subseteq Low(j) /\ (j \in I => j \in Low(j) /\ j \notin Low(i))
  <2>1. \A x \in I : x \in Nat
    OBVIOUS
  <2>2. \A x \in I : x <= i => x <= j
    BY <2>1
  <2>3. ~(j <= i) /\ j <= j
    OBVIOUS
  <2> QED BY <2>2, <2>3
<1> HIDE DEF Low
<1>4. /\ Cardinality(Low(i)) <= Cardinality(Low(j))
      /\ Cardinality(Low(i)) = Cardinality(Low(j)) => Low(i) = Low(j)
  BY <1>2, <1>3, FS_Subset
<1>5. Cardinality(Low(i)) \in Nat /\ Cardinality(Low(j)) \in Nat
  BY <1>2, FS_CardinalityType
<1>6. UpTo(I, i) = Cardinality(Low(i)) /\ UpTo(I, j) = Cardinality(Low(j))
  BY DEF UpTo, Low
<1> QED BY <1>3, <1>4, <1>5, <1>6

\* There is a k-th position, up to the number of positions ...
LEMMA KthIs ==
  ASSUME NEW n \in Nat, NEW I \in SUBSET (1..n), NEW k \in 1..Cardinality(I)
  PROVE  Kth(I, k) \in I /\ UpTo(I, Kth(I, k)) = k
<1> DEFINE T == {m \in Nat : k <= UpTo(I, m)}
<1>1. n \in T
  <2>1. UpTo(I, n) = Cardinality(I) /\ UpTo(I, n) \in Nat
    BY UpToSteps
  <2> QED BY <2>1
<1>2. PICK m \in T : \A x \in T : m <= x
  BY <1>1, LeastNumber
<1>3. m # 0
  <2>1. UpTo(I, 0) = 0
    BY UpToSteps
  <2> QED BY <2>1
<1> DEFINE b == m - 1
<1>4. b \in Nat /\ b + 1 = m /\ b \notin T
  BY <1>2, <1>3
<1> HIDE DEF b
<1>5. /\ UpTo(I, b) \in Nat /\ UpTo(I, b) < k
      /\ UpTo(I, m) = UpTo(I, b) + (IF m \in I THEN 1 ELSE 0)
  BY <1>4, UpToSteps
<1>6. m \in I /\ UpTo(I, m) = k
  BY <1>5
<1> QED BY <1>6 DEF Kth

\* ... and a position is the one of its own count.
LEMMA KthOfUpTo ==
  ASSUME NEW n \in Nat, NEW I \in SUBSET (1..n), NEW i \in I
  PROVE  UpTo(I, i) \in 1..Cardinality(I) /\ Kth(I, UpTo(I, i)) = i
<1>0. i \in Nat /\ 0 < i /\ i <= n
  OBVIOUS
<1>1. /\ UpTo(I, i) \in Nat /\ UpTo(I, n) = Cardinality(I) /\ UpTo(I, n) \in Nat
      /\ UpTo(I, 0) = 0
  BY <1>0, UpToSteps
<1>2. UpTo(I, 0) < UpTo(I, i)
  BY <1>0, UpToGrows
<1>3. UpTo(I, i) <= UpTo(I, n)
  <2>1. CASE i = n
    BY <1>1, <2>1
  <2>2. CASE i < n
    BY <1>0, <2>2, UpToGrows
  <2> QED BY <1>0, <2>1, <2>2
<1> DEFINE k == UpTo(I, i)
<1>4. k \in 1..Cardinality(I)
  BY <1>1, <1>2, <1>3
<1> HIDE DEF k
<1>5. Kth(I, k) \in I /\ UpTo(I, Kth(I, k)) = k
  BY <1>4, KthIs
<1> DEFINE x == Kth(I, k)
<1> HIDE DEF x
<1>6. x \in I /\ x \in Nat /\ UpTo(I, x) = UpTo(I, i)
  <2>1. x \in I /\ UpTo(I, x) = k
    BY <1>5 DEF x
  <2> QED BY <2>1 DEF k
<1>7. ~(x < i) /\ ~(i < x)
  <2>1. x < i => UpTo(I, x) < UpTo(I, i)
    BY <1>0, <1>6, UpToGrows
  <2>2. i < x => UpTo(I, i) < UpTo(I, x)
    BY <1>0, <1>6, UpToGrows
  <2> QED BY <1>1, <1>6, <2>1, <2>2
<1> QED BY <1>0, <1>4, <1>6, <1>7 DEF x, k

(***************************************************************************)
(* The entries                                                             *)
(***************************************************************************)
\* What is picked is a sequence of entries at these positions, all of them.
LEMMA PickedEntries ==
  ASSUME NEW S, NEW s \in Seq(S), NEW I \in SUBSET (1..Len(s))
  PROVE  /\ Picked(s, I) \in Seq({s[i] : i \in I})
         /\ Len(Picked(s, I)) = Cardinality(I) /\ Cardinality(I) \in Nat
         /\ Cardinality(I) <= Len(s)
         /\ \A i \in I : \E k \in 1..Len(Picked(s, I)) : Picked(s, I)[k] = s[i]
<1>0. Len(s) \in Nat
  BY LenProperties
<1>1. IsFiniteSet(1..Len(s)) /\ Cardinality(1..Len(s)) = Len(s)
  BY <1>0, FS_Interval
<1>2. Cardinality(I) \in Nat /\ Cardinality(I) <= Len(s)
  BY <1>1, FS_Subset, FS_CardinalityType
<1> DEFINE n == Cardinality(I)
           p == Picked(s, I)
<1> HIDE DEF n
<1>3. p = [k \in 1..n |-> s[Kth(I, k)]]
  BY DEF Picked, n
<1>4. \A k \in 1..n : s[Kth(I, k)] \in {s[i] : i \in I}
  BY <1>0, KthIs DEF n
<1>5. p \in Seq({s[i] : i \in I}) /\ Len(p) = n
  <2>1. n \in Nat
    BY <1>2 DEF n
  <2> HIDE DEF p
  <2> QED BY <1>3, <1>4, <2>1
<1>6. \A i \in I : \E k \in 1..n : p[k] = s[i]
  <2> SUFFICES ASSUME NEW i \in I PROVE \E k \in 1..n : p[k] = s[i]
    OBVIOUS
  <2>1. UpTo(I, i) \in 1..n /\ Kth(I, UpTo(I, i)) = i
    BY <1>0, KthOfUpTo DEF n
  <2> HIDE DEF p
  <2> QED BY <1>3, <2>1
<1> QED BY <1>2, <1>5, <1>6 DEF n

\* With every position picked it is the sequence itself.
LEMMA PickedAll ==
  ASSUME NEW S, NEW s \in Seq(S)
  PROVE  Picked(s, 1..Len(s)) = s
<1> DEFINE n == Len(s)
<1>0. n \in Nat
  BY LenProperties
<1>1. Cardinality(1..n) = n
  BY <1>0, FS_Interval
<1> HIDE DEF n
<1>2. ASSUME NEW k \in 1..n PROVE Kth(1..n, k) = k
  <2>1. {j \in 1..n : j <= k} = 1..k
    BY <1>0
  <2>2. Cardinality(1..k) = k
    BY FS_Interval
  <2>3. UpTo(1..n, k) = k
    BY <2>1, <2>2 DEF UpTo
  <2> QED BY <1>0, <2>3, KthOfUpTo
<1>3. Picked(s, 1..n) = [k \in 1..n |-> s[k]]
  BY <1>1, <1>2 DEF Picked
<1>4. s = [k \in 1..n |-> s[k]]
  BY DEF n
<1> QED BY <1>3, <1>4 DEF n
=============================================================================

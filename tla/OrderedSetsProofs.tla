-------------------------- MODULE OrderedSetsProofs --------------------------
(***************************************************************************)
(* Facts about sets of numbers, ordered sequences and finite sets that the *)
(* proofs about PDCP and RLC use.                                          *)
(***************************************************************************)
EXTENDS OrderedSets, Sequences, FiniteSetsExt, Functions, FiniteSetTheorems, SequenceTheorems,
        WellFoundedInduction, TLAPS

\* Division with remainder.
LEMMA DivMod ==
  ASSUME NEW x \in Nat, NEW m \in Nat \ {0}
  PROVE  /\ x = (x \div m) * m + (x % m)
         /\ x % m \in 0 .. m - 1 /\ x \div m \in Nat
  BY SMT

\* The remainder within one turn.
LEMMA OneTurn ==
  ASSUME NEW m \in Nat \ {0}, NEW x \in Int
  PROVE  /\ x \in 0 .. m - 1 => x % m = x
         /\ x \in m .. 2 * m - 1 => x % m = x - m
         /\ x \in (-m) .. -1 => x % m = x + m
  <1>1. x = (x \div m) * m + (x % m) /\ x % m \in 0 .. m - 1 /\ x \div m \in Int
    BY SMT
  <1> DEFINE q == x \div m
             r == x % m
  <1>2. q \in Int /\ r \in 0 .. m - 1 /\ x = q * m + r
    BY <1>1
  <1> HIDE DEF q, r
  <1>3. q >= 1 => q * m >= m
    BY <1>2
  <1>4. q >= 2 => q * m >= 2 * m
    BY <1>2
  <1>5. q <= -1 => q * m <= -m
    BY <1>2
  <1>6. q <= -2 => q * m <= -2 * m
    BY <1>2
  <1>7. q * m \in Int
    BY <1>2
  <1>8. x \in 0 .. m - 1 => r = x
    <2>1. x \in 0 .. m - 1 => q = 0
      BY <1>2, <1>3, <1>5, <1>7
    <2> QED
      BY <1>2, <2>1
  <1>9. x \in m .. 2 * m - 1 => r = x - m
    <2>1. x \in m .. 2 * m - 1 => q = 1
      <3>1. q <= 0 => q * m <= 0
        BY <1>2
      <3> QED
        BY <1>2, <1>4, <1>7, <3>1
    <2> QED
      BY <1>2, <2>1
  <1>10. x \in (-m) .. -1 => r = x + m
    <2>1. x \in (-m) .. -1 => q = -1
      <3>1. q >= 0 => q * m >= 0
        BY <1>2
      <3> QED
        BY <1>2, <1>6, <1>7, <3>1
    <2> QED
      BY <1>2, <2>1
  <1> QED
    BY <1>8, <1>9, <1>10 DEF r

-----------------------------------------------------------------------------
(* Sets of numbers.                                                        *)

\* A set of natural numbers has a smallest element.
LEMMA MinIn ==
  ASSUME NEW S \in SUBSET Nat, S # {}
  PROVE  Min(S) \in S /\ \A y \in S : Min(S) <= y
  <1> DEFINE R == OpToRel(<, Nat)
  <1>1. IsWellFoundedOn(R, Nat)
    BY NatLessThanWellFounded
  <1>2. \A x, y \in Nat : y < x => <<y, x>> \in R
    BY DEF OpToRel
  <1> HIDE DEF R
  <1>3. PICK x \in S : \A y \in S : ~ (<<y, x>> \in R)
    BY <1>1, WFMin
  <1>4. ASSUME NEW y \in S, ~(x <= y)
        PROVE  FALSE
    <2>1. x \in Nat /\ y \in Nat /\ y < x
      BY <1>4
    <2>2. <<y, x>> \in R
      BY <1>2, <2>1
    <2> QED
      BY <1>3, <2>2
  <1> QED
    BY <1>4 DEF Min

\* A bounded set of natural numbers has a largest element.
LEMMA MaxIn ==
  ASSUME NEW n \in Nat, NEW S \in SUBSET (0 .. n), S # {}
  PROVE  Max(S) \in S /\ \A y \in S : Max(S) >= y
  <1> DEFINE T == {n - y : y \in S}
  <1>1. T \in SUBSET Nat /\ T # {}
    OBVIOUS
  <1>2. \A y \in S : n - y \in T /\ y \in Int
    OBVIOUS
  <1>3. \A z \in T : \E y \in S : z = n - y
    OBVIOUS
  <1> HIDE DEF T
  <1>4. Min(T) \in T /\ \A z \in T : Min(T) <= z
    BY <1>1, MinIn
  <1>5. PICK x \in S : Min(T) = n - x
    BY <1>3, <1>4
  <1>6. \A y \in S : n - x <= n - y
    BY <1>2, <1>4, <1>5
  <1>7. \A y \in S : x >= y
    BY <1>2, <1>6
  <1> QED
    BY <1>7 DEF Max

\* The number of smaller members tells the members of a finite set apart.
LEMMA RankOrder ==
  ASSUME NEW S \in SUBSET Nat, IsFiniteSet(S), NEW c \in S, NEW d \in S, c < d
  PROVE  Cardinality({x \in S : x < c}) < Cardinality({x \in S : x < d})
  <1> DEFINE A == {x \in S : x < c}
             B == {x \in S : x < d}
  <1>1. A \subseteq B /\ c \in B /\ c \notin A /\ IsFiniteSet(B)
    <2>1. A \subseteq B /\ c \in B /\ c \notin A
      <3>1. c \in Int /\ d \in Int /\ \A x \in S : x \in Int
        OBVIOUS
      <3>2. \A x \in S : x < c => x < d
        BY <3>1
      <3>3. ~(c < c)
        BY <3>1
      <3> QED
        BY <3>2, <3>3
    <2>2. B \subseteq S
      OBVIOUS
    <2> QED
      BY <2>1, <2>2, FS_Subset
  <1> HIDE DEF A, B
  <1>2. IsFiniteSet(A) /\ Cardinality(A) <= Cardinality(B) /\ (Cardinality(A) = Cardinality(B) => A = B)
    BY <1>1, FS_Subset
  <1>3. Cardinality(A) \in Nat /\ Cardinality(B) \in Nat
    BY <1>1, <1>2, FS_CardinalityType
  <1>4. A # B
    BY <1>1
  <1> QED
    BY <1>2, <1>3, <1>4 DEF A, B

\* There is a member for every rank.
LEMMA RankExists ==
  ASSUME NEW S \in SUBSET Nat, IsFiniteSet(S), NEW k \in 0 .. (Cardinality(S) - 1)
  PROVE  \E c \in S : Cardinality({x \in S : x < c}) = k
  <1> DEFINE n == Cardinality(S)
             f == [c \in S |-> Cardinality({x \in S : x < c})]
             R == {f[c] : c \in S}
  <1>1. n \in Nat
    BY FS_CardinalityType
  <1>2. \A c \in S : f[c] \in 0 .. (n - 1)
    <2> SUFFICES ASSUME NEW c \in S PROVE f[c] \in 0 .. (n - 1)
      OBVIOUS
    <2> DEFINE A == {x \in S : x < c}
    <2>1. A \subseteq S /\ c \notin A
      OBVIOUS
    <2>2. f[c] = Cardinality(A)
      OBVIOUS
    <2> HIDE DEF A, f
    <2>3. IsFiniteSet(A) /\ Cardinality(A) <= n /\ (Cardinality(A) = n => A = S)
      BY <2>1, FS_Subset
    <2>4. Cardinality(A) \in Nat
      BY <2>3, FS_CardinalityType
    <2> QED
      BY <1>1, <2>1, <2>2, <2>3, <2>4
  <1>3. f \in Bijection(S, R)
    <2>1. \A c, d \in S : c # d => f[c] # f[d]
      <3> SUFFICES ASSUME NEW c \in S, NEW d \in S, c # d PROVE f[c] # f[d]
        OBVIOUS
      <3>1. c < d \/ d < c
        OBVIOUS
      <3>2. f[c] < f[d] \/ f[d] < f[c]
        BY <3>1, RankOrder
      <3>3. f[c] \in Nat /\ f[d] \in Nat
        BY <1>1, <1>2
      <3> QED
        BY <3>2, <3>3
    <2> QED
      BY <2>1 DEF Bijection, Injection, Surjection, IsInjective
  <1> HIDE DEF f
  <1>4. R \subseteq 0 .. (n - 1)
    BY <1>2
  <1> HIDE DEF R
  <1>5. IsFiniteSet(R) /\ Cardinality(R) = n
    <2>1. ExistsBijection(S, R)
      BY <1>3 DEF ExistsBijection
    <2> QED
      BY <2>1, FS_Bijection
  <1>6. IsFiniteSet(0 .. (n - 1)) /\ Cardinality(0 .. (n - 1)) = n
    BY <1>1, FS_Interval
  <1>7. R = 0 .. (n - 1)
    BY <1>4, <1>5, <1>6, FS_Subset
  <1>8. PICK c \in S : f[c] = k
    BY <1>7 DEF R
  <1> QED
    BY <1>8 DEF f

\* InOrder lists a finite set in ascending order.
LEMMA InOrderSorts ==
  ASSUME NEW S \in SUBSET Nat, IsFiniteSet(S)
  PROVE  LET q == InOrder(S)
         IN /\ q \in Seq(S) /\ Len(q) = Cardinality(S)
            /\ \A i, j \in DOMAIN q : i < j => q[i] < q[j]
            /\ \A c \in S : \E i \in DOMAIN q : q[i] = c
  <1> DEFINE n == Cardinality(S)
             Rank(c) == Cardinality({x \in S : x < c})
             q == InOrder(S)
  <1>1. n \in Nat /\ \A x \in S : x \in Int
    BY FS_CardinalityType
  <1>2. \A i \in 1 .. n : \E c \in S : Rank(c) = i - 1
    <2> SUFFICES ASSUME NEW i \in 1 .. n PROVE \E c \in S : Rank(c) = i - 1
      OBVIOUS
    <2>1. i - 1 \in 0 .. (n - 1)
      BY <1>1
    <2> QED
      BY <2>1, RankExists
  <1>3. q = [i \in 1 .. n |-> CHOOSE c \in S : Rank(c) = i - 1]
    BY DEF InOrder
  <1>4. \A c, d \in S : c < d => Rank(c) < Rank(d)
    BY RankOrder
  <1> HIDE DEF n, Rank, q
  <1>5. \A i \in 1 .. n : q[i] \in S /\ Rank(q[i]) = i - 1
    BY <1>2, <1>3
  <1>6. q \in Seq(S) /\ Len(q) = n /\ DOMAIN q = 1 .. n
    BY <1>1, <1>3, <1>5
  <1>7. ASSUME NEW i \in 1 .. n, NEW j \in 1 .. n, i < j
        PROVE  q[i] < q[j]
    <2>1. q[i] \in S /\ q[j] \in S /\ Rank(q[i]) = i - 1 /\ Rank(q[j]) = j - 1
      BY <1>5
    <2>2. ~(q[j] < q[i])
      <3>1. q[j] < q[i] => Rank(q[j]) < Rank(q[i])
        BY <1>4, <2>1
      <3> QED
        BY <1>1, <1>7, <2>1, <3>1
    <2>3. q[i] # q[j]
      BY <1>1, <1>7, <2>1
    <2>4. q[i] \in Int /\ q[j] \in Int
      BY <1>1, <2>1
    <2> QED
      BY <2>2, <2>3, <2>4
  <1>8. ASSUME NEW c \in S
        PROVE  \E i \in 1 .. n : q[i] = c
    <2>1. Rank(c) \in 0 .. (n - 1)
      <3> DEFINE A == {x \in S : x < c}
      <3>1. A \subseteq S /\ c \notin A
        OBVIOUS
      <3>2. Rank(c) = Cardinality(A)
        BY DEF Rank
      <3> HIDE DEF A
      <3>3. IsFiniteSet(A) /\ Cardinality(A) <= n /\ (Cardinality(A) = n => A = S)
        BY <3>1, FS_Subset DEF n
      <3>4. Cardinality(A) \in Nat
        BY <3>3, FS_CardinalityType
      <3> QED
        BY <1>1, <3>1, <3>2, <3>3, <3>4
    <2> DEFINE i == Rank(c) + 1
    <2>2. i \in 1 .. n /\ i - 1 = Rank(c)
      BY <1>1, <2>1
    <2> HIDE DEF i
    <2>3. q[i] \in S /\ Rank(q[i]) = Rank(c)
      BY <1>5, <2>2
    <2>4. ~(q[i] < c) /\ ~(c < q[i])
      <3>1. Rank(c) \in Int
        BY <1>1, <2>1
      <3>2. (q[i] < c => Rank(q[i]) < Rank(c)) /\ (c < q[i] => Rank(c) < Rank(q[i]))
        BY <1>4, <2>3
      <3> QED
        BY <2>3, <3>1, <3>2
    <2>5. q[i] \in Int /\ c \in Int
      BY <1>1, <2>3
    <2>6. q[i] = c
      BY <2>4, <2>5
    <2> QED
      BY <2>2, <2>6
  <1> QED
    BY <1>6, <1>7, <1>8 DEF q, n

\* One more element.
LEMMA AddOne ==
  ASSUME NEW S, IsFiniteSet(S), NEW x
  PROVE  Cardinality(S \cup {x}) <= Cardinality(S) + 1
  <1>1. Cardinality(S) \in Nat
    BY FS_CardinalityType
  <1>2. Cardinality(S \cup {x}) \in {Cardinality(S), Cardinality(S) + 1}
    BY FS_AddElement
  <1> QED
    BY <1>1, <1>2

\* One more element of a sequence.
LEMMA RangeAppend ==
  ASSUME NEW S, NEW seq \in Seq(S), NEW x \in S, NEW y \in Range(Append(seq, x))
  PROVE  y \in Range(seq) \/ y = x
  <1> DEFINE longer == Append(seq, x)
  <1>1. /\ longer \in Seq(S) /\ Len(longer) = Len(seq) + 1
        /\ \A i \in 1 .. Len(seq) : longer[i] = seq[i]
        /\ longer[Len(seq) + 1] = x
    BY AppendProperties
  <1> HIDE DEF longer
  <1>2. PICK i \in DOMAIN longer : y = longer[i]
    BY DEF Range, longer
  <1>3. i \in 1 .. (Len(seq) + 1) /\ Len(seq) \in Nat
    BY <1>1, <1>2
  <1>4. CASE i \in 1 .. Len(seq)
    BY <1>1, <1>2, <1>4 DEF Range
  <1>5. CASE i = Len(seq) + 1
    BY <1>1, <1>2, <1>5
  <1> QED
    BY <1>3, <1>4, <1>5
=============================================================================

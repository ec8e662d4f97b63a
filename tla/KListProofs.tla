---------------------------- MODULE KListProofs ----------------------------
(***************************************************************************)
(* Facts about sequences with distinct elements and about Without, for the *)
(* proofs about the modules that use KList.                                *)
(***************************************************************************)
EXTENDS KList, FiniteSetTheorems, SequenceTheorems, TLAPS

\* A nonempty finite set of integers has a least element.  The sets of the
\* elements up to each member form a well-founded order by inclusion.
LEMMA MinExists ==
  ASSUME NEW S \in SUBSET Int, IsFiniteSet(S), S # {}
  PROVE  Min(S) \in S /\ \A i \in S : Min(S) <= i
<1> DEFINE Upto(i) == {j \in S : j <= i}
           T == {Upto(i) : i \in S}
           R == StrictSubsetOrdering(S)
<1>1. IsWellFoundedOn(R, SUBSET S)
  BY FS_StrictSubsetOrderingWellFounded, FS_FiniteSubsetsOfFinite
<1>2. T \subseteq SUBSET S /\ T # {}
  OBVIOUS
<1>3. PICK A \in T : \A B \in T : <<B, A>> \notin R
  <2> HIDE DEF T, R
  <2> QED BY <1>1, <1>2, WFMin
<1>4. PICK i \in S : A = Upto(i)
  BY <1>3
<1>5. ASSUME NEW j \in S, j < i PROVE FALSE
  <2>0. \A x \in S : x \in Int
    OBVIOUS
  <2>1. Upto(j) \in T /\ Upto(j) \subseteq A /\ i \in A /\ i \notin Upto(j)
    <3>1. Upto(j) \in T
      OBVIOUS
    <3>2. Upto(j) \subseteq Upto(i)
      <4>1. ASSUME NEW k \in S, k <= j PROVE k <= i
        BY <2>0, <1>5, <4>1
      <4> QED BY <4>1
    <3>3. i \in Upto(i) /\ i \notin Upto(j)
      BY <2>0, <1>5
    <3> QED BY <3>1, <3>2, <3>3, <1>4
  <2>2. <<Upto(j), A>> \in R
    BY <2>1, <1>2, <1>3 DEF StrictSubsetOrdering
  <2> QED BY <2>1, <2>2, <1>3
<1>6. \E x \in S : \A y \in S : x <= y
  BY <1>5
<1> QED BY <1>6 DEF Min
-----------------------------------------------------------------------------
\* The first position of a list where some condition holds: what a search that
\* walks the list from its head stops at.
LEMMA FirstOfList ==
  ASSUME NEW S, NEW s \in Seq(S), NEW I \in SUBSET DOMAIN s, I # {}
  PROVE  s[Min(I)] \in Range(s) /\ s[Min(I)] \in S
<1>1. DOMAIN s = 1 .. Len(s) /\ Len(s) \in Int
  OBVIOUS
<1>2. IsFiniteSet(DOMAIN s) /\ DOMAIN s \in SUBSET Int
  BY <1>1, FS_Interval
<1>3. IsFiniteSet(I) /\ I \in SUBSET Int
  BY <1>2, FS_Subset
<1>4. Min(I) \in DOMAIN s
  BY <1>3, MinExists
<1>5. \A i \in DOMAIN s : s[i] \in S
  OBVIOUS
<1> QED BY <1>4, <1>5 DEF Range

\* What Append, Head, Tail and \o do to the elements and to their distinctness.

LEMMA AppendDistinct ==
  ASSUME NEW S, NEW s \in Seq(S), NEW e \in S
  PROVE  /\ Append(s, e) \in Seq(S)
         /\ Range(Append(s, e)) = Range(s) \cup {e}
         /\ IsInjective(s) /\ e \notin Range(s) => IsInjective(Append(s, e))
<1> DEFINE a == Append(s, e)
<1>1. /\ a \in Seq(S) /\ Len(a) = Len(s) + 1 /\ Len(s) \in Nat
      /\ DOMAIN s = 1 .. Len(s) /\ DOMAIN a = 1 .. Len(s) + 1
      /\ \A i \in 1 .. Len(s) : a[i] = s[i]
      /\ a[Len(s) + 1] = e
  OBVIOUS
<1> HIDE DEF a
<1>2. Range(a) = Range(s) \cup {e}
  BY <1>1, \A i \in 1 .. Len(s) + 1 : i \in 1 .. Len(s) \/ i = Len(s) + 1 DEF Range
<1>3. ASSUME IsInjective(s), e \notin Range(s), NEW i \in DOMAIN a, NEW j \in DOMAIN a,
             a[i] = a[j]
      PROVE  i = j
  BY <1>1, <1>3 DEF IsInjective, Range
<1> QED BY <1>1, <1>2, <1>3 DEF IsInjective, a

LEMMA HeadTailDistinct ==
  ASSUME NEW S, NEW s \in Seq(S), s # <<>>
  PROVE  /\ Head(s) \in Range(s) /\ Head(s) \in S
         /\ Tail(s) \in Seq(S)
         /\ Range(s) = Range(Tail(s)) \cup {Head(s)}
         /\ IsInjective(s) => IsInjective(Tail(s)) /\ Head(s) \notin Range(Tail(s))
<1> DEFINE t == Tail(s)
<1>1. /\ t \in Seq(S) /\ Len(s) \in Nat \ {0} /\ Head(s) = s[1]
      /\ DOMAIN s = 1 .. Len(s) /\ DOMAIN t = 1 .. Len(s) - 1
      /\ \A i \in 1 .. Len(s) - 1 : t[i] = s[i + 1]
      /\ \A i \in 1 .. Len(s) : s[i] \in S
  OBVIOUS
<1> HIDE DEF t
<1>2. \A i \in 1 .. Len(s) : i = 1 \/ (i - 1 \in 1 .. Len(s) - 1 /\ s[i] = t[i - 1])
  BY <1>1
<1>3. Range(s) = Range(t) \cup {Head(s)}
  <2>1. ASSUME NEW i \in 1 .. Len(s) PROVE s[i] \in Range(t) \cup {Head(s)}
    BY <1>1, <1>2 DEF Range
  <2>2. ASSUME NEW i \in 1 .. Len(s) - 1 PROVE t[i] \in Range(s)
    <3>1. i + 1 \in DOMAIN s /\ t[i] = s[i + 1]
      BY <1>1
    <3> QED BY <3>1 DEF Range
  <2>3. Head(s) \in Range(s)
    BY <1>1 DEF Range
  <2> QED BY <2>1, <2>2, <2>3, <1>1 DEF Range
<1>4. ASSUME IsInjective(s) PROVE IsInjective(t)
  <2>1. ASSUME NEW i \in DOMAIN t, NEW j \in DOMAIN t, t[i] = t[j]
        PROVE  i = j
    <3>1. /\ i + 1 \in DOMAIN s /\ j + 1 \in DOMAIN s
          /\ s[i + 1] = s[j + 1] /\ i \in Int /\ j \in Int
      BY <1>1, <2>1
    <3>2. i + 1 = j + 1
      BY <3>1, <1>4 DEF IsInjective
    <3> QED BY <3>1, <3>2
  <2> QED BY <2>1 DEF IsInjective
<1>5. ASSUME IsInjective(s), Head(s) \in Range(t) PROVE FALSE
  <2>1. PICK i \in 1 .. Len(s) - 1 : t[i] = Head(s)
    BY <1>1, <1>5 DEF Range
  <2>2. s[i + 1] = s[1] /\ i + 1 \in DOMAIN s /\ 1 \in DOMAIN s /\ i + 1 # 1
    BY <1>1, <2>1
  <2> QED BY <1>5, <2>2 DEF IsInjective
<1> QED BY <1>1, <1>3, <1>4, <1>5 DEF t

LEMMA ConcatDistinct ==
  ASSUME NEW S, NEW s \in Seq(S), NEW t \in Seq(S)
  PROVE  /\ s \o t \in Seq(S)
         /\ Range(s \o t) = Range(s) \cup Range(t)
         /\ IsInjective(s) /\ IsInjective(t) /\ Range(s) \cap Range(t) = {}
              => IsInjective(s \o t)
<1> DEFINE c == s \o t
<1>1. /\ c \in Seq(S) /\ Len(s) \in Nat /\ Len(t) \in Nat
      /\ DOMAIN s = 1 .. Len(s) /\ DOMAIN t = 1 .. Len(t)
      /\ DOMAIN c = 1 .. Len(s) + Len(t)
      /\ \A i \in 1 .. Len(s) + Len(t) :
           c[i] = IF i <= Len(s) THEN s[i] ELSE t[i - Len(s)]
  BY ConcatProperties
<1>2. Range(c) = Range(s) \cup Range(t)
  BY RangeConcatenation
<1> HIDE DEF c
<1>3. ASSUME IsInjective(s), IsInjective(t), Range(s) \cap Range(t) = {},
             NEW i \in DOMAIN c, NEW j \in DOMAIN c, c[i] = c[j]
      PROVE  i = j
  <2>1. CASE i <= Len(s) /\ j <= Len(s)
    BY <1>1, <1>3, <2>1 DEF IsInjective
  <2>2. CASE i > Len(s) /\ j > Len(s)
    <3>1. i - Len(s) \in DOMAIN t /\ j - Len(s) \in DOMAIN t
      BY <1>1, <2>2
    <3>2. t[i - Len(s)] = t[j - Len(s)]
      BY <1>1, <1>3, <2>2
    <3>3. i - Len(s) = j - Len(s)
      BY <3>1, <3>2, <1>3 DEF IsInjective
    <3> QED BY <3>3, <1>1
  <2>3. CASE i <= Len(s) /\ j > Len(s)
    <3>1. c[i] \in Range(s) /\ c[j] \in Range(t)
      BY <1>1, <2>3, j - Len(s) \in DOMAIN t DEF Range
    <3> QED BY <3>1, <1>3
  <2>4. CASE i > Len(s) /\ j <= Len(s)
    <3>1. c[j] \in Range(s) /\ c[i] \in Range(t)
      BY <1>1, <2>4, i - Len(s) \in DOMAIN t DEF Range
    <3> QED BY <3>1, <1>3
  <2> QED BY <2>1, <2>2, <2>3, <2>4, <1>1
<1> QED BY <1>1, <1>2, <1>3 DEF IsInjective, c
-----------------------------------------------------------------------------
\* Counting the members of a set from the lowest is a bijection; in Without, between
\* the positions of the result and the positions of s that are kept.
LEMMA KeptPosition ==
  ASSUME NEW kept \in SUBSET Int, IsFiniteSet(kept)
  PROVE  LET Rank(i) == Cardinality({k \in kept : k <= i})
             At(j) == CHOOSE i \in kept : Rank(i) = j
         IN  /\ IsFiniteSet(kept) /\ Cardinality(kept) \in Nat
             /\ \A j \in 1 .. Cardinality(kept) : At(j) \in kept /\ Rank(At(j)) = j
             /\ \A i \in kept : Rank(i) \in 1 .. Cardinality(kept) /\ At(Rank(i)) = i
<1> DEFINE Below(i) == {k \in kept : k <= i}
           Rank(i) == Cardinality(Below(i))
           At(j) == CHOOSE i \in kept : Rank(i) = j
           m == Cardinality(kept)
           rank == [i \in kept |-> Rank(i)]
<1>0. \A k \in kept : k \in Int
  OBVIOUS
<1>1. IsFiniteSet(kept) /\ m \in Nat
  BY FS_CardinalityType
<1>2. ASSUME NEW i \in kept
      PROVE  /\ Below(i) \subseteq kept /\ i \in Below(i) /\ IsFiniteSet(Below(i))
             /\ Rank(i) \in 1 .. m
  <2>1. Below(i) \subseteq kept /\ i \in Below(i)
    BY i \in Int
  <2>2. IsFiniteSet(Below(i)) /\ Rank(i) <= m /\ Rank(i) \in Nat
    BY <1>1, <2>1, FS_Subset, FS_CardinalityType
  <2>3. Rank(i) # 0
    BY <2>1, <2>2, FS_EmptySet
  <2> QED BY <1>1, <2>1, <2>2, <2>3
<1>3. ASSUME NEW i \in kept, NEW j \in kept, i < j PROVE Rank(i) # Rank(j)
  <2>1. i \in Int /\ j \in Int
    OBVIOUS
  <2>2. Below(i) \subseteq Below(j)
    <3>1. ASSUME NEW k \in kept, k <= i PROVE k <= j
      BY <1>0, <1>3, <3>1
    <3> QED BY <3>1
  <2>3. j \in Below(j) /\ j \notin Below(i)
    BY <1>0, <1>3
  <2>4. Below(i) # Below(j)
    BY <2>3
  <2> QED BY <2>2, <2>4, <1>2, FS_Subset
<1>4. \A i, j \in kept : Rank(i) = Rank(j) => i = j
  <2>1. ASSUME NEW i \in kept, NEW j \in kept, Rank(i) = Rank(j) PROVE i = j
    <3>1. i \in Int /\ j \in Int
      OBVIOUS
    <3>2. ~(i < j) /\ ~(j < i)
      BY <2>1, <1>3
    <3> QED BY <3>1, <3>2
  <2> QED BY <2>1
<1> HIDE DEF Rank
<1>5. rank \in Injection(kept, 1 .. m)
  BY <1>2, <1>4 DEF Injection, IsInjective
<1>6. IsFiniteSet(1 .. m) /\ Cardinality(1 .. m) = m
  BY <1>1, FS_Interval
<1>7. rank \in Surjection(kept, 1 .. m)
  BY <1>1, <1>5, <1>6, FS_Injection
<1>8. \A j \in 1 .. m : \E i \in kept : Rank(i) = j
  BY <1>7 DEF Surjection
<1>9. \A j \in 1 .. m : At(j) \in kept /\ Rank(At(j)) = j
  BY <1>8
<1>10. \A i \in kept : At(Rank(i)) = i
  BY <1>2, <1>4, <1>9
<1> QED BY <1>1, <1>2, <1>9, <1>10 DEF Rank

\* list_remove of the members of K leaves the other elements, and no element
\* twice that was there once.
LEMMA WithoutDistinct ==
  ASSUME NEW S, NEW s \in Seq(S), NEW K
  PROVE  /\ Without(s, K) \in Seq(S)
         /\ Range(Without(s, K)) = Range(s) \ K
         /\ IsInjective(s) => IsInjective(Without(s, K))
<1> DEFINE kept == {i \in DOMAIN s : s[i] \notin K}
           Rank(i) == Cardinality({k \in kept : k <= i})
           At(j) == CHOOSE i \in kept : Rank(i) = j
           m == Cardinality(kept)
           w == Without(s, K)
<1>1. Len(s) \in Nat /\ DOMAIN s = 1 .. Len(s) /\ kept \in SUBSET (1 .. Len(s))
  OBVIOUS
<1>2. /\ m \in Nat
      /\ \A j \in 1 .. m : At(j) \in kept /\ Rank(At(j)) = j
      /\ \A i \in kept : Rank(i) \in 1 .. m /\ At(Rank(i)) = i
  <2> HIDE DEF kept
  <2>1. kept \in SUBSET Int
    BY <1>1
  <2>2. IsFiniteSet(1 .. Len(s))
    BY <1>1, FS_Interval
  <2>3. IsFiniteSet(kept)
    BY <1>1, <2>2, FS_Subset
  <2> QED BY <2>1, <2>3, KeptPosition
<1>3. w = [j \in 1 .. m |-> s[At(j)]]
  BY DEF Without
<1>4. \A i \in kept : s[i] \in S /\ s[i] \notin K /\ i \in DOMAIN s
  BY <1>1
<1>5. \A i \in DOMAIN s : s[i] \notin K => i \in kept
  OBVIOUS
<1> HIDE DEF kept, Rank, At, m, w
<1>6. w \in [1 .. m -> S]
  BY <1>2, <1>3, <1>4
<1>7. w \in Seq(S)
  BY <1>6, <1>2, IsASeq
<1>8. Range(w) = Range(s) \ K
  <2>1. ASSUME NEW j \in 1 .. m PROVE w[j] \in Range(s) \ K
    BY <1>2, <1>3, <1>4 DEF Range
  <2>2. ASSUME NEW i \in DOMAIN s, s[i] \notin K PROVE s[i] \in Range(w)
    <3>1. Rank(i) \in 1 .. m /\ w[Rank(i)] = s[i]
      BY <1>2, <1>3, <1>5, <2>2
    <3> QED BY <3>1, <1>6 DEF Range
  <2>3. DOMAIN w = 1 .. m
    BY <1>6
  <2> QED BY <2>1, <2>2, <2>3 DEF Range
<1>9. ASSUME IsInjective(s), NEW i \in 1 .. m, NEW j \in 1 .. m, w[i] = w[j]
      PROVE  i = j
  <2>1. At(i) \in DOMAIN s /\ At(j) \in DOMAIN s /\ s[At(i)] = s[At(j)]
    BY <1>2, <1>3, <1>4, <1>9
  <2>2. At(i) = At(j)
    BY <2>1, <1>9 DEF IsInjective
  <2> QED BY <2>2, <1>2
<1>10. DOMAIN w = 1 .. m
  BY <1>6
<1> QED BY <1>7, <1>8, <1>9, <1>10 DEF IsInjective, w

\* They stay in their order.
LEMMA WithoutOrder ==
  ASSUME NEW S, NEW s \in Seq(S), NEW K, NEW i \in DOMAIN s, NEW j \in DOMAIN s,
         i <= j, s[i] \notin K, s[j] \notin K
  PROVE  \E k, l \in DOMAIN Without(s, K) :
           k <= l /\ Without(s, K)[k] = s[i] /\ Without(s, K)[l] = s[j]
<1> DEFINE kept == {k \in DOMAIN s : s[k] \notin K}
           Below(n) == {k \in kept : k <= n}
           Rank(n) == Cardinality(Below(n))
           At(n) == CHOOSE k \in kept : Rank(k) = n
           m == Cardinality(kept)
           w == Without(s, K)
<1>1. Len(s) \in Nat /\ DOMAIN s = 1 .. Len(s) /\ kept \in SUBSET (1 .. Len(s))
  OBVIOUS
<1>2. /\ m \in Nat /\ IsFiniteSet(kept)
      /\ \A k \in kept : Rank(k) \in 1 .. m /\ At(Rank(k)) = k
  <2> HIDE DEF kept
  <2>1. kept \in SUBSET Int
    BY <1>1
  <2>2. IsFiniteSet(1 .. Len(s))
    BY <1>1, FS_Interval
  <2>3. IsFiniteSet(kept)
    BY <1>1, <2>2, FS_Subset
  <2> QED BY <2>1, <2>3, KeptPosition
<1>3. w = [k \in 1 .. m |-> s[At(k)]]
  BY DEF Without
<1>4. i \in kept /\ j \in kept
  OBVIOUS
<1>5. Below(i) \subseteq Below(j) /\ Below(j) \subseteq kept
  BY <1>1
<1> HIDE DEF kept, Below, w, m
<1>6. Rank(i) <= Rank(j)
  <2>1. IsFiniteSet(Below(j))
    BY <1>2, <1>5, FS_Subset
  <2> QED BY <1>5, <2>1, FS_Subset, FS_CardinalityType
<1> HIDE DEF Rank
<1>7. Rank(i) \in 1 .. m /\ Rank(j) \in 1 .. m /\ At(Rank(i)) = i /\ At(Rank(j)) = j
  BY <1>2, <1>4
<1> HIDE DEF At
<1>8. DOMAIN w = 1 .. m /\ w[Rank(i)] = s[i] /\ w[Rank(j)] = s[j]
  BY <1>3, <1>7
<1> QED BY <1>6, <1>7, <1>8 DEF w

LEMMA WithoutOne ==
  ASSUME NEW S, NEW s \in Seq(S), IsInjective(s), NEW e \in Range(s)
  PROVE  Len(Without(s, {e})) = Len(s) - 1
<1> DEFINE kept == {k \in DOMAIN s : s[k] \notin {e}}
<1>1. Len(s) \in Nat /\ DOMAIN s = 1 .. Len(s)
  OBVIOUS
<1>2. PICK i \in DOMAIN s : s[i] = e
  BY DEF Range
<1>3. kept = (1 .. Len(s)) \ {i}
  BY <1>1, <1>2 DEF IsInjective
<1>4. IsFiniteSet(1 .. Len(s)) /\ Cardinality(1 .. Len(s)) = Len(s)
  <2>1. 1 \in Int /\ Len(s) \in Int
    BY <1>1
  <2>2. Cardinality(1 .. Len(s)) = IF 1 > Len(s) THEN 0 ELSE Len(s) - 1 + 1
    BY <2>1, FS_Interval
  <2>3. Cardinality(1 .. Len(s)) = Len(s)
    BY <1>1, <2>2
  <2> QED BY <2>1, <2>3, FS_Interval
<1>5. i \in 1 .. Len(s)
  BY <1>1
<1> HIDE DEF kept
<1>6. Cardinality(kept) = Len(s) - 1
  BY <1>3, <1>4, <1>5, FS_RemoveElement, ZenonT(40)
<1>7. Cardinality(kept) \in Nat
  BY <1>1, <1>5, <1>6
<1>8. DOMAIN Without(s, {e}) = 1 .. Cardinality(kept)
  BY DEF Without, kept
<1>9. Without(s, {e}) \in Seq(S)
  BY WithoutDistinct
<1>10. Len(Without(s, {e})) = Cardinality(kept)
  BY <1>7, <1>8, <1>9
<1> QED BY <1>6, <1>10

LEMMA WithoutNone ==
  ASSUME NEW S, NEW s \in Seq(S), NEW e, e \notin Range(s)
  PROVE  Len(Without(s, {e})) = Len(s)
<1> DEFINE kept == {k \in DOMAIN s : s[k] \notin {e}}
<1>1. Len(s) \in Nat /\ DOMAIN s = 1 .. Len(s)
  OBVIOUS
<1>2. kept = 1 .. Len(s)
  BY <1>1 DEF Range
<1> HIDE DEF kept
<1>3. Cardinality(kept) = Len(s)
  <2>1. 1 \in Int /\ Len(s) \in Int
    BY <1>1
  <2>2. Cardinality(1 .. Len(s)) = IF 1 > Len(s) THEN 0 ELSE Len(s) - 1 + 1
    BY <2>1, FS_Interval
  <2> QED BY <1>1, <1>2, <2>2
<1>4. DOMAIN Without(s, {e}) = 1 .. Cardinality(kept)
  BY DEF Without, kept
<1>5. Without(s, {e}) \in Seq(S)
  BY WithoutDistinct
<1> QED BY <1>1, <1>3, <1>4, <1>5

\* The greatest element of a finite set of integers.
LEMMA MaxExists ==
  ASSUME NEW S \in SUBSET Int, IsFiniteSet(S), S # {}
  PROVE  Max(S) \in S /\ \A i \in S : i <= Max(S)
<1> DEFINE T == {0 - s : s \in S}
           f == [s \in S |-> 0 - s]
<1>1. IsFiniteSet(T)
  <2>1. f \in Surjection(S, T)
    BY DEF Surjection
  <2> QED BY <2>1, FS_Surjection
<1>2. T \in SUBSET Int /\ T # {}
  <2>1. \A s \in S : 0 - s \in Int
    <3>1. \A s \in S : s \in Int
      OBVIOUS
    <3> QED BY <3>1
  <2> QED BY <2>1
<1>3. Min(T) \in T /\ \A t \in T : Min(T) <= t
  <2> HIDE DEF T
  <2> QED BY <1>1, <1>2, MinExists
<1>4. PICK m \in S : Min(T) = 0 - m
  BY <1>3
<1>5. \A i \in S : 0 - i \in T
  OBVIOUS
<1> HIDE DEF T
<1>6. \A i \in S : m >= i
  BY <1>3, <1>4, <1>5
<1>7. Max(S) \in S /\ \A i \in S : Max(S) >= i
  BY <1>6 DEF Max
<1> QED BY <1>7
-----------------------------------------------------------------------------
\* The rings of pipe.c and event_queue.c: k slots of a ring of n from one of them
\* on, and how many lie between two places.
Slots(b, n, first, k) == [i \in 1 .. k |-> b[(first + i - 1) % n]]
Distance(r, w, n) == (w - r) % n

\* The remainder of what is at most one turn away from its place.
LEMMA OneTurn ==
  ASSUME NEW n \in Nat \ {0}, NEW a \in Int
  PROVE  /\ a \in 0 .. n - 1 => a % n = a
         /\ a \in n .. 2 * n - 1 => a % n = a - n
         /\ a \in -n .. -1 => a % n = a + n
<1>1. a \in 0 .. n - 1 => a % n = a
  BY Z3
<1>2. a \in n .. 2 * n - 1 => a % n = a - n
  BY Z3
<1>3. a \in -n .. -1 => a % n = a + n
  BY Z3
<1> QED BY <1>1, <1>2, <1>3

\* The next place, and the distance, said without a remainder.
LEMMA RingPlaces ==
  ASSUME NEW n \in Nat \ {0, 1}, NEW r \in 0 .. n - 1, NEW w \in 0 .. n - 1
  PROVE  /\ (w + 1) % n = IF w = n - 1 THEN 0 ELSE w + 1
         /\ (w + 1) % n \in 0 .. n - 1
         /\ Distance(r, w, n) = IF r <= w THEN w - r ELSE w - r + n
         /\ Distance(r, w, n) \in 0 .. n - 1
         /\ \A i \in 1 .. n : (r + i - 1) % n = IF r + i - 1 < n THEN r + i - 1 ELSE r + i - 1 - n
<1>1. (w + 1) % n = IF w = n - 1 THEN 0 ELSE w + 1
  <2>1. CASE w = n - 1
    <3>1. w + 1 \in n .. 2 * n - 1 /\ w + 1 \in Int
      BY <2>1
    <3>2. (w + 1) % n = w + 1 - n
      BY <3>1, OneTurn
    <3> QED BY <3>2, <2>1
  <2>2. CASE w # n - 1
    <3>1. w + 1 \in 0 .. n - 1 /\ w + 1 \in Int
      BY <2>2
    <3> QED BY <3>1, <2>2, OneTurn
  <2> QED BY <2>1, <2>2
<1>2. (w - r) % n = IF r <= w THEN w - r ELSE w - r + n
  <2>1. w - r \in Int /\ (r <= w => w - r \in 0 .. n - 1) /\ (~(r <= w) => w - r \in -n .. -1)
    OBVIOUS
  <2> QED BY <2>1, OneTurn
<1>3. ASSUME NEW i \in 1 .. n
      PROVE  (r + i - 1) % n = IF r + i - 1 < n THEN r + i - 1 ELSE r + i - 1 - n
  <2> DEFINE a == r + i - 1
  <2>1. a \in Int /\ (a < n => a \in 0 .. n - 1) /\ (~(a < n) => a \in n .. 2 * n - 1)
    OBVIOUS
  <2> HIDE DEF a
  <2>2. a % n = IF a < n THEN a ELSE a - n
    BY <2>1, OneTurn
  <2> QED BY <2>2 DEF a
<1>4. (w + 1) % n \in 0 .. n - 1
  BY <1>1
<1>5. Distance(r, w, n) \in 0 .. n - 1
  BY <1>2 DEF Distance
<1> QED BY <1>1, <1>2, <1>3, <1>4, <1>5 DEF Distance

\* What one place more, of either end, does to the distance.
LEMMA RingMoves ==
  ASSUME NEW n \in Nat \ {0, 1}, NEW r \in 0 .. n - 1, NEW w \in 0 .. n - 1
  PROVE  /\ Distance(r, w, n) = 0 <=> r = w
         /\ Distance(r, w, n) < n - 1 <=> (w + 1) % n # r
         /\ (w + 1) % n # r => Distance(r, (w + 1) % n, n) = Distance(r, w, n) + 1
         /\ r # w => Distance((r + 1) % n, w, n) = Distance(r, w, n) - 1
<1> DEFINE next(i) == (i + 1) % n
           D(i, j) == Distance(i, j, n)
<1>1. /\ next(w) = (IF w = n - 1 THEN 0 ELSE w + 1) /\ next(w) \in 0 .. n - 1
      /\ next(r) = (IF r = n - 1 THEN 0 ELSE r + 1) /\ next(r) \in 0 .. n - 1
  BY RingPlaces
<1>2. \A i, j \in 0 .. n - 1 : D(i, j) = IF i <= j THEN j - i ELSE j - i + n
  BY RingPlaces
<1> HIDE DEF next, D
<1>3. D(r, w) = 0 <=> r = w
  BY <1>2
<1>4. D(r, w) < n - 1 <=> next(w) # r
  BY <1>1, <1>2
<1>5. next(w) # r => D(r, next(w)) = D(r, w) + 1
  BY <1>1, <1>2
<1>6. r # w => D(next(r), w) = D(r, w) - 1
  BY <1>1, <1>2
<1> QED BY <1>3, <1>4, <1>5, <1>6 DEF next, D

\* The contents of a ring.
LEMMA RingContents ==
  ASSUME NEW n \in Nat \ {0, 1}, NEW r \in 0 .. n - 1, NEW w \in 0 .. n - 1,
         NEW S, NEW b \in [0 .. n - 1 -> S]
  PROVE  /\ Slots(b, n, r, Distance(r, w, n)) \in Seq(S)
         /\ Len(Slots(b, n, r, Distance(r, w, n))) = Distance(r, w, n)
<1> DEFINE d == Distance(r, w, n)
<1>1. d \in 0 .. n - 1 /\ \A i \in 1 .. n : (r + i - 1) % n \in 0 .. n - 1
  BY RingPlaces
<1> HIDE DEF d
<1>2. d \in Nat /\ Slots(b, n, r, d) \in [1 .. d -> S]
  BY <1>1 DEF Slots
<1> QED BY <1>2, IsASeq DEF d

\* A write to the free slot at w changes nothing of what the ring holds ...
LEMMA RingWrite ==
  ASSUME NEW n \in Nat \ {0, 1}, NEW r \in 0 .. n - 1, NEW w \in 0 .. n - 1,
         NEW S, NEW b \in [0 .. n - 1 -> S], NEW x \in S
  PROVE  Slots([b EXCEPT ![w] = x], n, r, Distance(r, w, n)) = Slots(b, n, r, Distance(r, w, n))
<1> DEFINE d == Distance(r, w, n)
<1>1. /\ d = (IF r <= w THEN w - r ELSE w - r + n)
      /\ \A i \in 1 .. n : (r + i - 1) % n = IF r + i - 1 < n THEN r + i - 1 ELSE r + i - 1 - n
  BY RingPlaces
<1> HIDE DEF d
<1>2. \A i \in 1 .. d : (r + i - 1) % n # w
  BY <1>1
<1>3. \A i \in 1 .. d : [b EXCEPT ![w] = x][(r + i - 1) % n] = b[(r + i - 1) % n]
  BY <1>2, <1>1
<1> QED BY <1>3 DEF Slots, d

\* ... until w moves on: then the slot is its last.
LEMMA RingPut ==
  ASSUME NEW n \in Nat \ {0, 1}, NEW r \in 0 .. n - 1, NEW w \in 0 .. n - 1,
         NEW S, NEW b \in [0 .. n - 1 -> S], (w + 1) % n # r
  PROVE  Slots(b, n, r, Distance(r, (w + 1) % n, n))
           = Append(Slots(b, n, r, Distance(r, w, n)), b[w])
<1> DEFINE d == Distance(r, w, n)
           s == Slots(b, n, r, d)
           t == Slots(b, n, r, d + 1)
<1>1. /\ d = (IF r <= w THEN w - r ELSE w - r + n) /\ d \in 0 .. n - 1
      /\ \A i \in 1 .. n : (r + i - 1) % n = IF r + i - 1 < n THEN r + i - 1 ELSE r + i - 1 - n
  BY RingPlaces
<1>2. Distance(r, (w + 1) % n, n) = d + 1
  BY RingMoves
<1>3. s \in Seq(S) /\ Len(s) = d
  BY RingContents
<1> HIDE DEF d
<1>4. (r + (d + 1) - 1) % n = w
  BY <1>1
<1>5. t = [i \in 1 .. d + 1 |-> IF i = d + 1 THEN b[w] ELSE s[i]]
  <2>1. t = [i \in 1 .. d + 1 |-> b[(r + i - 1) % n]]
    BY DEF Slots
  <2>2. \A i \in 1 .. d : s[i] = b[(r + i - 1) % n]
    BY DEF Slots
  <2> HIDE DEF s, t
  <2>3. \A i \in 1 .. d + 1 : b[(r + i - 1) % n] = IF i = d + 1 THEN b[w] ELSE s[i]
    BY <1>1, <1>4, <2>2
  <2> QED BY <2>1, <2>3
<1> HIDE DEF s, t
<1>6. b[w] \in S
  OBVIOUS
<1>7. t \in Seq(S)
  <2>1. t \in [1 .. d + 1 -> S]
    BY <1>1, <1>3, <1>5, <1>6
  <2> QED BY <1>1, <2>1, IsASeq
<1>8. t = Append(s, b[w])
  <2> DEFINE a == Append(s, b[w])
  <2>1. /\ a \in Seq(S) /\ Len(a) = d + 1 /\ a[d + 1] = b[w]
        /\ \A i \in 1 .. d : a[i] = s[i]
    BY <1>3, <1>6
  <2>2. Len(t) = d + 1 /\ \A i \in 1 .. d + 1 : t[i] = IF i = d + 1 THEN b[w] ELSE s[i]
    BY <1>1, <1>5
  <2> HIDE DEF a
  <2>3. \A i \in 1 .. d + 1 : t[i] = a[i]
    BY <1>1, <2>1, <2>2
  <2>4. t = a
    BY <1>7, <2>1, <2>2, <2>3, SeqEqual
  <2> QED BY <2>4 DEF a
<1> QED BY <1>2, <1>8 DEF s, t, d

\* When r moves on, the first is gone.
LEMMA RingGet ==
  ASSUME NEW n \in Nat \ {0, 1}, NEW r \in 0 .. n - 1, NEW w \in 0 .. n - 1,
         NEW S, NEW b \in [0 .. n - 1 -> S], r # w
  PROVE  LET s == Slots(b, n, r, Distance(r, w, n))
         IN  /\ s # <<>> /\ Head(s) = b[r]
             /\ Slots(b, n, (r + 1) % n, Distance((r + 1) % n, w, n)) = Tail(s)
<1> DEFINE d == Distance(r, w, n)
           q == (r + 1) % n
           s == Slots(b, n, r, d)
           t == Slots(b, n, q, d - 1)
<1>1. /\ d \in 0 .. n - 1
      /\ \A i \in 1 .. n : (r + i - 1) % n = IF r + i - 1 < n THEN r + i - 1 ELSE r + i - 1 - n
  BY RingPlaces
<1>2. q = (IF r = n - 1 THEN 0 ELSE r + 1) /\ q \in 0 .. n - 1
  BY RingPlaces
<1>3. Distance(q, w, n) = d - 1 /\ d # 0
  BY RingMoves
<1>4. s \in Seq(S) /\ Len(s) = d
  BY RingContents
<1> HIDE DEF d, q
<1>5. \A i \in 1 .. n : (q + i - 1) % n = IF q + i - 1 < n THEN q + i - 1 ELSE q + i - 1 - n
  BY <1>2, RingPlaces
<1>6. t \in Seq(S) /\ Len(t) = d - 1
  BY <1>2, <1>3, RingContents
<1>7. \A i \in 1 .. d : s[i] = b[(r + i - 1) % n]
  BY DEF Slots
<1>8. \A i \in 1 .. d - 1 : t[i] = b[(q + i - 1) % n]
  BY DEF Slots
<1> HIDE DEF s, t
<1>9. \A i \in 1 .. d - 1 : t[i] = s[i + 1]
  <2> SUFFICES ASSUME NEW i \in 1 .. d - 1 PROVE t[i] = s[i + 1]
    OBVIOUS
  <2>1. i + 1 \in 1 .. d /\ i + 1 \in 1 .. n /\ i \in 1 .. n
    BY <1>1
  <2>2. (q + i - 1) % n = (r + (i + 1) - 1) % n
    BY <1>1, <1>2, <1>5, <2>1
  <2> QED BY <1>7, <1>8, <2>1, <2>2
<1>10. s # <<>> /\ Head(s) = s[1]
  BY <1>3, <1>4
<1>11. s[1] = b[r]
  <2>1. 1 \in 1 .. d /\ 1 \in 1 .. n /\ (r + 1 - 1) % n = r
    BY <1>1, <1>3
  <2> QED BY <1>7, <2>1
<1>12. t = Tail(s)
  <2>1. /\ Tail(s) \in Seq(S) /\ Len(Tail(s)) = d - 1
        /\ \A i \in 1 .. d - 1 : Tail(s)[i] = s[i + 1]
    BY <1>1, <1>4, <1>10
  <2> DEFINE u == Tail(s)
  <2> HIDE DEF u
  <2>2. u \in Seq(S) /\ Len(u) = d - 1 /\ \A i \in 1 .. d - 1 : t[i] = u[i]
    BY <1>9, <2>1 DEF u
  <2>3. t = u
    BY <1>6, <2>2, SeqEqual
  <2> QED BY <2>3 DEF u
<1> QED BY <1>3, <1>10, <1>11, <1>12 DEF s, t, d, q
=============================================================================

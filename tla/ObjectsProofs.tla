---------------------------- MODULE ObjectsProofs ----------------------------
(***************************************************************************)
(* Reference counts are exact: what a kill, an interleaved call or a       *)
(* failure leaves behind is in leaked and orphans, and nowhere else.       *)
(***************************************************************************)
EXTENDS Objects, KListProofs
-----------------------------------------------------------------------------
(* Counting.                                                               *)

\* Two finite sets that agree but for one element.
LEMMA OneDiffers ==
  ASSUME NEW A, NEW B, IsFiniteSet(A), NEW x, \A y : y # x => (y \in A <=> y \in B)
  PROVE  /\ IsFiniteSet(B) /\ Cardinality(A) \in Nat /\ Cardinality(B) \in Nat
         /\ Cardinality(B) = Cardinality(A) - (IF x \in A THEN 1 ELSE 0) + (IF x \in B THEN 1 ELSE 0)
<1> DEFINE C == A \ {x}
<1>1. /\ IsFiniteSet(C) /\ Cardinality(A) \in Nat /\ Cardinality(C) \in Nat
      /\ Cardinality(C) = IF x \in A THEN Cardinality(A) - 1 ELSE Cardinality(A)
  BY FS_RemoveElement, FS_CardinalityType
<1>2. B = IF x \in B THEN C \cup {x} ELSE C
  OBVIOUS
<1>3. /\ IsFiniteSet(C \cup {x}) /\ x \notin C
      /\ Cardinality(C \cup {x}) = Cardinality(C) + 1
  BY <1>1, FS_AddElement
<1>4. IsFiniteSet(B) /\ Cardinality(B) = IF x \in B THEN Cardinality(C) + 1 ELSE Cardinality(C)
  BY <1>1, <1>2, <1>3
<1> QED BY <1>1, <1>4

\* The pairs with the same first part are as many as their second parts.
LEMMA RowSize ==
  ASSUME NEW X, IsFiniteSet(X), NEW p
  PROVE  IsFiniteSet({p} \X X) /\ Cardinality({p} \X X) = Cardinality(X) /\ Cardinality(X) \in Nat
<1>1. IsFiniteSet({p}) /\ Cardinality({p}) = 1
  BY FS_Singleton
<1>2. Cardinality(X) \in Nat
  BY FS_CardinalityType
<1>3. IsFiniteSet({p} \X X) /\ Cardinality({p} \X X) = 1 * Cardinality(X)
  BY <1>1, FS_Product
<1> QED BY <1>2, <1>3

LEMMA DisjointUnion ==
  ASSUME NEW A, NEW B, IsFiniteSet(A), IsFiniteSet(B), A \cap B = {}
  PROVE  /\ IsFiniteSet(A \cup B) /\ Cardinality(A) \in Nat /\ Cardinality(B) \in Nat
         /\ Cardinality(A \cup B) = Cardinality(A) + Cardinality(B)
<1>1. Cardinality(A \cap B) = 0
  BY FS_EmptySet
<1>2. /\ IsFiniteSet(A \cup B)
      /\ Cardinality(A \cup B) = Cardinality(A) + Cardinality(B) - Cardinality(A \cap B)
  BY FS_Union
<1>3. Cardinality(A) \in Nat /\ Cardinality(B) \in Nat
  BY FS_CardinalityType
<1> QED BY <1>1, <1>2, <1>3

\* Two sets of pairs that agree but for the row of p.
LEMMA RowDiffers ==
  ASSUME NEW P, NEW X, IsFiniteSet(P), IsFiniteSet(X),
         NEW A \in SUBSET (P \X X), NEW B \in SUBSET (P \X X), NEW p \in P,
         NEW R \in SUBSET X, NEW S \in SUBSET X,
         \A i \in X : (<<p, i>> \in A <=> i \in R) /\ (<<p, i>> \in B <=> i \in S),
         \A q \in P \ {p}, i \in X : <<q, i>> \in A <=> <<q, i>> \in B
  PROVE  /\ IsFiniteSet(A) /\ IsFiniteSet(B) /\ Cardinality(A) \in Nat /\ Cardinality(B) \in Nat
         /\ Cardinality(B) = Cardinality(A) - Cardinality(R) + Cardinality(S)
         /\ Cardinality(R) <= Cardinality(A) /\ Cardinality(R) \in Nat /\ Cardinality(S) \in Nat
<1> DEFINE C == A \ ({p} \X X)
<1>1. IsFiniteSet(P \X X)
  BY FS_Product
<1>2. IsFiniteSet(A) /\ IsFiniteSet(B) /\ IsFiniteSet(C) /\ IsFiniteSet(R) /\ IsFiniteSet(S)
  BY <1>1, FS_Subset
<1>3. A = C \cup ({p} \X R) /\ C \cap ({p} \X R) = {}
  OBVIOUS
<1>4. B = C \cup ({p} \X S) /\ C \cap ({p} \X S) = {}
  OBVIOUS
<1>5. /\ IsFiniteSet({p} \X R) /\ Cardinality({p} \X R) = Cardinality(R) /\ Cardinality(R) \in Nat
      /\ IsFiniteSet({p} \X S) /\ Cardinality({p} \X S) = Cardinality(S) /\ Cardinality(S) \in Nat
  BY <1>2, RowSize
<1> HIDE DEF C
<1>6. Cardinality(A) = Cardinality(C) + Cardinality({p} \X R) /\ Cardinality(C) \in Nat
  BY <1>2, <1>3, <1>5, DisjointUnion
<1>7. Cardinality(B) = Cardinality(C) + Cardinality({p} \X S)
  BY <1>2, <1>4, <1>5, DisjointUnion
<1> QED BY <1>2, <1>5, <1>6, <1>7
-----------------------------------------------------------------------------
(* The memory: what each operation makes of counts that fit.               *)

Record == [kind : Kinds \cup {"free"}, refs : Nat, holds : Res \cup {None}]

Memory(h) == h \in [Res -> Record] /\ \A r \in Res : h[r].kind = "free" => h[r] = Free

HeldBy(h, r) == {x \in Res : h[x].holds = r}

\* e[r] references to r come from outside the memory.
Fits(h, e) == \A r \in Res : h[r].refs = Cardinality(HeldBy(h, r)) + e[r]

\* Past its last reference, and not freed yet.
Spent(h, r) == h[r].kind # "free" /\ h[r].refs = 0

\* Nothing happens to what is spent, and nothing else becomes so.
Calm(h, g) == \A r \in Res : (Spent(h, r) => g[r] = h[r]) /\ (Spent(g, r) => Spent(h, r))

LEMMA HeldByFinite ==
  ASSUME NEW h, NEW r
  PROVE  IsFiniteSet(HeldBy(h, r)) /\ Cardinality(HeldBy(h, r)) \in Nat
<1>1. IsFiniteSet(HeldBy(h, r))
  BY ObjectsAssumption, FS_Subset DEF HeldBy
<1> QED BY <1>1, FS_CardinalityType

\* Whoever is held or named from outside has a reference and is in use.
LEMMA HeldHasRefs ==
  ASSUME NEW h, Memory(h), NEW e \in [Res -> Nat], Fits(h, e), NEW r \in Res
  PROVE  /\ (e[r] > 0 \/ \E x \in Res : h[x].holds = r) => h[r].refs > 0
         /\ h[r].refs > 0 => h[r].kind # "free"
         /\ h[r].refs = 0 => e[r] = 0 /\ HeldBy(h, r) = {}
<1>1. IsFiniteSet(HeldBy(h, r)) /\ Cardinality(HeldBy(h, r)) \in Nat /\ e[r] \in Nat
  BY HeldByFinite
<1>2. h[r].refs = Cardinality(HeldBy(h, r)) + e[r]
  BY DEF Fits
<1>3. HeldBy(h, r) # {} => Cardinality(HeldBy(h, r)) > 0
  BY <1>1, FS_EmptySet
<1>4. (\E x \in Res : h[x].holds = r) => HeldBy(h, r) # {}
  BY DEF HeldBy
<1>5. h[r].refs > 0 => h[r].kind # "free"
  BY DEF Memory, Free
<1> QED BY <1>1, <1>2, <1>3, <1>4, <1>5

\* One more reference, from outside, to what has one.
LEMMA AddrefFits ==
  ASSUME NEW h, Memory(h), NEW e \in [Res -> Nat], Fits(h, e), NEW r \in Res, h[r].refs > 0,
         NEW f \in [Res -> Nat], \A x \in Res : f[x] = e[x] + (IF x = r THEN 1 ELSE 0)
  PROVE  Memory(Addref(h, r)) /\ Fits(Addref(h, r), f) /\ Calm(h, Addref(h, r))
<1> DEFINE g == [h EXCEPT ![r].refs = @ + 1]
<1>0. Addref(h, r) = g
  BY ObjectsAssumption DEF Addref
<1>1. h \in [Res -> Record] /\ h[r] \in Record /\ h[r].refs \in Nat
  BY DEF Memory, Record
<1>2. /\ g \in [Res -> Record] /\ \A x \in Res \ {r} : g[x] = h[x]
      /\ g[r].refs = h[r].refs + 1 /\ g[r].kind = h[r].kind /\ g[r].holds = h[r].holds
  BY <1>1 DEF Record
<1>3. h[r].kind # "free"
  BY DEF Memory, Free
<1> HIDE DEF g
<1>4. Memory(g)
  BY <1>2, <1>3 DEF Memory
<1>5. \A x \in Res : HeldBy(g, x) = HeldBy(h, x)
  BY <1>2 DEF HeldBy
<1>6. Fits(g, f)
  <2>1. \A x \in Res : Cardinality(HeldBy(h, x)) \in Nat
    BY HeldByFinite
  <2>2. SUFFICES ASSUME NEW x \in Res
                 PROVE  g[x].refs = Cardinality(HeldBy(g, x)) + f[x]
    BY DEF Fits
  <2>3. h[x].refs = Cardinality(HeldBy(h, x)) + e[x] /\ e[x] \in Nat
    BY DEF Fits
  <2> QED BY <1>2, <1>5, <2>1, <2>3
<1>7. Calm(h, g)
  BY <1>1, <1>2 DEF Calm, Spent
<1> QED BY <1>0, <1>4, <1>6, <1>7

\* References added in bulk, each to what has one.
Raised(h, n) == [r \in Res |-> [h[r] EXCEPT !.refs = @ + n[r]]]

LEMMA RaiseFits ==
  ASSUME NEW h, Memory(h), NEW e \in [Res -> Nat], Fits(h, e), NEW n \in [Res -> Nat],
         \A r \in Res : n[r] > 0 => h[r].refs > 0,
         NEW f \in [Res -> Nat], \A x \in Res : f[x] = e[x] + n[x],
         NEW g, g = Raised(h, n)
  PROVE  Memory(g) /\ Fits(g, f) /\ Calm(h, g)
<1>1. \A r \in Res : h[r] \in Record /\ h[r].refs \in Nat /\ n[r] \in Nat
  BY DEF Memory, Record
<1>2. \A r \in Res : /\ g[r] \in Record /\ g[r].refs = h[r].refs + n[r]
                     /\ g[r].kind = h[r].kind /\ g[r].holds = h[r].holds
  BY <1>1 DEF Record, Raised
<1>3. \A r \in Res : n[r] = 0 => g[r] = h[r]
  <2>1. SUFFICES ASSUME NEW r \in Res, n[r] = 0 PROVE g[r] = h[r]
    OBVIOUS
  <2> QED BY <1>1, <1>2, <2>1 DEF Record, Raised
<1>4. \A r \in Res : h[r].kind = "free" => n[r] = 0 /\ h[r] = Free
  BY <1>1 DEF Memory, Free
<1>5. Memory(g)
  BY <1>2, <1>3, <1>4 DEF Memory, Raised
<1>6. \A x \in Res : HeldBy(g, x) = HeldBy(h, x) /\ Cardinality(HeldBy(h, x)) \in Nat
  <2>1. \A x \in Res : HeldBy(g, x) = HeldBy(h, x)
    BY <1>2 DEF HeldBy
  <2> QED BY <2>1, HeldByFinite
<1>7. Fits(g, f)
  <2>1. SUFFICES ASSUME NEW x \in Res
                 PROVE  g[x].refs = Cardinality(HeldBy(g, x)) + f[x]
    BY DEF Fits
  <2>2. h[x].refs = Cardinality(HeldBy(h, x)) + e[x] /\ e[x] \in Nat
    BY DEF Fits
  <2> QED BY <1>1, <1>2, <1>6, <2>2
<1>8. Calm(h, g)
  <2>1. SUFFICES ASSUME NEW x \in Res
                 PROVE  (Spent(h, x) => g[x] = h[x]) /\ (Spent(g, x) => Spent(h, x))
    BY DEF Calm
  <2>2. n[x] \in Nat /\ h[x].refs \in Nat /\ (n[x] > 0 => h[x].refs > 0)
        /\ g[x].refs = h[x].refs + n[x] /\ g[x].kind = h[x].kind
    BY <1>1, <1>2
  <2>3. h[x].refs = 0 => n[x] = 0
    BY <2>2
  <2>4. Spent(h, x) => g[x] = h[x]
    BY <2>3, <1>3 DEF Spent
  <2>5. g[x].refs = 0 => h[x].refs = 0
    BY <2>2
  <2> QED BY <2>2, <2>4, <2>5 DEF Spent
<1> QED BY <1>5, <1>7, <1>8

\* A new resource, that holds v, for whoever is going to name it.
LEMMA NewFits ==
  ASSUME NEW h, Memory(h), NEW e \in [Res -> Nat], Fits(h, e), NEW n \in Res, h[n].kind = "free",
         NEW k \in Kinds, NEW v \in Res \cup {None}, v # None => h[v].refs > 0,
         NEW f \in [Res -> Nat], \A x \in Res : f[x] = e[x] + (IF x = n THEN 1 ELSE 0),
         NEW g, g = fs_dirent_new(h, n, k, v)
  PROVE  Memory(g) /\ Fits(g, f) /\ Calm(h, g)
<1> DEFINE a == Addref(h, v)
<1>1. \A x \in Res : h[x] \in Record /\ h[x].refs \in Nat /\ Cardinality(HeldBy(h, x)) \in Nat
  BY HeldByFinite DEF Memory, Record
<1>2. h[n] = Free /\ h[n].refs = 0 /\ h[n].holds = None /\ v # n /\ "free" \notin Kinds
  <2>1. h[n] = Free /\ h[n].refs = 0 /\ h[n].holds = None
    BY DEF Memory, Free
  <2>2. v # n
    BY <2>1, ObjectsAssumption
  <2> QED BY <2>1, <2>2 DEF Kinds
<1>3. e[n] = 0 /\ HeldBy(h, n) = {}
  BY <1>2, HeldHasRefs
<1>4. a \in [Res -> Record]
  BY <1>1 DEF Addref, Memory, Record
<1>5. \A x \in Res : /\ a[x].refs = h[x].refs + (IF x = v THEN 1 ELSE 0)
                     /\ a[x].kind = h[x].kind /\ a[x].holds = h[x].holds
                     /\ x # v => a[x] = h[x]
  BY <1>1, ObjectsAssumption DEF Addref, Memory, Record
<1>6. New(k, v) \in Record /\ New(k, v).refs = 1 /\ New(k, v).kind = k /\ New(k, v).holds = v
  BY DEF New, Record
<1> HIDE DEF a
<1>7. /\ g \in [Res -> Record] /\ \A x \in Res \ {n} : g[x] = a[x]
      /\ g[n] = New(k, v)
  BY <1>4, <1>6 DEF a, fs_dirent_new
<1>8. \A x \in Res : x = v => h[x].kind # "free"
  BY ObjectsAssumption DEF Memory, Free
<1>9. Memory(g)
  BY <1>2, <1>5, <1>6, <1>7, <1>8 DEF Memory
<1>10. \A x \in Res : /\ IsFiniteSet(HeldBy(h, x)) /\ IsFiniteSet(HeldBy(g, x))
                      /\ Cardinality(HeldBy(g, x))
                           = Cardinality(HeldBy(h, x)) + (IF x = v THEN 1 ELSE 0)
  <2>1. SUFFICES ASSUME NEW x \in Res
                 PROVE  /\ IsFiniteSet(HeldBy(h, x)) /\ IsFiniteSet(HeldBy(g, x))
                        /\ Cardinality(HeldBy(g, x))
                             = Cardinality(HeldBy(h, x)) + (IF x = v THEN 1 ELSE 0)
    OBVIOUS
  <2> DEFINE A == HeldBy(h, x)
             B == HeldBy(g, x)
  <2>2. IsFiniteSet(A)
    BY HeldByFinite
  <2>3. \A y : y # n => (y \in A <=> y \in B)
    BY <1>5, <1>7 DEF HeldBy
  <2>4. n \notin A /\ (n \in B <=> x = v)
    BY <1>2, <1>6, <1>7, ObjectsAssumption DEF HeldBy
  <2>5. /\ IsFiniteSet(B) /\ Cardinality(A) \in Nat /\ Cardinality(B) \in Nat
        /\ Cardinality(B) = Cardinality(A) - (IF n \in A THEN 1 ELSE 0)
                                           + (IF n \in B THEN 1 ELSE 0)
    <3> HIDE DEF A, B
    <3> QED BY <2>2, <2>3, OneDiffers
  <2> QED BY <2>2, <2>4, <2>5
<1>11. Fits(g, f)
  <2>1. SUFFICES ASSUME NEW x \in Res
                 PROVE  g[x].refs = Cardinality(HeldBy(g, x)) + f[x]
    BY DEF Fits
  <2>2. h[x].refs = Cardinality(HeldBy(h, x)) + e[x] /\ e[x] \in Nat
    BY DEF Fits
  <2>3. CASE x = n
    <3>1. Cardinality(HeldBy(h, n)) = 0
      BY <1>3, FS_EmptySet
    <3>2. Cardinality(HeldBy(g, n)) = 0
      <4>1. Cardinality(HeldBy(g, n)) = Cardinality(HeldBy(h, n)) + (IF n = v THEN 1 ELSE 0)
        BY <1>10
      <4>2. n # v
        BY <1>2
      <4> QED BY <3>1, <4>1, <4>2
    <3>3. f[n] = 1 /\ g[n].refs = 1
      BY <1>3, <1>6, <1>7
    <3> QED BY <2>3, <3>2, <3>3
  <2>4. CASE x # n
    <3>1. f[x] = e[x] /\ g[x].refs = h[x].refs + (IF x = v THEN 1 ELSE 0)
      BY <1>5, <1>7, <2>2, <2>4
    <3>2. Cardinality(HeldBy(g, x)) = Cardinality(HeldBy(h, x)) + (IF x = v THEN 1 ELSE 0)
      BY <1>10
    <3>3. h[x].refs \in Nat /\ Cardinality(HeldBy(h, x)) \in Nat
      BY <1>1
    <3> QED BY <2>2, <3>1, <3>2, <3>3
  <2> QED BY <2>3, <2>4
<1>12. Calm(h, g)
  <2>1. SUFFICES ASSUME NEW x \in Res
                 PROVE  (Spent(h, x) => g[x] = h[x]) /\ (Spent(g, x) => Spent(h, x))
    BY DEF Calm
  <2>2. CASE x = n
    BY <1>2, <1>6, <1>7, <2>2 DEF Spent, Free
  <2>3. CASE x # n /\ x # v
    BY <1>5, <1>7, <2>3 DEF Spent
  <2>4. CASE x # n /\ x = v
    BY <1>1, <1>5, <1>7, <2>4, ObjectsAssumption DEF Spent
  <2> QED BY <2>2, <2>3, <2>4
<1> QED BY <1>9, <1>11, <1>12

\* Whatever a member holds the last reference to is a member.
Swept(h, G) == \A y \in G, z \in Res : h[y].holds = z /\ h[z].refs = 1 => z \in G

LEMMA CascadeIsLeast ==
  ASSUME NEW h, NEW r \in Res
  PROVE  /\ Cascade(h, r) \in SUBSET Res /\ r \in Cascade(h, r) /\ Swept(h, Cascade(h, r))
         /\ \A G \in SUBSET Res : r \in G /\ Swept(h, G) => Cascade(h, r) \subseteq G
<1> DEFINE C == Cascade(h, r)
<1>1. C = {x \in Res : \A G \in SUBSET Res : r \in G /\ Swept(h, G) => x \in G}
  BY DEF Cascade, Swept
<1> HIDE DEF C
<1>2. C \in SUBSET Res /\ r \in C
  BY <1>1
<1>3. \A G \in SUBSET Res : r \in G /\ Swept(h, G) => C \subseteq G
  BY <1>1
<1>4. Swept(h, C)
  <2>1. SUFFICES ASSUME NEW y \in C, NEW z \in Res, h[y].holds = z, h[z].refs = 1,
                        NEW G \in SUBSET Res, r \in G, Swept(h, G)
                 PROVE  z \in G
    BY <1>1 DEF Swept
  <2> QED BY <1>3, <2>1 DEF Swept
<1> QED BY <1>2, <1>3, <1>4 DEF C

\* All members but the first were held by a member, who had the only reference.
LEMMA CascadeHeld ==
  ASSUME NEW h, Memory(h), NEW e \in [Res -> Nat], NEW r \in Res,
         \A x \in Res \ {r} : h[x].refs = Cardinality(HeldBy(h, x)) + e[x],
         NEW x \in Cascade(h, r) \ {r}
  PROVE  /\ h[x].refs = 1 /\ e[x] = 0
         /\ \E y \in Cascade(h, r) : HeldBy(h, x) = {y}
<1> DEFINE C == Cascade(h, r)
<1>1. C \in SUBSET Res /\ r \in C /\ Swept(h, C) /\ x \in C
  BY CascadeIsLeast
<1>2. h[x].refs = 1 /\ \E y \in C : h[y].holds = x
  <2>1. SUFFICES ASSUME ~(h[x].refs = 1 /\ \E y \in C : h[y].holds = x) PROVE FALSE
    OBVIOUS
  <2>2. Swept(h, C \ {x})
    BY <1>1, <2>1 DEF Swept
  <2>3. C \subseteq C \ {x}
    BY <1>1, <2>2, CascadeIsLeast
  <2> QED BY <1>1, <2>3
<1>3. PICK y \in C : h[y].holds = x
  BY <1>2
<1>4. y \in HeldBy(h, x)
  BY <1>1, <1>3 DEF HeldBy
<1>5. /\ h[x].refs = Cardinality(HeldBy(h, x)) + e[x] /\ e[x] \in Nat
      /\ IsFiniteSet(HeldBy(h, x)) /\ Cardinality(HeldBy(h, x)) \in Nat
  BY <1>1, HeldByFinite
<1>6. IsFiniteSet(HeldBy(h, x) \ {y}) /\ Cardinality(HeldBy(h, x) \ {y}) = Cardinality(HeldBy(h, x)) - 1
      /\ Cardinality(HeldBy(h, x) \ {y}) \in Nat
  BY <1>4, <1>5, FS_RemoveElement, FS_CardinalityType
<1>7. Cardinality(HeldBy(h, x) \ {y}) = 0 /\ e[x] = 0
  BY <1>2, <1>5, <1>6
<1>8. HeldBy(h, x) \ {y} = {}
  BY <1>6, <1>7, FS_EmptySet
<1>9. HeldBy(h, x) = {y}
  BY <1>4, <1>8
<1> QED BY <1>2, <1>3, <1>7, <1>9

\* So all members but one hold a member, and only one may hold something else.
LEMMA CascadeEnds ==
  ASSUME NEW h, Memory(h), NEW e \in [Res -> Nat], NEW r \in Res,
         \A x \in Res \ {r} : h[x].refs = Cardinality(HeldBy(h, x)) + e[x],
         NEW y \in Cascade(h, r), NEW z \in Cascade(h, r),
         h[y].holds \notin Cascade(h, r), h[z].holds \notin Cascade(h, r)
  PROVE  y = z
<1> DEFINE C == Cascade(h, r)
           A == {w \in C : h[w].holds \in C \ {r}}
           T == C \ {r}
           F == [w \in A |-> h[w].holds]
<1>1. C \in SUBSET Res /\ r \in C /\ IsFiniteSet(C)
  BY CascadeIsLeast, ObjectsAssumption, FS_Subset
<1>2. /\ IsFiniteSet(A) /\ IsFiniteSet(T) /\ Cardinality(C) \in Nat /\ Cardinality(A) \in Nat
      /\ Cardinality(T) = Cardinality(C) - 1
  BY <1>1, FS_Subset, FS_RemoveElement, FS_CardinalityType
<1>3. F \in Surjection(A, T)
  <2>1. F \in [A -> T]
    OBVIOUS
  <2>2. ASSUME NEW t \in T PROVE \E w \in A : F[w] = t
    <3>1. PICK w \in C : HeldBy(h, t) = {w}
      BY CascadeHeld
    <3>2. h[w].holds = t
      BY <3>1 DEF HeldBy
    <3> QED BY <3>2
  <2> QED BY <2>1, <2>2 DEF Surjection
<1>4. Cardinality(T) <= Cardinality(A)
  BY <1>2, <1>3, FS_Surjection
<1>5. SUFFICES ASSUME y # z PROVE FALSE
  OBVIOUS
<1>6. y \in C /\ z \in C /\ A \subseteq (C \ {y}) \ {z}
  OBVIOUS
<1> HIDE DEF C, A, T
<1>7. /\ IsFiniteSet((C \ {y}) \ {z})
      /\ Cardinality((C \ {y}) \ {z}) = Cardinality(C) - 2
  <2>1. IsFiniteSet(C \ {y}) /\ Cardinality(C \ {y}) = Cardinality(C) - 1 /\ z \in C \ {y}
    BY <1>1, <1>5, <1>6, FS_RemoveElement
  <2>2. /\ IsFiniteSet((C \ {y}) \ {z})
        /\ Cardinality((C \ {y}) \ {z}) = Cardinality(C \ {y}) - 1
    BY <2>1, FS_RemoveElement
  <2> QED BY <1>2, <2>1, <2>2
<1>8. Cardinality(A) <= Cardinality((C \ {y}) \ {z})
  BY <1>6, <1>7, FS_Subset
<1> QED BY <1>2, <1>4, <1>7, <1>8

\* Freeing r, that nobody holds or names, and what goes with it.
LEMMA DestroyFits ==
  ASSUME NEW h, Memory(h), NEW e \in [Res -> Nat], NEW r \in Res,
         \A x \in Res \ {r} : h[x].refs = Cardinality(HeldBy(h, x)) + e[x],
         HeldBy(h, r) = {}, e[r] = 0,
         NEW g, g = Destroy(h, r)
  PROVE  /\ Memory(g) /\ Fits(g, e) /\ g[r] = Free
         /\ \A x \in Res \ {r} : (Spent(h, x) => g[x] = h[x]) /\ (Spent(g, x) => Spent(h, x))
<1> DEFINE C == Cascade(h, r)
           Lost(x) == \E y \in C : h[y].holds = x
<1>1. C \in SUBSET Res /\ r \in C /\ Swept(h, C)
  BY CascadeIsLeast
<1>2. \A x \in Res : /\ h[x] \in Record /\ h[x].refs \in Nat /\ e[x] \in Nat
                     /\ IsFiniteSet(HeldBy(h, x)) /\ Cardinality(HeldBy(h, x)) \in Nat
  BY HeldByFinite DEF Memory, Record
<1>3. \A x \in C : /\ e[x] = 0 /\ HeldBy(h, x) \subseteq C
                   /\ x # r => h[x].refs = 1
  BY CascadeHeld
<1>4. \A x \in Res : h[x].kind = "free" => h[x] = Free
  BY DEF Memory
<1>5. \A y, z \in C : h[y].holds \notin C /\ h[z].holds \notin C => y = z
  BY CascadeEnds
<1>6. g = [x \in Res |-> IF x \in C THEN Free
             ELSE IF Lost(x) THEN [h[x] EXCEPT !.refs = @ - 1] ELSE h[x]]
  BY DEF Destroy
<1> HIDE DEF C
\* What a member holds outside has another reference.
<1>7. \A x \in Res \ C : Lost(x) => h[x].refs > 1
  <2>1. SUFFICES ASSUME NEW x \in Res \ C, NEW y \in C, h[y].holds = x PROVE h[x].refs > 1
    OBVIOUS
  <2>2. h[x].refs # 1
    BY <1>1, <2>1 DEF Swept
  <2>3. y \in HeldBy(h, x)
    BY <1>1, <2>1 DEF HeldBy
  <2>4. Cardinality(HeldBy(h, x)) # 0
    BY <1>2, <2>3, FS_EmptySet
  <2>5. h[x].refs = Cardinality(HeldBy(h, x)) + e[x]
    BY <1>1
  <2> QED BY <1>2, <2>2, <2>4, <2>5
<1>8. \A x \in C : g[x] = Free
  BY <1>1, <1>6
<1>9. \A x \in Res \ C : /\ g[x] \in Record /\ g[x].kind = h[x].kind /\ g[x].holds = h[x].holds
                         /\ g[x].refs = h[x].refs - (IF Lost(x) THEN 1 ELSE 0)
                         /\ ~Lost(x) => g[x] = h[x]
  <2>1. SUFFICES ASSUME NEW x \in Res \ C
                 PROVE  /\ g[x] \in Record /\ g[x].kind = h[x].kind /\ g[x].holds = h[x].holds
                        /\ g[x].refs = h[x].refs - (IF Lost(x) THEN 1 ELSE 0)
                        /\ ~Lost(x) => g[x] = h[x]
    OBVIOUS
  <2>2. h[x] \in Record /\ h[x].refs \in Nat
    BY <1>2
  <2>3. CASE Lost(x)
    <3>1. g[x] = [h[x] EXCEPT !.refs = @ - 1]
      BY <1>6, <2>3
    <3>2. h[x].refs - 1 \in Nat
      BY <1>7, <2>2, <2>3
    <3> HIDE DEF Lost
    <3> QED BY <2>2, <2>3, <3>1, <3>2 DEF Record
  <2>4. CASE ~Lost(x)
    <3>1. g[x] = h[x]
      BY <1>6, <2>4
    <3> HIDE DEF Lost
    <3> QED BY <2>2, <2>4, <3>1
  <2> QED BY <2>3, <2>4
<1>10. Free \in Record
  BY DEF Free, Record
<1>11. Memory(g)
  <2>1. g \in [Res -> Record]
    BY <1>1, <1>6, <1>8, <1>9, <1>10
  <2>2. \A x \in Res : g[x].kind = "free" => g[x] = Free
    <3>1. SUFFICES ASSUME NEW x \in Res, g[x].kind = "free" PROVE g[x] = Free
      OBVIOUS
    <3>2. CASE x \in C
      BY <1>8, <3>2
    <3>3. CASE x \notin C
      <4>1. h[x].refs = 0
        BY <1>4, <1>9, <3>1, <3>3 DEF Free
      <4>2. ~Lost(x)
        BY <1>7, <3>3, <4>1
      <4> QED BY <1>4, <1>9, <3>1, <3>3, <4>2
    <3> QED BY <3>2, <3>3
  <2> QED BY <2>1, <2>2 DEF Memory
<1>12. \A x \in Res : HeldBy(g, x) = HeldBy(h, x) \ C
  <2>1. SUFFICES ASSUME NEW x \in Res, NEW y \in Res
                 PROVE  g[y].holds = x <=> h[y].holds = x /\ y \notin C
    BY DEF HeldBy
  <2> QED BY <1>8, <1>9, ObjectsAssumption DEF Free
<1>13. Fits(g, e)
  <2>1. SUFFICES ASSUME NEW x \in Res PROVE g[x].refs = Cardinality(HeldBy(g, x)) + e[x]
    BY DEF Fits
  <2>2. CASE x \in C
    <3>1. HeldBy(g, x) = {}
      BY <1>3, <1>12, <2>2
    <3>2. Cardinality(HeldBy(g, x)) = 0
      BY <3>1, FS_EmptySet
    <3>3. g[x].refs = 0 /\ e[x] = 0
      BY <1>3, <1>8, <2>2 DEF Free
    <3> QED BY <3>2, <3>3
  <2>3. CASE x \notin C
    <3>1. h[x].refs = Cardinality(HeldBy(h, x)) + e[x]
      BY <1>1, <2>3
    <3>2. CASE Lost(x)
      <4>1. PICK y \in C : h[y].holds = x
        BY <3>2
      <4>2. HeldBy(h, x) \ C = HeldBy(h, x) \ {y} /\ y \in HeldBy(h, x)
        BY <1>1, <1>5, <2>3, <4>1 DEF HeldBy
      <4>3. Cardinality(HeldBy(g, x)) = Cardinality(HeldBy(h, x)) - 1
        <5>1. HeldBy(g, x) = HeldBy(h, x) \ {y}
          BY <1>12, <4>2
        <5>2. IsFiniteSet(HeldBy(h, x))
          BY <1>2
        <5>3. \A S : IsFiniteSet(S) => \A z \in S : Cardinality(S \ {z}) = Cardinality(S) - 1
          BY FS_RemoveElement
        <5> QED BY <4>2, <5>1, <5>2, <5>3
      <4>4. g[x].refs = h[x].refs - 1
        BY <1>9, <2>3, <3>2
      <4> QED BY <1>2, <3>1, <4>3, <4>4
    <3>3. CASE ~Lost(x)
      <4>1. HeldBy(h, x) \ C = HeldBy(h, x)
        BY <3>3 DEF HeldBy
      <4>2. g[x].refs = h[x].refs
        BY <1>9, <2>3, <3>3
      <4> QED BY <1>12, <3>1, <4>1, <4>2
    <3> QED BY <3>2, <3>3
  <2> QED BY <2>2, <2>3
<1>14. ASSUME NEW x \in Res \ {r}
       PROVE  (Spent(h, x) => g[x] = h[x]) /\ (Spent(g, x) => Spent(h, x))
  <2>1. CASE x \in C
    <3>1. ~Spent(h, x) /\ ~Spent(g, x)
      BY <1>3, <1>8, <2>1 DEF Spent, Free
    <3> QED BY <3>1
  <2>2. CASE x \notin C /\ Lost(x)
    <3>1. h[x].refs > 1 /\ g[x].refs = h[x].refs - 1 /\ h[x].refs \in Nat
      BY <1>2, <1>7, <1>9, <2>2
    <3> QED BY <3>1 DEF Spent
  <2>3. CASE x \notin C /\ ~Lost(x)
    <3>1. g[x] = h[x]
      BY <1>9, <2>3
    <3> QED BY <3>1 DEF Spent
  <2> QED BY <2>1, <2>2, <2>3
<1>15. g[r] = Free
  BY <1>1, <1>8
<1> QED BY <1>11, <1>13, <1>14, <1>15

\* A reference from outside is given back.
LEMMA ReleaseFits ==
  ASSUME NEW h, Memory(h), NEW e \in [Res -> Nat], Fits(h, e), NEW r \in Res, e[r] > 0,
         NEW f \in [Res -> Nat], \A x \in Res : f[x] = e[x] - (IF x = r THEN 1 ELSE 0)
  PROVE  Memory(Release(h, r)) /\ Fits(Release(h, r), f) /\ Calm(h, Release(h, r))
<1> DEFINE g == Release(h, r)
<1>1. \A x \in Res : /\ h[x] \in Record /\ h[x].refs \in Nat /\ e[x] \in Nat /\ f[x] \in Nat
                     /\ IsFiniteSet(HeldBy(h, x)) /\ Cardinality(HeldBy(h, x)) \in Nat
                     /\ h[x].refs = Cardinality(HeldBy(h, x)) + e[x]
  BY HeldByFinite DEF Memory, Record, Fits
<1>2. CASE h[r].refs = 1
  <2>1. Cardinality(HeldBy(h, r)) = 0 /\ f[r] = 0
    BY <1>1, <1>2
  <2>2. HeldBy(h, r) = {}
    BY <1>1, <2>1, FS_EmptySet
  <2>3. \A x \in Res \ {r} : h[x].refs = Cardinality(HeldBy(h, x)) + f[x]
    BY <1>1
  <2>4. g = Destroy(h, r)
    BY <1>2 DEF Release
  <2> HIDE DEF g
  <2>5. /\ Memory(g) /\ Fits(g, f) /\ g[r] = Free
        /\ \A x \in Res \ {r} : (Spent(h, x) => g[x] = h[x]) /\ (Spent(g, x) => Spent(h, x))
    BY <2>1, <2>2, <2>3, <2>4, DestroyFits
  <2>6. ~Spent(h, r) /\ ~Spent(g, r)
    BY <1>2, <2>5 DEF Spent, Free
  <2>7. Calm(h, g)
    BY <2>5, <2>6 DEF Calm
  <2> QED BY <2>5, <2>7 DEF g
<1>3. CASE h[r].refs # 1
  <2>1. h[r].refs > 1
    BY <1>1, <1>3
  <2>2. g = [h EXCEPT ![r].refs = @ - 1]
    BY <1>3 DEF Release
  <2>3. h[r].refs - 1 \in Nat /\ h \in [Res -> Record]
    BY <1>1, <2>1 DEF Memory
  <2> HIDE DEF g
  <2>4. /\ g \in [Res -> Record] /\ \A x \in Res \ {r} : g[x] = h[x]
        /\ g[r].refs = h[r].refs - 1 /\ g[r].kind = h[r].kind /\ g[r].holds = h[r].holds
    BY <1>1, <2>2, <2>3 DEF Record
  <2>5. h[r].kind # "free"
    BY <2>1 DEF Memory, Free
  <2>6. Memory(g)
    BY <2>4, <2>5 DEF Memory
  <2>7. \A x \in Res : HeldBy(g, x) = HeldBy(h, x)
    BY <2>4 DEF HeldBy
  <2>8. Fits(g, f)
    <3>1. SUFFICES ASSUME NEW x \in Res PROVE g[x].refs = Cardinality(HeldBy(g, x)) + f[x]
      BY DEF Fits
    <3> QED BY <1>1, <2>4, <2>7
  <2>9. Calm(h, g)
    BY <1>1, <2>1, <2>4 DEF Calm, Spent
  <2> QED BY <2>6, <2>8, <2>9 DEF g
<1> QED BY <1>2, <1>3

\* A device, a volume and its root directory, each held by the next.
LEMMA VolumeFits ==
  ASSUME NEW h, Memory(h), NEW e \in [Res -> Nat], Fits(h, e), NEW more \in Nat,
         NEW dev \in Res, NEW v \in Res, NEW d \in Res, dev # v, v # d, dev # d,
         h[dev].kind = "free", h[v].kind = "free", h[d].kind = "free",
         NEW f \in [Res -> Nat],
         \A x \in Res : f[x] = IF x \in {dev, v} THEN more ELSE IF x = d THEN 1 ELSE e[x],
         NEW g, g = Volume(h, dev, v, d, more)
  PROVE  Memory(g) /\ Fits(g, f) /\ Calm(h, g)
<1> DEFINE news == {dev, v, d}
<1>1. \A x \in news : h[x] = Free /\ h[x].refs = 0 /\ HeldBy(h, x) = {}
  <2>1. \A x \in news : h[x] = Free /\ h[x].refs = 0
    BY DEF Memory, Free
  <2> QED BY <2>1, HeldHasRefs
<1>2. h \in [Res -> Record]
  BY DEF Memory
<1>3. /\ g \in [Res -> Record] /\ \A x \in Res \ news : g[x] = h[x]
      /\ g[dev].kind = "device" /\ g[dev].refs = 1 + more /\ g[dev].holds = None
      /\ g[v].kind = "volume" /\ g[v].refs = 1 + more /\ g[v].holds = dev
      /\ g[d].kind = "dir" /\ g[d].refs = 1 /\ g[d].holds = v
  <2>1. /\ [New("device", None) EXCEPT !.refs = 1 + more]
             = [kind |-> "device", refs |-> 1 + more, holds |-> None]
        /\ [New("volume", dev) EXCEPT !.refs = 1 + more]
             = [kind |-> "volume", refs |-> 1 + more, holds |-> dev]
        /\ New("dir", v) = [kind |-> "dir", refs |-> 1, holds |-> v]
    BY DEF New
  <2>2. /\ [kind |-> "device", refs |-> 1 + more, holds |-> None] \in Record
        /\ [kind |-> "volume", refs |-> 1 + more, holds |-> dev] \in Record
        /\ [kind |-> "dir", refs |-> 1, holds |-> v] \in Record
    BY DEF Record, Kinds
  <2>3. g = [x \in Res |-> IF x = d THEN [kind |-> "dir", refs |-> 1, holds |-> v]
               ELSE IF x = v THEN [kind |-> "volume", refs |-> 1 + more, holds |-> dev]
               ELSE IF x = dev THEN [kind |-> "device", refs |-> 1 + more, holds |-> None]
               ELSE h[x]]
    BY <1>2, <2>1 DEF Volume
  <2>4. g \in [Res -> Record]
    BY <1>2, <2>2, <2>3
  <2> QED BY <2>3, <2>4
<1>4. Memory(g)
  BY <1>3 DEF Memory
<1>5. \A x \in Res \ news : HeldBy(g, x) = HeldBy(h, x)
  BY <1>1, <1>3, ObjectsAssumption DEF HeldBy, Free
<1>6. HeldBy(g, dev) = {v} /\ HeldBy(g, v) = {d} /\ HeldBy(g, d) = {}
  <2>1. \A x \in Res \ news : h[x].holds \notin news
    BY <1>1 DEF HeldBy
  <2> QED BY <1>3, <2>1, ObjectsAssumption DEF HeldBy
<1>7. Fits(g, f)
  <2>1. SUFFICES ASSUME NEW x \in Res PROVE g[x].refs = Cardinality(HeldBy(g, x)) + f[x]
    BY DEF Fits
  <2>2. CASE x \in {dev, v}
    <3>1. Cardinality(HeldBy(g, x)) = 1
      BY <1>6, <2>2, FS_Singleton
    <3> QED BY <1>3, <2>2, <3>1
  <2>3. CASE x = d
    <3>1. Cardinality(HeldBy(g, x)) = 0
      BY <1>6, <2>3, FS_EmptySet
    <3> QED BY <1>3, <2>3, <3>1
  <2>4. CASE x \notin news
    <3>1. g[x] = h[x] /\ HeldBy(g, x) = HeldBy(h, x) /\ f[x] = e[x]
      BY <1>3, <1>5, <2>4
    <3> QED BY <3>1 DEF Fits
  <2> QED BY <2>2, <2>3, <2>4
<1>8. Calm(h, g)
  <2>1. SUFFICES ASSUME NEW x \in Res
                 PROVE  (Spent(h, x) => g[x] = h[x]) /\ (Spent(g, x) => Spent(h, x))
    BY DEF Calm
  <2>2. CASE x \in news
    BY <1>1, <1>3, <2>2 DEF Spent, Free
  <2>3. CASE x \notin news
    BY <1>3, <2>3 DEF Spent
  <2> QED BY <2>2, <2>3
<1> QED BY <1>3, <1>4, <1>7, <1>8

\* The last close of a directory entry, up to its first disk access.
Last(h, r) == [h EXCEPT ![r].refs = 0]

LEMMA LastFits ==
  ASSUME NEW h, Memory(h), NEW e \in [Res -> Nat], Fits(h, e), NEW r \in Res,
         e[r] > 0, h[r].refs = 1,
         NEW f \in [Res -> Nat], \A x \in Res : f[x] = e[x] - (IF x = r THEN 1 ELSE 0),
         NEW g, g = Last(h, r)
  PROVE  /\ Memory(g) /\ Fits(g, f) /\ Spent(g, r) /\ ~Spent(h, r)
         /\ \A x \in Res \ {r} : g[x] = h[x]
<1>1. \A x \in Res : /\ h[x] \in Record /\ e[x] \in Nat /\ f[x] \in Nat
                     /\ Cardinality(HeldBy(h, x)) \in Nat
                     /\ h[x].refs = Cardinality(HeldBy(h, x)) + e[x]
  BY HeldByFinite DEF Memory, Record, Fits
<1>2. /\ g \in [Res -> Record] /\ \A x \in Res \ {r} : g[x] = h[x]
      /\ g[r].refs = 0 /\ g[r].kind = h[r].kind /\ g[r].holds = h[r].holds
  BY <1>1 DEF Record, Memory, Last
<1>3. h[r].kind # "free"
  BY DEF Memory, Free
<1>4. Memory(g)
  BY <1>2, <1>3 DEF Memory
<1>5. \A x \in Res : HeldBy(g, x) = HeldBy(h, x)
  BY <1>2 DEF HeldBy
<1>6. Fits(g, f)
  <2>1. SUFFICES ASSUME NEW x \in Res PROVE g[x].refs = Cardinality(HeldBy(g, x)) + f[x]
    BY DEF Fits
  <2>2. HeldBy(g, x) = HeldBy(h, x)
    BY <1>5
  <2>3. h[x].refs = Cardinality(HeldBy(h, x)) + e[x] /\ Cardinality(HeldBy(h, x)) \in Nat /\ e[x] \in Nat
    BY <1>1
  <2>4. CASE x = r
    <3>1. g[x].refs = 0 /\ h[x].refs = 1 /\ f[x] = e[x] - 1 /\ e[x] > 0
      BY <1>2, <2>4
    <3> QED BY <2>2, <2>3, <3>1
  <2>5. CASE x # r
    BY <1>2, <2>2, <2>3, <2>5
  <2> QED BY <2>4, <2>5
<1> QED BY <1>2, <1>3, <1>4, <1>6 DEF Spent

-----------------------------------------------------------------------------
(* The invariant.                                                          *)

\* What the entry fd of p still stands for.
Name(p, fd) == IF Closed(p, fd) THEN None ELSE ktable[p][fd]

\* The references to r that the walk of p has taken.
Took(p, r) ==
  IF At(p, "walk") /\ call[p].d = r THEN IF r = call[p].base THEN call[p].dots ELSE 1 ELSE 0

\* The references to r that no resource has.
Outside == [r \in Res |-> Cardinality(Entries(r)) + Cardinality(Walking(r)) + leaked[r]]

\* Whose last close p is busy with.
Closing(p) == IF call[p].at = "closing" THEN ktable[p][call[p].fd] ELSE None

\* Only a process that runs is in a call; but one can die before it clears an entry.
Rests(p) == Runs(p) \/ call[p] = Idle \/ (state[p] = "dead" /\ call[p].at = "clearing")

\* The parent of a walk is named by an entry, and the walk has not used up its parts.
WalkOK(p) ==
  LET c == call[p] IN
  At(p, "walk") =>
    /\ c.d \in Res /\ c.base \in Res /\ \E fd \in FDs : ktable[p][fd] = c.base
    /\ c.todo + c.dots <= MaxParts
    /\ c.d # c.base => c.dots = 0 /\ c.todo < MaxParts
    /\ c.goal = "fd" => ktable[p][c.fd] = None

CloseOK(p) ==
  LET c == call[p] IN
  c.at \in {"closing", "clearing"} =>
    /\ ktable[p][c.fd] # None /\ c.copy # c.fd
    /\ c.copy # -1 => ktable[p][c.copy] # None

Local(p) ==
  /\ Rests(p) /\ WalkOK(p) /\ CloseOK(p)
  /\ state[p] = "none" => \A fd \in FDs : ktable[p][fd] = None

Loads == {"loading", "deleting"}

\* A process being loaded or deleted is in the hands of at most one call.
Children ==
  \A p \in Procs : call[p].at \in Loads =>
    /\ call[p].child \in Procs /\ state[call[p].child] = call[p].at
    /\ \A q \in Procs \ {p} : call[q].at \in Loads => call[q].child # call[p].child

\* Each last close is of its own resource.
Saving ==
  \A p \in Procs : Closing(p) # None =>
    Spent(res, Closing(p)) /\ \A q \in Procs \ {p} : Closing(q) # Closing(p)

Kept ==
  \A r \in Res : Spent(res, r) => r \in orphans \/ \E p \in Procs : Closing(p) = r

Locals == \A p \in Procs : Local(p)

Sound == Locals /\ Children /\ Saving /\ Kept /\ Fits(res, Outside)

IInv == TypeOK /\ (unpaired \/ Sound)

\* The type invariant but for the memory.
Shape ==
  /\ ktable \in [Procs -> [FDs -> Res \cup {None}]]
  /\ state \in [Procs -> {"none", "loading", "live", "dead", "deleting"}]
  /\ call \in [Procs -> Call]
  /\ leaked \in [Res -> Nat] /\ orphans \in SUBSET Res /\ unpaired \in BOOLEAN
  /\ fault \in {"none", "null_copy", "past_table", "freed_kobject"}

LEMMA TypeIs == TypeOK <=> Memory(res) /\ Shape
BY DEF TypeOK, Memory, Record, Shape, FreeRes

\* A process of which nothing changes.
LEMMA OtherSteady ==
  ASSUME NEW x \in Procs, call'[x] = call[x], ktable'[x] = ktable[x], state'[x] = state[x]
  PROVE  /\ Local(x) => Local(x)'
         /\ \A j \in FDs : Name(x, j)' = Name(x, j)
         /\ \A r \in Res : Took(x, r)' = Took(x, r)
         /\ Closing(x)' = Closing(x)
<1>1. Local(x) => Local(x)'
  BY DEF Local, Rests, WalkOK, CloseOK, Runs, At
<1>2. \A j \in FDs : Name(x, j)' = Name(x, j)
  BY DEF Name, Closed
<1>3. \A r \in Res : Took(x, r)' = Took(x, r)
  BY DEF Took, At, Runs
<1>4. Closing(x)' = Closing(x)
  BY DEF Closing
<1> QED BY <1>1, <1>2, <1>3, <1>4

\* At most entry i of q comes to stand for something else.
LEMMA EntriesStep ==
  ASSUME NEW q \in Procs, NEW i \in FDs, NEW r \in Res,
         \A x \in Procs, j \in FDs : x # q \/ j # i => Name(x, j)' = Name(x, j)
  PROVE  /\ Cardinality(Entries(r)) \in Nat /\ Cardinality(Entries(r))' \in Nat
         /\ Cardinality(Entries(r))' = Cardinality(Entries(r))
              - (IF Name(q, i) = r THEN 1 ELSE 0) + (IF Name(q, i)' = r THEN 1 ELSE 0)
<1> DEFINE A == Entries(r)
           B == Entries(r)'
           z == <<q, i>>
<1>1. \A e : /\ e \in A <=> e \in Procs \X FDs /\ Name(e[1], e[2]) = r
             /\ e \in B <=> e \in Procs \X FDs /\ Name(e[1], e[2])' = r
  BY ObjectsAssumption DEF Entries, Name
<1>2. IsFiniteSet(A)
  <2>1. IsFiniteSet(FDs)
    BY ObjectsAssumption, FS_Interval DEF FDs
  <2>2. IsFiniteSet(Procs \X FDs)
    BY <2>1, ObjectsAssumption, FS_Product
  <2> QED BY <2>2, FS_Subset DEF Entries
<1>3. \A e : e # z => (e \in A <=> e \in B)
  BY <1>1
<1>4. (z \in A <=> Name(q, i) = r) /\ (z \in B <=> Name(q, i)' = r)
  BY <1>1
<1> HIDE DEF A, B, z
<1>5. /\ IsFiniteSet(B) /\ Cardinality(A) \in Nat /\ Cardinality(B) \in Nat
      /\ Cardinality(B) = Cardinality(A) - (IF z \in A THEN 1 ELSE 0) + (IF z \in B THEN 1 ELSE 0)
  BY <1>2, <1>3, OneDiffers, ZenonT(30)
<1> QED BY <1>4, <1>5 DEF A, B

\* Only the walk of w takes or gives references.
LEMMA WalkingStep ==
  ASSUME NEW w \in Procs, NEW r \in Res,
         \A x \in Procs \ {w} : Took(x, r)' = Took(x, r),
         Took(w, r) \in 0 .. MaxParts, Took(w, r)' \in 0 .. MaxParts
  PROVE  /\ Cardinality(Walking(r)) \in Nat /\ Cardinality(Walking(r))' \in Nat
         /\ Cardinality(Walking(r))' = Cardinality(Walking(r)) - Took(w, r) + Took(w, r)'
         /\ Took(w, r) <= Cardinality(Walking(r))
<1> DEFINE X == 1 .. MaxParts
           A == Walking(r)
           B == Walking(r)'
           R == 1 .. Took(w, r)
           S == 1 .. Took(w, r)'
<1>1. \A x \in Procs, i \in X : /\ <<x, i>> \in A <=> i <= Took(x, r)
                                /\ <<x, i>> \in B <=> i <= Took(x, r)'
  BY DEF Walking, Took
<1>2. A \in SUBSET (Procs \X X) /\ B \in SUBSET (Procs \X X)
  BY DEF Walking
<1>3. /\ IsFiniteSet(X) /\ R \in SUBSET X /\ S \in SUBSET X
      /\ Cardinality(R) = Took(w, r) /\ Cardinality(S) = Took(w, r)'
  BY ObjectsAssumption, FS_Interval
<1>4. \A i \in X : (<<w, i>> \in A <=> i \in R) /\ (<<w, i>> \in B <=> i \in S)
  BY <1>1
<1>5. \A x \in Procs \ {w}, i \in X : <<x, i>> \in A <=> <<x, i>> \in B
  BY <1>1
<1>6. IsFiniteSet(Procs)
  BY ObjectsAssumption
<1> HIDE DEF X, A, B, R, S
<1>7. /\ Cardinality(A) \in Nat /\ Cardinality(B) \in Nat
      /\ Cardinality(B) = Cardinality(A) - Cardinality(R) + Cardinality(S)
      /\ Cardinality(R) <= Cardinality(A)
  BY <1>2, <1>3, <1>4, <1>5, <1>6, RowDiffers, SMTT(30)
<1> QED BY <1>3, <1>7 DEF A, B

LEMMA TookBound ==
  Shape /\ Locals => \A p \in Procs, r \in Res : Took(p, r) \in 0 .. MaxParts
<1>1. SUFFICES ASSUME Shape, Locals, NEW p \in Procs, NEW r \in Res
               PROVE  Took(p, r) \in 0 .. MaxParts
  OBVIOUS
<1>2. WalkOK(p) /\ call[p] \in Call
  BY <1>1 DEF Locals, Local, Shape
<1>3. call[p].dots \in 0 .. MaxParts /\ call[p].todo \in 0 .. MaxParts /\ MaxParts \in Nat
  BY <1>2, ObjectsAssumption DEF Call
<1>4. At(p, "walk") /\ call[p].d = r /\ r # call[p].base => 1 <= MaxParts
  BY <1>2, <1>3 DEF WalkOK
<1> QED BY <1>3, <1>4 DEF Took

\* One entry of q changes and one walk, that of w.
LEMMA OutsideStep ==
  ASSUME Shape, Shape', Locals, Locals', NEW q \in Procs, NEW i \in FDs, NEW w \in Procs,
         \A x \in Procs, j \in FDs : x # q \/ j # i => Name(x, j)' = Name(x, j),
         \A x \in Procs \ {w}, r \in Res : Took(x, r)' = Took(x, r)
  PROVE  /\ Outside \in [Res -> Nat] /\ Outside' \in [Res -> Nat]
         /\ \A r \in Res :
              /\ Outside'[r] = Outside[r]
                   - (IF Name(q, i) = r THEN 1 ELSE 0) + (IF Name(q, i)' = r THEN 1 ELSE 0)
                   - Took(w, r) + Took(w, r)' - leaked[r] + leaked'[r]
              /\ Took(w, r) <= Outside[r] /\ Took(w, r) \in Nat /\ Took(w, r)' \in Nat
              /\ leaked[r] \in Nat /\ leaked'[r] \in Nat
              /\ leaked[r] <= Outside[r]
<1>1. \A r \in Res : Took(w, r) \in 0 .. MaxParts
  BY TookBound
<1>2. \A r \in Res : Took(w, r)' \in 0 .. MaxParts
  <2>1. (\A p \in Procs, r \in Res : Took(p, r) \in 0 .. MaxParts)'
    BY TookBound, PTL
  <2> QED BY <2>1
<1>3. SUFFICES ASSUME NEW r \in Res
               PROVE  /\ Outside[r] \in Nat /\ Outside'[r] \in Nat
                      /\ Outside'[r] = Outside[r]
                           - (IF Name(q, i) = r THEN 1 ELSE 0) + (IF Name(q, i)' = r THEN 1 ELSE 0)
                           - Took(w, r) + Took(w, r)' - leaked[r] + leaked'[r]
                      /\ Took(w, r) <= Outside[r] /\ Took(w, r) \in Nat /\ Took(w, r)' \in Nat
                      /\ leaked[r] \in Nat /\ leaked'[r] \in Nat
                      /\ leaked[r] <= Outside[r]
  <2>1. Outside = [r \in Res |-> Outside[r]] /\ Outside' = [r \in Res |-> Outside'[r]]
    BY DEF Outside
  <2> QED BY <1>3, <2>1
<1>4. /\ Cardinality(Entries(r)) \in Nat /\ Cardinality(Entries(r))' \in Nat
      /\ Cardinality(Entries(r))' = Cardinality(Entries(r))
           - (IF Name(q, i) = r THEN 1 ELSE 0) + (IF Name(q, i)' = r THEN 1 ELSE 0)
  BY EntriesStep
<1>5. /\ Cardinality(Walking(r)) \in Nat /\ Cardinality(Walking(r))' \in Nat
      /\ Cardinality(Walking(r))' = Cardinality(Walking(r)) - Took(w, r) + Took(w, r)'
      /\ Took(w, r) <= Cardinality(Walking(r))
  BY <1>1, <1>2, WalkingStep
<1>6. leaked[r] \in Nat /\ leaked'[r] \in Nat
  BY DEF Shape
<1>7. /\ Outside[r] = Cardinality(Entries(r)) + Cardinality(Walking(r)) + leaked[r]
      /\ Outside'[r] = Cardinality(Entries(r))' + Cardinality(Walking(r))' + leaked'[r]
  BY DEF Outside
<1>8. Took(w, r) \in Nat /\ Took(w, r)' \in Nat
  BY <1>1, <1>2, ObjectsAssumption
<1> HIDE DEF Outside
<1> QED BY <1>4, <1>5, <1>6, <1>7, <1>8

\* What is named from outside has a reference.
LEMMA NamedHasRefs ==
  ASSUME Memory(res), Shape, Sound, NEW p \in Procs, NEW r \in Res,
         (\E fd \in FDs : Name(p, fd) = r) \/ Took(p, r) > 0
  PROVE  Outside \in [Res -> Nat] /\ Outside[r] > 0 /\ res[r].refs > 0 /\ res[r].kind # "free"
<1>1. /\ Outside \in [Res -> Nat] /\ Cardinality(Entries(r)) \in Nat
      /\ Cardinality(Walking(r)) \in Nat /\ leaked[r] \in Nat
  <2>1. IsFiniteSet(FDs) /\ IsFiniteSet(1 .. MaxParts) /\ IsFiniteSet(Procs)
    BY ObjectsAssumption, FS_Interval DEF FDs
  <2>2. IsFiniteSet(Procs \X FDs) /\ IsFiniteSet(Procs \X (1 .. MaxParts))
    BY <2>1, FS_Product
  <2>3. \A x \in Res : Cardinality(Entries(x)) \in Nat /\ Cardinality(Walking(x)) \in Nat
    BY <2>2, FS_Subset, FS_CardinalityType DEF Entries, Walking
  <2> QED BY <2>3 DEF Outside, Shape
<1>2. (\E fd \in FDs : Name(p, fd) = r) => Cardinality(Entries(r)) > 0
  <2>1. SUFFICES ASSUME NEW fd \in FDs, Name(p, fd) = r PROVE Cardinality(Entries(r)) > 0
    OBVIOUS
  <2>2. <<p, fd>> \in Entries(r)
    BY <2>1, ObjectsAssumption DEF Name, Entries
  <2>3. IsFiniteSet(FDs) /\ IsFiniteSet(Procs)
    BY ObjectsAssumption, FS_Interval DEF FDs
  <2>4. IsFiniteSet(Entries(r))
    BY <2>3, FS_Product, FS_Subset DEF Entries
  <2> QED BY <1>1, <2>2, <2>4, FS_EmptySet
<1>3. Took(p, r) <= Cardinality(Walking(r))
  <2>1. Took(p, r) \in 0 .. MaxParts
    BY TookBound DEF Sound
  <2>2. \A i \in 1 .. MaxParts : <<p, i>> \in Walking(r) <=> i \in 1 .. Took(p, r)
    BY <2>1 DEF Walking, Took
  <2>3. Walking(r) \in SUBSET (Procs \X (1 .. MaxParts)) /\ 1 .. Took(p, r) \in SUBSET (1 .. MaxParts)
    <3>1. Walking(r) \in SUBSET (Procs \X (1 .. MaxParts))
      BY DEF Walking
    <3>2. 1 .. Took(p, r) \in SUBSET (1 .. MaxParts)
      BY <2>1, ObjectsAssumption
    <3> QED BY <3>1, <3>2
  <2>4. IsFiniteSet(Procs) /\ IsFiniteSet(1 .. MaxParts) /\ Cardinality(1 .. Took(p, r)) = Took(p, r)
    BY <2>1, ObjectsAssumption, FS_Interval
  <2> DEFINE A == Walking(r)
             R == 1 .. Took(p, r)
             X == 1 .. MaxParts
  <2>5. /\ A \in SUBSET (Procs \X X) /\ R \in SUBSET X /\ IsFiniteSet(Procs) /\ IsFiniteSet(X)
        /\ \A i \in X : <<p, i>> \in A <=> i \in R
    BY <2>2, <2>3, <2>4
  <2> HIDE DEF A, R, X
  <2>6. Cardinality(R) <= Cardinality(A)
    BY <2>5, RowDiffers
  <2> QED BY <2>4, <2>6 DEF A, R
<1>4. Outside[r] = Cardinality(Entries(r)) + Cardinality(Walking(r)) + leaked[r]
  BY DEF Outside
<1>5. Took(p, r) \in Nat
  BY TookBound, ObjectsAssumption DEF Sound
<1>6. Outside[r] > 0
  <2>1. CASE \E fd \in FDs : Name(p, fd) = r
    <3>1. Cardinality(Entries(r)) > 0
      BY <1>2, <2>1
    <3> QED BY <1>1, <1>4, <3>1
  <2>2. CASE Took(p, r) > 0
    BY <1>1, <1>3, <1>4, <1>5, <2>2
  <2> QED BY <2>1, <2>2
<1> QED BY <1>1, <1>6, HeldHasRefs DEF Sound

LEMMA ChildrenSteady ==
  ASSUME Children,
         \A p \in Procs : call'[p].at \in Loads =>
           call'[p].at = call[p].at /\ call'[p].child = call[p].child,
         \A p \in Procs : state[p] \in Loads => state'[p] = state[p]
  PROVE  Children'
BY DEF Children

LEMMA SavingSteady ==
  ASSUME Saving, Kept, Calm(res, res'), orphans' = orphans, Shape, Locals,
         \A p \in Procs : Closing(p)' = Closing(p)
  PROVE  Saving' /\ Kept'
<1>1. \A p \in Procs : Closing(p) # None => Closing(p) \in Res
  BY DEF Closing, Shape, Call
<1>2. \A r \in Res : (Spent(res, r) => Spent(res', r)) /\ (Spent(res', r) => Spent(res, r))
  BY DEF Calm, Spent
<1>3. Saving'
  <2>1. SUFFICES ASSUME NEW p \in Procs, Closing(p)' # None
                 PROVE  /\ Spent(res', Closing(p)')
                        /\ \A q \in Procs \ {p} : Closing(q)' # Closing(p)'
    BY DEF Saving, Spent
  <2> QED BY <1>1, <1>2, <2>1 DEF Saving
<1>4. Kept'
  <2>1. SUFFICES ASSUME NEW r \in Res, Spent(res', r)
                 PROVE  r \in orphans' \/ \E p \in Procs : Closing(p)' = r
    BY DEF Kept, Spent
  <2> QED BY <1>2, <2>1 DEF Kept
<1> QED BY <1>3, <1>4

\* A step of w, in its own call and table only, that can change one entry.
LEMMA Alone ==
  ASSUME Shape, Shape', Sound, NEW w \in Procs, NEW i \in FDs,
         \A x \in Procs \ {w} :
           call'[x] = call[x] /\ ktable'[x] = ktable[x] /\ state'[x] = state[x],
         \A j \in FDs \ {i} : Name(w, j)' = Name(w, j),
         Local(w)', call'[w].at \notin Loads, state[w] \in Loads => state'[w] = state[w]
  PROVE  /\ Locals' /\ Children'
         /\ \A x \in Procs \ {w} : Closing(x)' = Closing(x)
         /\ Outside \in [Res -> Nat] /\ Outside' \in [Res -> Nat]
         /\ \A r \in Res :
              /\ Outside'[r] = Outside[r]
                   - (IF Name(w, i) = r THEN 1 ELSE 0) + (IF Name(w, i)' = r THEN 1 ELSE 0)
                   - Took(w, r) + Took(w, r)' - leaked[r] + leaked'[r]
              /\ Took(w, r) <= Outside[r] /\ Took(w, r) \in Nat /\ Took(w, r)' \in Nat
              /\ leaked[r] \in Nat /\ leaked'[r] \in Nat
              /\ leaked[r] <= Outside[r]
<1>1. \A x \in Procs \ {w} :
        /\ Local(x) => Local(x)'
        /\ \A j \in FDs : Name(x, j)' = Name(x, j)
        /\ \A r \in Res : Took(x, r)' = Took(x, r)
        /\ Closing(x)' = Closing(x)
  BY OtherSteady
<1>2. Locals'
  BY <1>1 DEF Locals, Sound
<1>3. Children'
  <2>1. \A p \in Procs : call'[p].at \in Loads => call'[p].at = call[p].at /\ call'[p].child = call[p].child
    OBVIOUS
  <2>2. \A p \in Procs : state[p] \in Loads => state'[p] = state[p]
    OBVIOUS
  <2> QED BY <2>1, <2>2, ChildrenSteady DEF Sound
<1>4. \A x \in Procs, j \in FDs : x # w \/ j # i => Name(x, j)' = Name(x, j)
  BY <1>1
<1>5. \A x \in Procs \ {w}, r \in Res : Took(x, r)' = Took(x, r)
  BY <1>1
<1>6. Locals
  BY DEF Sound
<1> QED BY <1>1, <1>2, <1>3, <1>4, <1>5, <1>6, OutsideStep

\* ... and then the rest of the invariant, when the memory stays calm.
LEMMA AloneCalm ==
  ASSUME Shape, Shape', Sound, NEW w \in Procs,
         Locals', Children', \A x \in Procs \ {w} : Closing(x)' = Closing(x),
         Closing(w)' = Closing(w), orphans' = orphans,
         Memory(res'), Fits(res', Outside'), Calm(res, res')
  PROVE  IInv'
<1>1. Saving' /\ Kept'
  <2>1. \A p \in Procs : Closing(p)' = Closing(p)
    OBVIOUS
  <2> QED BY <2>1, SavingSteady DEF Sound
<1>2. Fits(res, Outside)'
  BY DEF Fits, HeldBy
<1>3. Sound'
  BY <1>1, <1>2 DEF Sound
<1>4. TypeOK'
  <2>1. Memory(res)'
    BY DEF Memory
  <2>2. (Memory(res) /\ Shape => TypeOK)'
    BY TypeIs, PTL
  <2> QED BY <2>1, <2>2
<1> QED BY <1>3, <1>4 DEF IInv

\* Memory is left as it was, and so are the counts.
LEMMA SameFits ==
  ASSUME NEW h, NEW e \in [Res -> Nat], Fits(h, e), NEW f \in [Res -> Nat],
         \A x \in Res : f[x] = e[x]
  PROVE  Fits(h, f) /\ Calm(h, h)
BY DEF Fits, Calm

-----------------------------------------------------------------------------
(* One lemma per action.                                                   *)

LEMMA AvailableIsUnused ==
  ASSUME NEW p, Unused(p) # {}
  PROVE  Available(p) \in FDs /\ ktable[p][Available(p)] = None
<1>1. IsFiniteSet(Unused(p)) /\ Unused(p) \in SUBSET Int
  <2>1. IsFiniteSet(FDs) /\ FDs \in SUBSET Int
    BY ObjectsAssumption, FS_Interval DEF FDs
  <2> QED BY <2>1, FS_Subset DEF Unused
<1>2. Min(Unused(p)) \in Unused(p)
  BY <1>1, MinExists
<1> QED BY <1>2 DEF Available, Unused

\* Between calls.
LEMMA OutOfCalls ==
  ASSUME NEW p \in Procs, call[p].at = "out"
  PROVE  /\ \A fd \in FDs : Name(p, fd) = ktable[p][fd]
         /\ \A r \in Res : Took(p, r) = 0
         /\ Closing(p) = None
BY DEF Name, Closed, Took, At, Closing

LEMMA NamedIsThere ==
  ASSUME NEW p, NEW kinds, NEW r \in Named(p, kinds), Shape, p \in Procs
  PROVE  r \in Res /\ res[r].kind \in kinds /\ \E fd \in FDs : ktable[p][fd] = r
BY DEF Named, Range, Shape

LEMMA IdleIsCall ==
  /\ Idle \in Call /\ Idle.at = "out" /\ Idle.child = None /\ Idle.copy = -1 /\ Idle.fd = 0
  /\ Idle.dots = 0 /\ Idle.todo = 0
<1>1. 0 \in FDs /\ 0 \in 0 .. MaxParts
  BY ObjectsAssumption DEF FDs
<1>2. Idle \in Call
  BY <1>1 DEF Idle, Call
<1> QED BY <1>2 DEF Idle

LEMMA WalkSafe ==
  ASSUME Memory(res), Shape, Sound, NEW p \in Procs, At(p, "out"), NEW b \in Named(p, {"dir"}),
         NEW n \in 0 .. MaxParts, NEW goal \in {"fd", "list", "use"}, NEW fd \in FDs,
         goal = "fd" => ktable[p][fd] = None, Walk(p, b, n, goal, fd)
  PROVE  IInv'
<1> DEFINE c == [Idle EXCEPT !.at = "walk", !.base = b, !.d = b, !.todo = n,
                             !.goal = goal, !.fd = fd]
<1>1. b \in Res /\ \E i \in FDs : ktable[p][i] = b
  BY NamedIsThere
<1>2. /\ call' = [call EXCEPT ![p] = c]
      /\ UNCHANGED <<res, ktable, state, leaked, orphans, unpaired, fault>>
  BY DEF Walk, history
<1>3. c \in Call
  <2>1. Idle \in Call
    BY IdleIsCall
  <2> QED BY <1>1, <2>1 DEF Call
<1>4. call \in [Procs -> Call]
  BY DEF Shape
<1>5. call' \in [Procs -> Call] /\ call'[p] = c /\ \A x \in Procs \ {p} : call'[x] = call[x]
  BY <1>2, <1>3, <1>4
<1> HIDE DEF c
<1>6. Shape'
  BY <1>2, <1>5 DEF Shape
<1>7. /\ c.at = "walk" /\ c.base = b /\ c.d = b /\ c.todo = n /\ c.dots = 0 /\ c.goal = goal
      /\ c.fd = fd
  <2>1. Idle \in Call /\ Idle.dots = 0
    BY IdleIsCall
  <2> QED BY <2>1 DEF Call, c
<1>8. Local(p)'
  <2>1. Runs(p)'
    BY <1>2 DEF Runs, At
  <2>2. WalkOK(p)'
    BY <1>1, <1>2, <1>5, <1>7, ObjectsAssumption DEF WalkOK
  <2>3. CloseOK(p)'
    BY <1>5, <1>7 DEF CloseOK
  <2> QED BY <2>1, <2>2, <2>3 DEF Local, Rests, Runs
<1>9. /\ \A j \in FDs : Name(p, j) = ktable[p][j] /\ Name(p, j)' = ktable[p][j]
      /\ \A r \in Res : Took(p, r) = 0 /\ Took(p, r)' = 0
      /\ Closing(p) = None /\ Closing(p)' = None
  <2>1. call[p].at = "out"
    BY DEF At
  <2> QED BY <1>2, <1>5, <1>7, <2>1, OutOfCalls DEF Name, Closed, Took, Closing
<1>10. /\ Locals' /\ Children'
       /\ \A x \in Procs \ {p} : Closing(x)' = Closing(x)
       /\ Outside \in [Res -> Nat] /\ Outside' \in [Res -> Nat]
       /\ \A r \in Res : Outside'[r] = Outside[r]
  <2>1. \A x \in Procs \ {p} :
          call'[x] = call[x] /\ ktable'[x] = ktable[x] /\ state'[x] = state[x]
    BY <1>2, <1>5
  <2>2. call'[p].at \notin Loads /\ state'[p] = state[p]
    BY <1>2, <1>5, <1>7 DEF Loads
  <2> QED BY <1>2, <1>6, <1>8, <1>9, <2>1, <2>2, Alone
<1>11. Memory(res') /\ Fits(res', Outside') /\ Calm(res, res')
  BY <1>2, <1>10, SameFits DEF Sound
<1> QED BY <1>2, <1>6, <1>9, <1>10, <1>11, AloneCalm

LEMMA OpenFileSafe ==
  ASSUME Memory(res), Shape, Sound, NEW p \in Procs, sys_open_file(p)
  PROVE  IInv'
<1>1. Available(p) \in FDs /\ ktable[p][Available(p)] = None
  BY AvailableIsUnused DEF sys_open_file
<1>2. PICK d \in Named(p, {"dir"}), n \in 0 .. MaxParts : Walk(p, d, n, "fd", Available(p))
  BY DEF sys_open_file
<1>3. At(p, "out")
  BY DEF sys_open_file
<1> QED BY <1>1, <1>2, <1>3, WalkSafe

LEMMA ResolveSafe ==
  ASSUME Memory(res), Shape, Sound, fs_resolve
  PROVE  IInv'
<1>1. PICK n \in 0 .. MaxParts, goal \in {"list", "use"} :
        Walk(Shell, ktable[Shell][STDDIR], n, goal, 0)
  BY DEF fs_resolve
<1>2. At(Shell, "out") /\ ktable[Shell][STDDIR] \in Named(Shell, {"dir"})
  BY DEF fs_resolve
<1>3. Shell \in Procs /\ 0 \in FDs
  BY ObjectsAssumption DEF FDs
<1> QED BY <1>1, <1>2, <1>3, WalkSafe

\* What a walk has in its hands is there.
LEMMA WalkHas ==
  ASSUME Memory(res), Shape, Sound, NEW p \in Procs, At(p, "walk")
  PROVE  /\ call[p] \in Call /\ call[p].d \in Res /\ call[p].base \in Res /\ Runs(p)
         /\ \A fd \in FDs : Name(p, fd) = ktable[p][fd]
         /\ Closing(p) = None
         /\ Outside \in [Res -> Nat]
         /\ Outside[call[p].base] > 0 /\ res[call[p].base].refs > 0
         /\ res[call[p].base].kind # "free"
         /\ call[p].d # call[p].base =>
              Outside[call[p].d] > 0 /\ res[call[p].d].refs > 0 /\ res[call[p].d].kind # "free"
         /\ call[p].d # call[p].base => call[p].dots = 0 /\ call[p].todo < MaxParts
         /\ call[p].todo + call[p].dots <= MaxParts
         /\ call[p].todo \in Nat /\ call[p].dots \in Nat /\ MaxParts \in Nat
         /\ \E fd \in FDs : ktable[p][fd] = call[p].base
         /\ call[p].goal = "fd" => ktable[p][call[p].fd] = None
         /\ call[p].fd \in FDs
<1>1. WalkOK(p) /\ call[p] \in Call
  BY DEF Sound, Locals, Local, Shape
<1>2. /\ call[p].d \in Res /\ call[p].base \in Res
      /\ call[p].d # call[p].base => call[p].dots = 0 /\ call[p].todo < MaxParts
      /\ call[p].todo + call[p].dots <= MaxParts
      /\ \E fd \in FDs : ktable[p][fd] = call[p].base
      /\ call[p].goal = "fd" => ktable[p][call[p].fd] = None
  BY <1>1 DEF WalkOK
<1>3. call[p].fd \in FDs /\ call[p].todo \in Nat /\ call[p].dots \in Nat /\ MaxParts \in Nat
  BY <1>1, ObjectsAssumption DEF Call
<1>4. /\ \A fd \in FDs : Name(p, fd) = ktable[p][fd]
      /\ Closing(p) = None /\ Runs(p)
  BY DEF At, Name, Closed, Closing
<1>5. /\ Outside \in [Res -> Nat]
      /\ Outside[call[p].base] > 0 /\ res[call[p].base].refs > 0
      /\ res[call[p].base].kind # "free"
  BY <1>2, <1>4, NamedHasRefs
<1>6. ASSUME call[p].d # call[p].base
      PROVE  Outside[call[p].d] > 0 /\ res[call[p].d].refs > 0 /\ res[call[p].d].kind # "free"
  <2>1. Took(p, call[p].d) = 1
    BY <1>6 DEF Took
  <2> QED BY <1>2, <2>1, NamedHasRefs
<1> QED BY <1>1, <1>2, <1>3, <1>4, <1>5, <1>6

LEMMA DotSafe ==
  ASSUME Memory(res), Shape, Sound, NEW p \in Procs, lookup_dot(p)
  PROVE  IInv'
<1> DEFINE b == call[p].base
           d == call[p].d
           c == [call[p] EXCEPT !.todo = @ - 1, !.dots = IF d = b THEN @ + 1 ELSE @]
<1>1. At(p, "walk") /\ call[p].todo > 0
  BY DEF lookup_dot
<1>2. /\ res' = IF d = b THEN Addref(res, d) ELSE Release(Addref(res, d), d)
      /\ UNCHANGED <<ktable, state, leaked, orphans, unpaired, fault>>
  BY DEF lookup_dot, history
<1>3. /\ call[p] \in Call /\ d \in Res /\ b \in Res /\ Runs(p)
      /\ Outside \in [Res -> Nat] /\ Outside[d] > 0 /\ res[d].refs > 0
      /\ d # b => call[p].dots = 0 /\ call[p].todo < MaxParts
      /\ call[p].todo + call[p].dots <= MaxParts
      /\ call[p].todo \in Nat /\ call[p].dots \in Nat /\ MaxParts \in Nat
      /\ \E fd \in FDs : ktable[p][fd] = b
      /\ call[p].goal = "fd" => ktable[p][call[p].fd] = None
      /\ Closing(p) = None /\ \A fd \in FDs : Name(p, fd) = ktable[p][fd]
  BY <1>1, WalkHas
<1>4. /\ c \in Call /\ c.at = "walk" /\ c.d = d /\ c.base = b /\ c.todo = call[p].todo - 1
      /\ c.dots = call[p].dots + (IF d = b THEN 1 ELSE 0)
      /\ c.goal = call[p].goal /\ c.fd = call[p].fd
  <2>1. /\ call[p].todo - 1 \in 0 .. MaxParts /\ call[p].at = "walk"
        /\ (IF d = b THEN call[p].dots + 1 ELSE call[p].dots) \in 0 .. MaxParts
    BY <1>1, <1>3 DEF At
  <2>2. c \in Call
    BY <1>3, <2>1 DEF Call
  <2>3. c.at = call[p].at /\ c.d = d /\ c.base = b /\ c.goal = call[p].goal /\ c.fd = call[p].fd
    BY <1>3 DEF Call
  <2>4. c.todo = call[p].todo - 1 /\ c.dots = IF d = b THEN call[p].dots + 1 ELSE call[p].dots
    BY <1>3 DEF Call
  <2>5. c.dots = call[p].dots + (IF d = b THEN 1 ELSE 0)
    BY <1>3, <2>4
  <2> HIDE DEF c
  <2> QED BY <2>1, <2>2, <2>3, <2>4, <2>5
<1>5. call' \in [Procs -> Call] /\ call'[p] = c /\ \A x \in Procs \ {p} : call'[x] = call[x]
  <2>1. call' = [call EXCEPT ![p] = c]
    BY DEF lookup_dot
  <2>2. call \in [Procs -> Call]
    BY DEF Shape
  <2> HIDE DEF c
  <2> QED BY <1>4, <2>1, <2>2
<1> HIDE DEF c
<1>6. Shape'
  BY <1>2, <1>5 DEF Shape
<1>7. Local(p)'
  <2>1. Runs(p)'
    BY <1>2, <1>3 DEF Runs
  <2>2. WalkOK(p)'
    BY <1>1, <1>2, <1>3, <1>4, <1>5 DEF WalkOK
  <2>3. CloseOK(p)'
    BY <1>4, <1>5 DEF CloseOK
  <2> QED BY <2>1, <2>2, <2>3 DEF Local, Rests, Runs
<1>8. /\ \A j \in FDs : Name(p, j)' = Name(p, j)
      /\ \A r \in Res : Took(p, r)' = Took(p, r) + (IF r = d /\ d = b THEN 1 ELSE 0)
      /\ Closing(p)' = Closing(p)
  <2>1. Closing(p)' = Closing(p) /\ \A j \in FDs : Name(p, j)' = Name(p, j)
    BY <1>2, <1>3, <1>4, <1>5, <1>1 DEF Name, Closed, Closing
  <2>2. ASSUME NEW r \in Res
        PROVE  Took(p, r)' = Took(p, r) + (IF r = d /\ d = b THEN 1 ELSE 0)
    <3>1. At(p, "walk")'
      BY <1>2, <1>3, <1>4, <1>5 DEF At, Runs
    <3>2. Took(p, r) = IF d = r THEN IF r = b THEN call[p].dots ELSE 1 ELSE 0
      BY <1>1 DEF Took
    <3>3. Took(p, r)' = IF d = r THEN IF r = b THEN c.dots ELSE 1 ELSE 0
      BY <3>1, <1>4, <1>5 DEF Took
    <3> QED BY <1>3, <1>4, <3>2, <3>3
  <2> QED BY <2>1, <2>2
<1>9. /\ Locals' /\ Children'
      /\ \A x \in Procs \ {p} : Closing(x)' = Closing(x)
      /\ Outside' \in [Res -> Nat]
      /\ \A r \in Res : Outside'[r] = Outside[r] + (IF r = d /\ d = b THEN 1 ELSE 0)
  <2>1. \A x \in Procs \ {p} :
          call'[x] = call[x] /\ ktable'[x] = ktable[x] /\ state'[x] = state[x]
    BY <1>2, <1>5
  <2>2. call'[p].at \notin Loads /\ state'[p] = state[p] /\ leaked' = leaked
    BY <1>2, <1>4, <1>5 DEF Loads
  <2>3. PICK i \in FDs : TRUE
    BY <1>3
  <2>4. /\ Locals' /\ Children' /\ Outside' \in [Res -> Nat]
        /\ \A x \in Procs \ {p} : Closing(x)' = Closing(x)
        /\ \A r \in Res :
             /\ Outside'[r] = Outside[r]
                  - (IF Name(p, i) = r THEN 1 ELSE 0) + (IF Name(p, i)' = r THEN 1 ELSE 0)
                  - Took(p, r) + Took(p, r)' - leaked[r] + leaked'[r]
             /\ Took(p, r) \in Nat /\ leaked[r] \in Nat
    BY <1>6, <1>7, <1>8, <2>1, <2>2, Alone
  <2>5. ASSUME NEW r \in Res
        PROVE  Outside'[r] = Outside[r] + (IF r = d /\ d = b THEN 1 ELSE 0)
    <3>1. Name(p, i)' = Name(p, i) /\ Outside[r] \in Nat
      BY <1>3, <1>8
    <3> QED BY <1>8, <2>2, <2>4, <3>1
  <2> QED BY <2>4, <2>5
<1>10. Memory(res') /\ Fits(res', Outside') /\ Calm(res, res')
  <2>1. CASE d = b
    <3>1. res' = Addref(res, d)
      BY <1>2, <2>1
    <3>2. \A x \in Res : Outside'[x] = Outside[x] + (IF x = d THEN 1 ELSE 0)
      BY <1>9, <2>1
    <3> QED BY <1>3, <1>9, <3>1, <3>2, AddrefFits DEF Sound
  <2>2. CASE d # b
    <3>1. res' = Release(Addref(res, d), d)
      BY <1>2, <2>2
    <3> DEFINE a == Addref(res, d)
               e == [x \in Res |-> Outside[x] + (IF x = d THEN 1 ELSE 0)]
    <3>2. e \in [Res -> Nat] /\ e[d] > 0
      BY <1>3
    <3>3. \A x \in Res : /\ e[x] = Outside[x] + (IF x = d THEN 1 ELSE 0)
                         /\ Outside'[x] = e[x] - (IF x = d THEN 1 ELSE 0)
      BY <1>3, <1>9, <2>2
    <3> HIDE DEF e
    <3>4. Memory(a) /\ Fits(a, e) /\ Calm(res, a)
      BY <1>3, <3>2, <3>3, AddrefFits DEF Sound
    <3> HIDE DEF a
    <3>5. Memory(Release(a, d)) /\ Fits(Release(a, d), Outside') /\ Calm(a, Release(a, d))
      BY <1>3, <1>9, <3>2, <3>3, <3>4, ReleaseFits
    <3>6. Calm(res, Release(a, d))
      BY <3>4, <3>5 DEF Calm, Spent
    <3> QED BY <3>1, <3>5, <3>6 DEF a
  <2> QED BY <2>1, <2>2
<1> QED BY <1>2, <1>6, <1>8, <1>9, <1>10, AloneCalm

\* A call returns.
LEMMA Returned ==
  ASSUME NEW p \in Procs, Shape, call' = [call EXCEPT ![p] = Idle]
  PROVE  /\ call' \in [Procs -> Call] /\ call'[p] = Idle
         /\ \A x \in Procs \ {p} : call'[x] = call[x]
         /\ call'[p].at \notin Loads
         /\ Rests(p)' /\ WalkOK(p)' /\ CloseOK(p)'
         /\ \A fd \in FDs : Name(p, fd)' = ktable'[p][fd]
         /\ \A r \in Res : Took(p, r)' = 0
         /\ Closing(p)' = None
<1>1. Idle \in Call /\ Idle.at = "out"
  BY IdleIsCall
<1>2. call' \in [Procs -> Call] /\ call'[p] = Idle /\ \A x \in Procs \ {p} : call'[x] = call[x]
  BY <1>1 DEF Shape
<1>3. Rests(p)' /\ WalkOK(p)' /\ CloseOK(p)' /\ call'[p].at \notin Loads
  BY <1>1, <1>2 DEF Rests, WalkOK, CloseOK, At, Loads
<1>4. /\ \A fd \in FDs : Name(p, fd)' = ktable'[p][fd]
      /\ \A r \in Res : Took(p, r)' = 0
      /\ Closing(p)' = None
  BY <1>1, <1>2 DEF Name, Closed, Took, At, Closing
<1> QED BY <1>2, <1>3, <1>4

\* What a walk that ends, or goes on elsewhere, has taken.
LEMMA WalkTook ==
  ASSUME NEW p \in Procs, At(p, "walk"), NEW r \in Res
  PROVE  Took(p, r) = IF r = call[p].d
                      THEN IF r = call[p].base THEN call[p].dots ELSE 1 ELSE 0
BY DEF Took

LEMMA MissingSafe ==
  ASSUME Memory(res), Shape, Sound, NEW p \in Procs, lookup_missing(p)
  PROVE  IInv'
<1> DEFINE b == call[p].base
           d == call[p].d
<1>1. At(p, "walk") /\ call' = [call EXCEPT ![p] = Idle]
  BY DEF lookup_missing, Return
<1>2. /\ res' = IF d = b THEN res ELSE Release(res, d)
      /\ leaked' = [leaked EXCEPT ![b] = @ + call[p].dots]
      /\ UNCHANGED <<ktable, state, orphans, unpaired, fault>>
  BY DEF lookup_missing
<1>3. /\ d \in Res /\ b \in Res /\ Runs(p)
      /\ Outside \in [Res -> Nat] /\ Outside[b] > 0 /\ (d # b => Outside[d] > 0)
      /\ d # b => call[p].dots = 0
      /\ call[p].dots \in Nat
      /\ Closing(p) = None /\ \A fd \in FDs : Name(p, fd) = ktable[p][fd]
  BY <1>1, WalkHas
<1>4. /\ call' \in [Procs -> Call] /\ call'[p] = Idle
      /\ \A x \in Procs \ {p} : call'[x] = call[x]
      /\ call'[p].at \notin Loads
      /\ Rests(p)' /\ WalkOK(p)' /\ CloseOK(p)'
      /\ \A fd \in FDs : Name(p, fd)' = ktable'[p][fd]
      /\ \A r \in Res : Took(p, r)' = 0
      /\ Closing(p)' = None
  BY <1>1, Returned
<1>5. leaked' \in [Res -> Nat]
      /\ \A r \in Res : leaked'[r] = leaked[r] + (IF r = b THEN call[p].dots ELSE 0)
  <2>1. leaked \in [Res -> Nat]
    BY DEF Shape
  <2> QED BY <1>2, <1>3, <2>1
<1>6. Shape'
  BY <1>2, <1>4, <1>5 DEF Shape
<1>7. Local(p)'
  BY <1>2, <1>3, <1>4 DEF Local, Runs
<1>8. /\ Locals' /\ Children'
      /\ \A x \in Procs \ {p} : Closing(x)' = Closing(x)
      /\ Outside' \in [Res -> Nat]
      /\ \A r \in Res : Outside'[r] = Outside[r] - (IF r = d /\ d # b THEN 1 ELSE 0)
  <2>1. PICK i \in FDs : TRUE
    BY ObjectsAssumption
  <2>2. /\ \A x \in Procs \ {p} :
             call'[x] = call[x] /\ ktable'[x] = ktable[x] /\ state'[x] = state[x]
        /\ \A j \in FDs : Name(p, j)' = Name(p, j)
        /\ state'[p] = state[p]
    BY <1>2, <1>3, <1>4
  <2>3. /\ Locals' /\ Children' /\ Outside' \in [Res -> Nat]
        /\ \A x \in Procs \ {p} : Closing(x)' = Closing(x)
        /\ \A r \in Res :
             /\ Outside'[r] = Outside[r]
                  - (IF Name(p, i) = r THEN 1 ELSE 0) + (IF Name(p, i)' = r THEN 1 ELSE 0)
                  - Took(p, r) + Took(p, r)' - leaked[r] + leaked'[r]
             /\ leaked[r] \in Nat
    BY <1>4, <1>6, <1>7, <2>2, Alone
  <2>4. ASSUME NEW r \in Res
        PROVE  Outside'[r] = Outside[r] - (IF r = d /\ d # b THEN 1 ELSE 0)
    <3>1. Took(p, r) = IF r = d THEN IF r = b THEN call[p].dots ELSE 1 ELSE 0
      BY <1>1, WalkTook
    <3>2. Name(p, i)' = Name(p, i) /\ Took(p, r)' = 0 /\ Outside[r] \in Nat
      BY <1>3, <1>4, <2>2
    <3> QED BY <1>3, <1>5, <2>3, <3>1, <3>2
  <2> QED BY <2>3, <2>4
<1>9. Memory(res') /\ Fits(res', Outside') /\ Calm(res, res')
  <2>1. CASE d = b
    BY <1>2, <1>3, <1>8, <2>1, SameFits DEF Sound
  <2>2. CASE d # b
    <3>1. \A r \in Res : Outside'[r] = Outside[r] - (IF r = d THEN 1 ELSE 0)
      BY <1>8, <2>2
    <3>2. res' = Release(res, d) /\ Outside[d] > 0
      BY <1>2, <1>3, <2>2
    <3> QED BY <1>3, <1>8, <3>1, <3>2, ReleaseFits DEF Sound
  <2> QED BY <2>1, <2>2
<1> QED BY <1>2, <1>3, <1>4, <1>6, <1>8, <1>9, AloneCalm

LEMMA NameSafe ==
  ASSUME Memory(res), Shape, Sound, NEW p \in Procs, lookup_name(p)
  PROVE  IInv'
<1> DEFINE b == call[p].base
           d == call[p].d
           v == res[d].holds
<1>1. At(p, "walk") /\ call[p].todo > 0
  BY DEF lookup_name
<1>2. PICK n \in FreeRes, k \in {"dir", "file"} :
        /\ res' = IF d = b THEN fs_dirent_new(res, n, k, v) ELSE Release(fs_dirent_new(res, n, k, v), d)
        /\ call' = [call EXCEPT ![p].todo = @ - 1, ![p].d = n, ![p].dots = 0]
  BY DEF lookup_name
<1>3. /\ leaked' = [leaked EXCEPT ![b] = @ + call[p].dots]
      /\ UNCHANGED <<ktable, state, orphans, unpaired, fault>>
  BY DEF lookup_name
<1> DEFINE c == [call[p] EXCEPT !.todo = @ - 1, !.d = n, !.dots = 0]
<1>4. /\ call[p] \in Call /\ d \in Res /\ b \in Res /\ Runs(p)
      /\ Outside \in [Res -> Nat] /\ res[b].kind # "free" /\ (d # b => Outside[d] > 0)
      /\ res[d].kind # "free"
      /\ d # b => call[p].dots = 0
      /\ call[p].todo + call[p].dots <= MaxParts
      /\ call[p].todo \in Nat /\ call[p].dots \in Nat /\ MaxParts \in Nat
      /\ \E fd \in FDs : ktable[p][fd] = b
      /\ call[p].goal = "fd" => ktable[p][call[p].fd] = None
      /\ Closing(p) = None /\ \A fd \in FDs : Name(p, fd) = ktable[p][fd]
  BY <1>1, WalkHas
<1>5. n \in Res /\ res[n].kind = "free" /\ n # b /\ n # d
  BY <1>4 DEF FreeRes
<1>6. /\ c \in Call /\ c.at = "walk" /\ c.d = n /\ c.base = b /\ c.todo = call[p].todo - 1
      /\ c.dots = 0 /\ c.goal = call[p].goal /\ c.fd = call[p].fd
  <2>1. /\ call[p].todo - 1 \in 0 .. MaxParts /\ call[p].at = "walk" /\ 0 \in 0 .. MaxParts
    BY <1>1, <1>4 DEF At
  <2>2. c \in Call
    BY <1>4, <1>5, <2>1 DEF Call
  <2>3. /\ c.at = call[p].at /\ c.d = n /\ c.base = b /\ c.goal = call[p].goal
        /\ c.fd = call[p].fd /\ c.todo = call[p].todo - 1 /\ c.dots = 0
    BY <1>4 DEF Call
  <2> HIDE DEF c
  <2> QED BY <2>1, <2>2, <2>3
<1>7. call' \in [Procs -> Call] /\ call'[p] = c /\ \A x \in Procs \ {p} : call'[x] = call[x]
  <2>1. call' = [call EXCEPT ![p] = c]
    BY <1>2
  <2>2. call \in [Procs -> Call]
    BY DEF Shape
  <2> HIDE DEF c
  <2> QED BY <1>6, <2>1, <2>2
<1> HIDE DEF c
<1>8. leaked' \in [Res -> Nat]
      /\ \A r \in Res : leaked'[r] = leaked[r] + (IF r = b THEN call[p].dots ELSE 0)
  <2>1. leaked \in [Res -> Nat]
    BY DEF Shape
  <2> QED BY <1>3, <1>4, <2>1
<1>9. Shape'
  BY <1>3, <1>7, <1>8 DEF Shape
<1>10. Local(p)'
  <2>1. Runs(p)'
    BY <1>3, <1>4 DEF Runs
  <2>2. WalkOK(p)'
    BY <1>1, <1>3, <1>4, <1>5, <1>6, <1>7 DEF WalkOK
  <2>3. CloseOK(p)'
    BY <1>6, <1>7 DEF CloseOK
  <2> QED BY <2>1, <2>2, <2>3 DEF Local, Rests, Runs
<1>11. /\ \A j \in FDs : Name(p, j)' = Name(p, j)
       /\ Closing(p)' = None
       /\ \A r \in Res : Took(p, r)' = IF r = n THEN 1 ELSE 0
  <2>1. Closing(p)' = None /\ \A j \in FDs : Name(p, j)' = Name(p, j)
    BY <1>3, <1>4, <1>6, <1>7, <1>1 DEF Name, Closed, Closing
  <2>2. At(p, "walk")'
    BY <1>3, <1>4, <1>6, <1>7 DEF At, Runs
  <2> QED BY <1>5, <1>6, <1>7, <2>1, <2>2 DEF Took
<1>12. /\ Locals' /\ Children'
       /\ \A x \in Procs \ {p} : Closing(x)' = Closing(x)
       /\ Outside' \in [Res -> Nat]
       /\ \A r \in Res : Outside'[r] = Outside[r] + (IF r = n THEN 1 ELSE 0)
                                         - (IF r = d /\ d # b THEN 1 ELSE 0)
  <2>1. PICK i \in FDs : TRUE
    BY ObjectsAssumption
  <2>2. /\ \A x \in Procs \ {p} :
             call'[x] = call[x] /\ ktable'[x] = ktable[x] /\ state'[x] = state[x]
        /\ state'[p] = state[p] /\ call'[p].at \notin Loads
    BY <1>3, <1>6, <1>7 DEF Loads
  <2>3. /\ Locals' /\ Children' /\ Outside' \in [Res -> Nat]
        /\ \A x \in Procs \ {p} : Closing(x)' = Closing(x)
        /\ \A r \in Res :
             /\ Outside'[r] = Outside[r]
                  - (IF Name(p, i) = r THEN 1 ELSE 0) + (IF Name(p, i)' = r THEN 1 ELSE 0)
                  - Took(p, r) + Took(p, r)' - leaked[r] + leaked'[r]
             /\ leaked[r] \in Nat
    BY <1>9, <1>10, <1>11, <2>2, Alone
  <2>4. ASSUME NEW r \in Res
        PROVE  Outside'[r] = Outside[r] + (IF r = n THEN 1 ELSE 0)
                               - (IF r = d /\ d # b THEN 1 ELSE 0)
    <3>1. Took(p, r) = IF r = d THEN IF r = b THEN call[p].dots ELSE 1 ELSE 0
      BY <1>1, WalkTook
    <3>2. Name(p, i)' = Name(p, i) /\ Outside[r] \in Nat
      BY <1>4, <1>11
    <3>3. Took(p, r)' = IF r = n THEN 1 ELSE 0
      BY <1>11
    <3>4. Took(p, r) = (IF r = b THEN call[p].dots ELSE 0) + (IF r = d /\ d # b THEN 1 ELSE 0)
      BY <1>4, <3>1
    <3>5. leaked'[r] = leaked[r] + (IF r = b THEN call[p].dots ELSE 0)
      BY <1>8
    <3> QED BY <1>4, <2>3, <3>2, <3>3, <3>4, <3>5
  <2> QED BY <2>3, <2>4
<1>13. Memory(res') /\ Fits(res', Outside') /\ Calm(res, res')
  <2> DEFINE g == fs_dirent_new(res, n, k, v)
             e == [x \in Res |-> Outside[x] + (IF x = n THEN 1 ELSE 0)]
  <2>1. v \in Res \cup {None} /\ (v # None => res[v].refs > 0)
    <3>1. v \in Res \cup {None}
      BY <1>4 DEF Memory, Record
    <3> QED BY <1>4, <3>1, HeldHasRefs DEF Sound
  <2>2. e \in [Res -> Nat] /\ \A x \in Res : e[x] = Outside[x] + (IF x = n THEN 1 ELSE 0)
    BY <1>4
  <2>3. g = fs_dirent_new(res, n, k, v) /\ k \in Kinds
    BY DEF Kinds
  <2> HIDE DEF e, g
  <2>4. Memory(g) /\ Fits(g, e) /\ Calm(res, g)
    BY <1>4, <1>5, <2>1, <2>2, <2>3, NewFits DEF Sound
  <2>5. CASE d = b
    <3>1. \A x \in Res : Outside'[x] = e[x]
      BY <1>4, <1>12, <2>2, <2>5
    <3>2. Fits(g, Outside')
      BY <1>12, <2>2, <2>4, <3>1, SameFits
    <3> QED BY <1>2, <2>4, <2>5, <3>2 DEF g
  <2>6. CASE d # b
    <3>1. \A x \in Res : Outside'[x] = e[x] - (IF x = d THEN 1 ELSE 0)
      BY <1>4, <1>12, <2>2, <2>6
    <3>2. e[d] > 0
      BY <1>4, <2>2, <2>6
    <3>3. Memory(Release(g, d)) /\ Fits(Release(g, d), Outside') /\ Calm(g, Release(g, d))
      BY <1>4, <1>12, <2>2, <2>4, <3>1, <3>2, ReleaseFits
    <3>4. Calm(res, Release(g, d))
      BY <2>4, <3>3 DEF Calm, Spent
    <3> QED BY <1>2, <2>6, <3>3, <3>4 DEF g
  <2> QED BY <2>5, <2>6
<1> QED BY <1>3, <1>4, <1>9, <1>11, <1>12, <1>13, AloneCalm

LEMMA LessOne ==
  ASSUME NEW m \in Nat
  PROVE  Max({m - 1, 0}) = IF m = 0 THEN 0 ELSE m - 1
<1> DEFINE k == IF m = 0 THEN 0 ELSE m - 1
<1>1. k \in {m - 1, 0} /\ \A y \in {m - 1, 0} : k >= y
  OBVIOUS
<1>2. \A x \in {m - 1, 0} : (\A y \in {m - 1, 0} : x >= y) => x = k
  OBVIOUS
<1> HIDE DEF k
<1>3. Max({m - 1, 0}) = k
  BY <1>1, <1>2 DEF Max
<1> QED BY <1>3 DEF k

LEMMA FoundSafe ==
  ASSUME Memory(res), Shape, Sound, NEW p \in Procs, found(p)
  PROVE  IInv'
<1> DEFINE b == call[p].base
           d == call[p].d
           goal == call[p].goal
           mine == IF d = b THEN call[p].dots ELSE 1
           rest == IF goal = "list" THEN mine ELSE IF mine = 0 THEN 0 ELSE mine - 1
<1>1. At(p, "walk") /\ call' = [call EXCEPT ![p] = Idle]
  BY DEF found, Return
<1>fd. PICK fd \in FDs : fd = call[p].fd
  BY <1>1, WalkHas
<1>2. /\ call[p] \in Call /\ d \in Res /\ b \in Res /\ Runs(p)
      /\ Outside \in [Res -> Nat] /\ Outside[d] > 0
      /\ call[p].dots \in Nat
      /\ Closing(p) = None /\ (\A i \in FDs : Name(p, i) = ktable[p][i])
      /\ goal = "fd" => ktable[p][fd] = None
      /\ goal \in {"fd", "list", "use"}
  BY <1>fd, <1>1, WalkHas DEF Call
<1>3. mine \in Nat /\ rest \in Nat
  BY <1>2
<1>4. /\ ktable' = IF goal = "fd" THEN [ktable EXCEPT ![p][fd] = d] ELSE ktable
      /\ res' = IF goal = "use" THEN Release(res, d) ELSE res
      /\ unpaired' = (unpaired \/ (mine = 0 /\ goal # "list"))
      /\ leaked' = [leaked EXCEPT ![d] = @ + rest]
      /\ UNCHANGED <<state, orphans, fault>>
  <2>1. /\ ktable' = IF goal = "fd" THEN [ktable EXCEPT ![p][fd] = d] ELSE ktable
        /\ res' = IF goal = "use" THEN Release(res, d) ELSE res
        /\ unpaired' = (unpaired \/ (mine = 0 /\ goal # "list"))
        /\ leaked' = [leaked EXCEPT ![d] =
                        @ + IF goal = "list" THEN mine ELSE Max({mine - 1, 0})]
        /\ UNCHANGED <<state, orphans, fault>>
    BY <1>fd DEF found
  <2>2. Max({mine - 1, 0}) = IF mine = 0 THEN 0 ELSE mine - 1
    BY <1>3, LessOne
  <2> HIDE DEF mine, goal
  <2> QED BY <2>1, <2>2
<1> HIDE DEF mine, rest
<1>5. /\ call' \in [Procs -> Call] /\ call'[p] = Idle
      /\ \A x \in Procs \ {p} : call'[x] = call[x]
      /\ call'[p].at \notin Loads
      /\ Rests(p)' /\ WalkOK(p)' /\ CloseOK(p)'
      /\ \A i \in FDs : Name(p, i)' = ktable'[p][i]
      /\ \A r \in Res : Took(p, r)' = 0
      /\ Closing(p)' = None
  BY <1>1, Returned
<1>6. leaked' \in [Res -> Nat]
      /\ \A r \in Res : leaked'[r] = leaked[r] + (IF r = d THEN rest ELSE 0)
  <2>1. leaked \in [Res -> Nat]
    BY DEF Shape
  <2> QED BY <1>2, <1>3, <1>4, <2>1
<1>7. /\ ktable' \in [Procs -> [FDs -> Res \cup {None}]]
      /\ \A x \in Procs \ {p} : ktable'[x] = ktable[x]
      /\ \A i \in FDs : ktable'[p][i] = IF goal = "fd" /\ i = fd THEN d ELSE ktable[p][i]
  <2>1. ktable \in [Procs -> [FDs -> Res \cup {None}]]
    BY DEF Shape
  <2> QED BY <1>2, <1>4, <2>1
<1>8. Shape'
  <2>1. unpaired' \in BOOLEAN
    BY <1>4 DEF Shape
  <2> QED BY <1>4, <1>5, <1>6, <1>7, <2>1 DEF Shape
<1>9. Local(p)'
  BY <1>2, <1>4, <1>5 DEF Local, Runs
<1>10. /\ Locals' /\ Children'
       /\ \A x \in Procs \ {p} : Closing(x)' = Closing(x)
       /\ Outside' \in [Res -> Nat]
       /\ \A r \in Res : Outside'[r] = Outside[r] - (IF r = d THEN mine ELSE 0)
            + (IF r = d THEN rest ELSE 0) + (IF r = d /\ goal = "fd" THEN 1 ELSE 0)
  <2>1. /\ \A x \in Procs \ {p} :
             call'[x] = call[x] /\ ktable'[x] = ktable[x] /\ state'[x] = state[x]
        /\ \A j \in FDs \ {fd} : Name(p, j)' = Name(p, j)
        /\ state'[p] = state[p]
    BY <1>2, <1>4, <1>5, <1>7
  <2>2. /\ Locals' /\ Children' /\ Outside' \in [Res -> Nat]
        /\ \A x \in Procs \ {p} : Closing(x)' = Closing(x)
        /\ \A r \in Res :
             /\ Outside'[r] = Outside[r]
                  - (IF Name(p, fd) = r THEN 1 ELSE 0) + (IF Name(p, fd)' = r THEN 1 ELSE 0)
                  - Took(p, r) + Took(p, r)' - leaked[r] + leaked'[r]
             /\ leaked[r] \in Nat
    BY <1>2, <1>5, <1>8, <1>9, <2>1, Alone
  <2>3. ASSUME NEW r \in Res
        PROVE  Outside'[r] = Outside[r] - (IF r = d THEN mine ELSE 0)
                 + (IF r = d THEN rest ELSE 0) + (IF r = d /\ goal = "fd" THEN 1 ELSE 0)
    <3>1. Took(p, r) = (IF r = d THEN mine ELSE 0) /\ Took(p, r)' = 0 /\ Outside[r] \in Nat
      BY <1>1, <1>2, <1>5, WalkTook DEF mine
    <3>2. (IF Name(p, fd)' = r THEN 1 ELSE 0)
            = (IF Name(p, fd) = r THEN 1 ELSE 0) + (IF r = d /\ goal = "fd" THEN 1 ELSE 0)
      <4>1. Name(p, fd)' = IF goal = "fd" THEN d ELSE Name(p, fd)
        <5>1. Name(p, fd) = ktable[p][fd] /\ Name(p, fd)' = ktable'[p][fd]
          BY <1>2, <1>5
        <5> QED BY <1>7, <5>1
      <4>2. goal = "fd" => Name(p, fd) # r
        BY <1>2, ObjectsAssumption
      <4> HIDE DEF goal, d
      <4> QED BY <4>1, <4>2
    <3>3. leaked'[r] = leaked[r] + (IF r = d THEN rest ELSE 0)
      BY <1>6
    <3>4. Outside'[r] = Outside[r]
                  - (IF Name(p, fd) = r THEN 1 ELSE 0) + (IF Name(p, fd)' = r THEN 1 ELSE 0)
                  - Took(p, r) + Took(p, r)' - leaked[r] + leaked'[r]
          /\ leaked[r] \in Nat
      BY <2>2
    <3> HIDE DEF goal, d
    <3> QED BY <1>3, <3>1, <3>2, <3>3, <3>4
  <2> QED BY <2>2, <2>3
<1>11. CASE mine = 0 /\ goal # "list"
  <2>1. unpaired' /\ Memory(res')
    <3>1. CASE goal = "use"
      <4> DEFINE f == [x \in Res |-> Outside[x] - (IF x = d THEN 1 ELSE 0)]
      <4>1. f \in [Res -> Nat] /\ \A x \in Res : f[x] = Outside[x] - (IF x = d THEN 1 ELSE 0)
        BY <1>2
      <4> HIDE DEF f
      <4>2. Memory(Release(res, d))
        BY <1>2, <4>1, ReleaseFits DEF Sound
      <4> QED BY <1>4, <1>11, <3>1, <4>2
    <3>2. CASE goal # "use"
      BY <1>4, <1>11, <3>2
    <3> QED BY <3>1, <3>2
  <2>2. (Memory(res) /\ Shape => TypeOK)'
    BY TypeIs, PTL
  <2>3. Memory(res)'
    BY <2>1 DEF Memory
  <2> QED BY <1>8, <2>1, <2>2, <2>3 DEF IInv
<1>12. CASE mine # 0 \/ goal = "list"
  <2>1. Memory(res') /\ Fits(res', Outside') /\ Calm(res, res')
    <3>1. CASE goal = "use"
      <4>1. \A r \in Res : Outside'[r] = Outside[r] - (IF r = d THEN 1 ELSE 0)
        BY <1>2, <1>3, <1>10, <1>12, <3>1 DEF rest
      <4>2. res' = Release(res, d)
        BY <1>4, <3>1
      <4> QED BY <1>2, <1>10, <4>1, <4>2, ReleaseFits DEF Sound
    <3>2. CASE goal # "use"
      <4>1. \A r \in Res : Outside'[r] = Outside[r]
        BY <1>2, <1>3, <1>10, <1>12, <3>2 DEF rest
      <4>2. res' = res
        BY <1>4, <3>2
      <4> QED BY <1>2, <1>10, <4>1, <4>2, SameFits DEF Sound
    <3> QED BY <3>1, <3>2
  <2> QED BY <1>2, <1>4, <1>5, <1>8, <1>10, <2>1, AloneCalm
<1> QED BY <1>11, <1>12

\* An entry for a new resource that holds v.
LEMMA OpenedSafe ==
  ASSUME Memory(res), Shape, Sound, NEW p \in Procs, At(p, "out"), Unused(p) # {},
         NEW n \in FreeRes, NEW k \in Kinds, NEW v \in Res \cup {None},
         v # None => res[v].refs > 0,
         NEW h, h = fs_dirent_new(res, n, k, v), Opened(p, n, h)
  PROVE  IInv'
<1>1. PICK fd \in FDs : fd = Available(p) /\ ktable[p][fd] = None
  BY AvailableIsUnused
<1>2. n \in Res /\ res[n].kind = "free"
  BY DEF FreeRes
<1>3. /\ ktable' = [ktable EXCEPT ![p][fd] = n] /\ res' = h
      /\ UNCHANGED <<state, call, leaked, orphans, unpaired, fault>>
  BY <1>1 DEF Opened, history
<1>4. /\ ktable' \in [Procs -> [FDs -> Res \cup {None}]]
      /\ \A x \in Procs \ {p} : ktable'[x] = ktable[x]
      /\ \A i \in FDs : ktable'[p][i] = IF i = fd THEN n ELSE ktable[p][i]
  <2>1. ktable \in [Procs -> [FDs -> Res \cup {None}]]
    BY DEF Shape
  <2> QED BY <1>1, <1>2, <1>3, <2>1
<1>5. call[p].at = "out" /\ Runs(p)
  BY DEF At
<1>6. Shape'
  BY <1>3, <1>4 DEF Shape
<1>7. Local(p)'
  BY <1>3, <1>5 DEF Local, Rests, Runs, WalkOK, CloseOK, At
<1>8. /\ \A i \in FDs : Name(p, i) = ktable[p][i] /\ Name(p, i)' = ktable'[p][i]
      /\ \A r \in Res : Took(p, r) = 0 /\ Took(p, r)' = 0
      /\ Closing(p) = None /\ Closing(p)' = None
  BY <1>3, <1>5, OutOfCalls DEF Name, Closed, Took, At, Closing
<1>9. /\ Locals' /\ Children'
      /\ \A x \in Procs \ {p} : Closing(x)' = Closing(x)
      /\ Outside \in [Res -> Nat] /\ Outside' \in [Res -> Nat]
      /\ \A r \in Res : Outside'[r] = Outside[r] + (IF r = n THEN 1 ELSE 0)
  <2>1. /\ \A x \in Procs \ {p} :
             call'[x] = call[x] /\ ktable'[x] = ktable[x] /\ state'[x] = state[x]
        /\ \A j \in FDs \ {fd} : Name(p, j)' = Name(p, j)
        /\ state'[p] = state[p] /\ leaked' = leaked /\ call'[p].at \notin Loads
    BY <1>3, <1>4, <1>5, <1>8 DEF Loads
  <2>2. /\ Locals' /\ Children' /\ Outside \in [Res -> Nat] /\ Outside' \in [Res -> Nat]
        /\ \A x \in Procs \ {p} : Closing(x)' = Closing(x)
        /\ \A r \in Res :
             /\ Outside'[r] = Outside[r]
                  - (IF Name(p, fd) = r THEN 1 ELSE 0) + (IF Name(p, fd)' = r THEN 1 ELSE 0)
                  - Took(p, r) + Took(p, r)' - leaked[r] + leaked'[r]
             /\ leaked[r] \in Nat
    BY <1>1, <1>6, <1>7, <2>1, Alone
  <2>3. ASSUME NEW r \in Res
        PROVE  Outside'[r] = Outside[r] + (IF r = n THEN 1 ELSE 0)
    <3>1. Name(p, fd) # r /\ (Name(p, fd)' = r <=> r = n)
      BY <1>1, <1>4, <1>8, ObjectsAssumption
    <3>2. Took(p, r) = 0 /\ Took(p, r)' = 0 /\ Outside[r] \in Nat /\ leaked'[r] = leaked[r]
      BY <1>8, <2>1, <2>2
    <3> QED BY <2>2, <3>1, <3>2
  <2> QED BY <2>2, <2>3
<1>10. Memory(res') /\ Fits(res', Outside') /\ Calm(res, res')
  <2>1. Fits(res, Outside)
    BY DEF Sound
  <2>2. Memory(h) /\ Fits(h, Outside') /\ Calm(res, h)
    BY <1>2, <1>9, <2>1, NewFits
  <2> QED BY <1>3, <2>2
<1> QED BY <1>3, <1>6, <1>8, <1>9, <1>10, AloneCalm

\* An open entry of a process that is in no call has a reference.
LEMMA EntryHasRefs ==
  ASSUME Memory(res), Shape, Sound, NEW p \in Procs, call[p].at = "out", NEW fd \in FDs,
         ktable[p][fd] # None
  PROVE  /\ ktable[p][fd] \in Res /\ Outside \in [Res -> Nat]
         /\ Outside[ktable[p][fd]] > 0 /\ res[ktable[p][fd]].refs > 0
         /\ res[ktable[p][fd]].kind # "free"
<1>1. ktable[p][fd] \in Res
  BY DEF Shape
<1>2. Name(p, fd) = ktable[p][fd]
  BY OutOfCalls
<1> QED BY <1>1, <1>2, NamedHasRefs

LEMMA NamedRefs ==
  ASSUME Memory(res), Shape, Sound, NEW p \in Procs, At(p, "out"), NEW kinds,
         NEW r \in Named(p, kinds)
  PROVE  r \in Res /\ res[r].refs > 0 /\ res[r].kind # "free"
<1>1. r \in Res /\ \E fd \in FDs : ktable[p][fd] = r
  BY NamedIsThere
<1>2. r # None /\ call[p].at = "out"
  BY <1>1, ObjectsAssumption DEF At
<1> QED BY <1>1, <1>2, EntryHasRefs

LEMMA OpensSafe ==
  ASSUME Memory(res), Shape, Sound, NEW p \in Procs,
         sys_open_dir(p) \/ sys_open_window(p) \/ sys_open_console(p) \/ sys_open_pipe(p)
  PROVE  IInv'
<1>1. At(p, "out") /\ Unused(p) # {}
  BY DEF sys_open_dir, sys_open_window, sys_open_console, sys_open_pipe
<1>2. CASE sys_open_dir(p)
  <2>1. PICK d \in Named(p, {"dir"}), n \in FreeRes :
          Opened(p, n, fs_dirent_new(res, n, "dir", res[d].holds))
    BY <1>2 DEF sys_open_dir
  <2> DEFINE v == res[d].holds
  <2>2. d \in Res /\ res[d].kind # "free"
    BY <1>1, NamedRefs
  <2>3. v \in Res \cup {None} /\ (v # None => res[v].refs > 0)
    <3>1. v \in Res \cup {None}
      BY <2>2 DEF Memory, Record
    <3>2. Outside \in [Res -> Nat]
      BY <1>1, <2>2, NamedIsThere, EntryHasRefs, ObjectsAssumption DEF At
    <3> QED BY <2>2, <3>1, <3>2, HeldHasRefs DEF Sound
  <2>4. Opened(p, n, fs_dirent_new(res, n, "dir", v))
    BY <2>1
  <2> HIDE DEF v
  <2> QED BY <1>1, <2>3, <2>4, OpenedSafe DEF Kinds
<1>3. CASE sys_open_window(p)
  <2>1. PICK w \in {None} \cup Named(p, {"window"}), n \in FreeRes :
          Opened(p, n, window_create(w, n))
    BY <1>3 DEF sys_open_window
  <2>2. w \in Res \cup {None} /\ (w # None => res[w].refs > 0)
    BY <1>1, NamedRefs
  <2>3. Opened(p, n, fs_dirent_new(res, n, "window", w))
    BY <2>1 DEF window_create, fs_dirent_new
  <2> QED BY <1>1, <2>2, <2>3, OpenedSafe DEF Kinds
<1>4. CASE sys_open_console(p)
  <2>1. PICK w \in {None} \cup Named(p, {"window"}), n \in FreeRes :
          Opened(p, n, console_create(w, n))
    BY <1>4 DEF sys_open_console
  <2>2. w \in Res \cup {None} /\ (w # None => res[w].refs > 0)
    BY <1>1, NamedRefs
  <2>3. Opened(p, n, fs_dirent_new(res, n, "console", w))
    BY <2>1 DEF console_create, fs_dirent_new
  <2> QED BY <1>1, <2>2, <2>3, OpenedSafe DEF Kinds
<1>5. CASE sys_open_pipe(p)
  <2>1. PICK n \in FreeRes : Opened(p, n, [res EXCEPT ![n] = New("pipe", None)])
    BY <1>5 DEF sys_open_pipe
  <2>2. Addref(res, None) = res
    BY DEF Addref
  <2>3. Opened(p, n, fs_dirent_new(res, n, "pipe", None))
    BY <2>1, <2>2 DEF fs_dirent_new
  <2> QED BY <1>1, <2>3, OpenedSafe DEF Kinds
<1> QED BY <1>2, <1>3, <1>4, <1>5

LEMMA ThreeDistinct ==
  ASSUME NEW a, NEW b, NEW c, Cardinality({a, b, c}) = 3
  PROVE  a # b /\ b # c /\ a # c
<1>1. \A x, y : IsFiniteSet({x, y}) /\ Cardinality({x, y}) <= 2
  <2>1. SUFFICES ASSUME NEW x, NEW y
                 PROVE  IsFiniteSet({x, y}) /\ Cardinality({x, y}) <= 2
    OBVIOUS
  <2>2. IsFiniteSet({x}) /\ Cardinality({x}) = 1
    BY FS_Singleton
  <2>3. /\ IsFiniteSet({x} \cup {y})
        /\ Cardinality({x} \cup {y}) = IF y \in {x} THEN 1 ELSE 2
    BY <2>2, FS_AddElement
  <2>4. {x} \cup {y} = {x, y}
    OBVIOUS
  <2> QED BY <2>3, <2>4
<1>2. \A x, y : Cardinality({x, y}) # 3
  <2>1. SUFFICES ASSUME NEW x, NEW y PROVE Cardinality({x, y}) # 3
    OBVIOUS
  <2>2. IsFiniteSet({x, y}) /\ Cardinality({x, y}) <= 2
    BY <1>1
  <2>3. Cardinality({x, y}) \in Nat
    BY <2>2, FS_CardinalityType
  <2> QED BY <2>2, <2>3
<1>3. a = b => {a, b, c} = {a, c}
  OBVIOUS
<1>4. b = c => {a, b, c} = {a, b}
  OBVIOUS
<1>5. a = c => {a, b, c} = {a, b}
  OBVIOUS
<1> QED BY <1>2, <1>3, <1>4, <1>5

\* Nothing outside names what is free.
LEMMA FreeIsUnnamed ==
  ASSUME Memory(res), Shape, Sound
  PROVE  /\ Outside \in [Res -> Nat]
         /\ \A r \in FreeRes : r \in Res /\ Outside[r] = 0 /\ leaked[r] = 0
<1>1. /\ Outside \in [Res -> Nat]
      /\ \A r \in Res : leaked[r] \in Nat /\ leaked[r] <= Outside[r]
  <2>1. IsFiniteSet(FDs) /\ IsFiniteSet(1 .. MaxParts) /\ IsFiniteSet(Procs)
    BY ObjectsAssumption, FS_Interval DEF FDs
  <2>2. IsFiniteSet(Procs \X FDs) /\ IsFiniteSet(Procs \X (1 .. MaxParts))
    BY <2>1, FS_Product
  <2>3. \A x \in Res : Cardinality(Entries(x)) \in Nat /\ Cardinality(Walking(x)) \in Nat
    BY <2>2, FS_Subset, FS_CardinalityType DEF Entries, Walking
  <2>4. \A x \in Res : leaked[x] \in Nat
    BY DEF Shape
  <2> QED BY <2>3, <2>4 DEF Outside
<1>2. \A r \in FreeRes : r \in Res /\ res[r].refs = 0
  BY DEF FreeRes, Memory, Free
<1>3. \A r \in FreeRes : Outside[r] = 0
  BY <1>1, <1>2, HeldHasRefs DEF Sound
<1>4. \A r \in FreeRes : leaked[r] = 0
  BY <1>1, <1>2, <1>3
<1> QED BY <1>1, <1>2, <1>3, <1>4

\* A step that only opens resources, in no call.
LEMMA QuietStep ==
  ASSUME Memory(res), Shape, Shape', Sound, NEW p \in Procs, At(p, "out"), NEW i \in FDs,
         UNCHANGED <<state, call, orphans>>,
         \A x \in Procs \ {p} : ktable'[x] = ktable[x],
         \A j \in FDs \ {i} : ktable'[p][j] = ktable[p][j]
  PROVE  /\ Locals' /\ Children'
         /\ \A x \in Procs : Closing(x)' = Closing(x)
         /\ Outside \in [Res -> Nat] /\ Outside' \in [Res -> Nat]
         /\ \A r \in Res :
              /\ Outside'[r] = Outside[r]
                   - (IF ktable[p][i] = r THEN 1 ELSE 0) + (IF ktable'[p][i] = r THEN 1 ELSE 0)
                   - leaked[r] + leaked'[r]
              /\ leaked[r] \in Nat /\ leaked'[r] \in Nat
<1>1. call[p].at = "out" /\ Runs(p)
  BY DEF At
<1>2. Local(p)'
  BY <1>1 DEF Local, Rests, Runs, WalkOK, CloseOK, At
<1>3. /\ \A j \in FDs : Name(p, j) = ktable[p][j] /\ Name(p, j)' = ktable'[p][j]
      /\ \A r \in Res : Took(p, r) = 0 /\ Took(p, r)' = 0
      /\ Closing(p) = None /\ Closing(p)' = None
  BY <1>1, OutOfCalls DEF Name, Closed, Took, At, Closing
<1>4. /\ \A x \in Procs \ {p} :
           call'[x] = call[x] /\ ktable'[x] = ktable[x] /\ state'[x] = state[x]
      /\ \A j \in FDs \ {i} : Name(p, j)' = Name(p, j)
      /\ state'[p] = state[p] /\ call'[p].at \notin Loads
  BY <1>1, <1>3 DEF Loads
<1>5. /\ Locals' /\ Children' /\ Outside \in [Res -> Nat] /\ Outside' \in [Res -> Nat]
      /\ \A x \in Procs \ {p} : Closing(x)' = Closing(x)
      /\ \A r \in Res :
           /\ Outside'[r] = Outside[r]
                - (IF Name(p, i) = r THEN 1 ELSE 0) + (IF Name(p, i)' = r THEN 1 ELSE 0)
                - Took(p, r) + Took(p, r)' - leaked[r] + leaked'[r]
           /\ leaked[r] \in Nat /\ leaked'[r] \in Nat
  BY <1>2, <1>4, Alone
<1>6. ASSUME NEW r \in Res
      PROVE  Outside'[r] = Outside[r]
               - (IF ktable[p][i] = r THEN 1 ELSE 0) + (IF ktable'[p][i] = r THEN 1 ELSE 0)
               - leaked[r] + leaked'[r]
  <2>1. Name(p, i) = ktable[p][i] /\ Name(p, i)' = ktable'[p][i]
    BY <1>3
  <2>2. Took(p, r) = 0 /\ Took(p, r)' = 0 /\ Outside[r] \in Nat
    BY <1>3, <1>5
  <2> QED BY <1>5, <2>1, <2>2
<1> QED BY <1>3, <1>5, <1>6

LEMMA MountSafe ==
  ASSUME Memory(res), Shape, Sound, kshell_mount
  PROVE  IInv'
<1>1. PICK dev \in FreeRes, v \in FreeRes, d \in FreeRes :
        /\ Cardinality({dev, v, d}) = 3
        /\ res' = Volume(res, dev, v, d, 1)
        /\ ktable' = [ktable EXCEPT ![Shell][STDDIR] = d]
        /\ leaked' = [leaked EXCEPT ![dev] = 1, ![v] = 1]
  BY DEF kshell_mount
<1>2. /\ At(Shell, "out") /\ ktable[Shell][STDDIR] = None
      /\ UNCHANGED <<state, call, orphans, unpaired, fault>>
  BY DEF kshell_mount
<1>3. dev # v /\ v # d /\ dev # d
  BY <1>1, ThreeDistinct
<1>4. /\ dev \in Res /\ v \in Res /\ d \in Res
      /\ res[dev].kind = "free" /\ res[v].kind = "free" /\ res[d].kind = "free"
  BY DEF FreeRes
<1>5. /\ Outside \in [Res -> Nat]
      /\ \A r \in {dev, v, d} : Outside[r] = 0 /\ leaked[r] = 0
  BY FreeIsUnnamed
<1>6. /\ ktable' \in [Procs -> [FDs -> Res \cup {None}]]
      /\ \A x \in Procs \ {Shell} : ktable'[x] = ktable[x]
      /\ \A j \in FDs : ktable'[Shell][j] = IF j = STDDIR THEN d ELSE ktable[Shell][j]
  <2>1. ktable \in [Procs -> [FDs -> Res \cup {None}]]
    BY DEF Shape
  <2> QED BY <1>1, <1>4, <2>1, ObjectsAssumption
<1>7. /\ leaked' \in [Res -> Nat]
      /\ \A r \in Res : leaked'[r] = IF r \in {dev, v} THEN 1 ELSE leaked[r]
  <2>1. leaked \in [Res -> Nat]
    BY DEF Shape
  <2> QED BY <1>1, <1>4, <2>1
<1>8. Shape'
  BY <1>2, <1>6, <1>7 DEF Shape
<1>9. /\ Locals' /\ Children' /\ Outside' \in [Res -> Nat]
      /\ \A x \in Procs : Closing(x)' = Closing(x)
      /\ \A r \in Res :
           /\ Outside'[r] = Outside[r]
                - (IF ktable[Shell][STDDIR] = r THEN 1 ELSE 0)
                + (IF ktable'[Shell][STDDIR] = r THEN 1 ELSE 0)
                - leaked[r] + leaked'[r]
           /\ leaked[r] \in Nat /\ leaked'[r] \in Nat
  BY <1>2, <1>6, <1>8, QuietStep, ObjectsAssumption
<1>10. \A r \in Res : Outside'[r] = IF r \in {dev, v} THEN 1 ELSE IF r = d THEN 1 ELSE Outside[r]
  <2>1. SUFFICES ASSUME NEW r \in Res
                 PROVE  Outside'[r] = IF r \in {dev, v} THEN 1 ELSE IF r = d THEN 1 ELSE Outside[r]
    OBVIOUS
  <2>2. ktable[Shell][STDDIR] # r /\ ktable'[Shell][STDDIR] = d
    BY <1>2, <1>6, ObjectsAssumption
  <2>3. /\ Outside'[r] = Outside[r] + (IF d = r THEN 1 ELSE 0) - leaked[r] + leaked'[r]
        /\ leaked[r] \in Nat /\ Outside[r] \in Nat
    BY <1>5, <1>9, <2>2
  <2>4. leaked'[r] = IF r \in {dev, v} THEN 1 ELSE leaked[r]
    BY <1>7
  <2>5. CASE r \in {dev, v}
    BY <1>3, <1>5, <2>3, <2>4, <2>5
  <2>6. CASE r = d
    BY <1>3, <1>5, <2>3, <2>4, <2>6
  <2>7. CASE r \notin {dev, v, d}
    BY <2>3, <2>4, <2>7
  <2> QED BY <2>5, <2>6, <2>7
<1>11. Memory(res') /\ Fits(res', Outside') /\ Calm(res, res')
  <2>1. Fits(res, Outside)
    BY DEF Sound
  <2> DEFINE e == Outside
             f == Outside'
             g == res'
             one == 1
  <2>2. /\ one \in Nat /\ e \in [Res -> Nat] /\ f \in [Res -> Nat] /\ Fits(res, e)
        /\ \A r \in Res : f[r] = IF r \in {dev, v} THEN one ELSE IF r = d THEN 1 ELSE e[r]
        /\ g = Volume(res, dev, v, d, one)
    BY <1>1, <1>5, <1>9, <1>10, <2>1
  <2> HIDE DEF e, f, g, one
  <2>3. Memory(g) /\ Fits(g, f) /\ Calm(res, g)
    BY <1>3, <1>4, <2>2, VolumeFits
  <2> QED BY <2>3 DEF f, g
<1>12. Shell \in Procs
  BY ObjectsAssumption
<1> QED BY <1>2, <1>8, <1>9, <1>11, <1>12, AloneCalm

LEMMA FailedCopySafe ==
  ASSUME Memory(res), Shape, Sound, fs_dirent_copy_failed
  PROVE  IInv'
<1>1. PICK dev \in FreeRes, v \in FreeRes, d \in FreeRes :
        /\ Cardinality({dev, v, d}) = 3
        /\ res' = Volume(res, dev, v, d, 0)
        /\ leaked' = [leaked EXCEPT ![d] = 1]
  BY DEF fs_dirent_copy_failed
<1>2. At(Shell, "out") /\ UNCHANGED <<ktable, state, call, orphans, unpaired, fault>>
  BY DEF fs_dirent_copy_failed
<1>3. dev # v /\ v # d /\ dev # d
  BY <1>1, ThreeDistinct
<1>4. /\ dev \in Res /\ v \in Res /\ d \in Res
      /\ res[dev].kind = "free" /\ res[v].kind = "free" /\ res[d].kind = "free"
  BY DEF FreeRes
<1>5. /\ Outside \in [Res -> Nat]
      /\ \A r \in {dev, v, d} : Outside[r] = 0 /\ leaked[r] = 0
  BY FreeIsUnnamed
<1>6. /\ leaked' \in [Res -> Nat]
      /\ \A r \in Res : leaked'[r] = IF r = d THEN 1 ELSE leaked[r]
  <2>1. leaked \in [Res -> Nat]
    BY DEF Shape
  <2> QED BY <1>1, <1>4, <2>1
<1>7. Shape'
  BY <1>2, <1>6 DEF Shape
<1>8. /\ Locals' /\ Children' /\ Outside' \in [Res -> Nat]
      /\ \A x \in Procs : Closing(x)' = Closing(x)
      /\ \A r \in Res : /\ Outside'[r] = Outside[r] - leaked[r] + leaked'[r]
                        /\ leaked[r] \in Nat /\ leaked'[r] \in Nat
  <2>1. /\ Locals' /\ Children' /\ Outside' \in [Res -> Nat]
        /\ \A x \in Procs : Closing(x)' = Closing(x)
        /\ \A r \in Res :
           /\ Outside'[r] = Outside[r]
                - (IF ktable[Shell][STDDIR] = r THEN 1 ELSE 0)
                + (IF ktable'[Shell][STDDIR] = r THEN 1 ELSE 0)
                - leaked[r] + leaked'[r]
           /\ leaked[r] \in Nat /\ leaked'[r] \in Nat
    BY <1>2, <1>7, QuietStep, ObjectsAssumption
  <2>2. ktable' = ktable
    BY <1>2
  <2> QED BY <1>5, <2>1, <2>2
<1>9. \A r \in Res : Outside'[r] = IF r \in {dev, v} THEN 0 ELSE IF r = d THEN 1 ELSE Outside[r]
  <2>1. SUFFICES ASSUME NEW r \in Res
                 PROVE  Outside'[r] = IF r \in {dev, v} THEN 0 ELSE IF r = d THEN 1 ELSE Outside[r]
    OBVIOUS
  <2>2. /\ Outside'[r] = Outside[r] - leaked[r] + leaked'[r]
        /\ leaked[r] \in Nat /\ Outside[r] \in Nat
        /\ leaked'[r] = IF r = d THEN 1 ELSE leaked[r]
    BY <1>5, <1>6, <1>8
  <2>3. CASE r \in {dev, v}
    BY <1>3, <1>5, <2>2, <2>3
  <2>4. CASE r = d
    BY <1>3, <1>5, <2>2, <2>4
  <2>5. CASE r \notin {dev, v, d}
    BY <2>2, <2>5
  <2> QED BY <2>3, <2>4, <2>5
<1>10. Memory(res') /\ Fits(res', Outside') /\ Calm(res, res')
  <2>1. Fits(res, Outside)
    BY DEF Sound
  <2> DEFINE e == Outside
             f == Outside'
             g == res'
             none == 0
  <2>2. /\ none \in Nat /\ e \in [Res -> Nat] /\ f \in [Res -> Nat] /\ Fits(res, e)
        /\ \A r \in Res : f[r] = IF r \in {dev, v} THEN none ELSE IF r = d THEN 1 ELSE e[r]
        /\ g = Volume(res, dev, v, d, none)
    BY <1>1, <1>5, <1>8, <1>9, <2>1
  <2> HIDE DEF e, f, g, none
  <2>3. Memory(g) /\ Fits(g, f) /\ Calm(res, g)
    BY <1>3, <1>4, <2>2, VolumeFits
  <2> QED BY <2>3 DEF f, g
<1>11. Shell \in Procs
  BY ObjectsAssumption
<1> QED BY <1>2, <1>7, <1>8, <1>10, <1>11, AloneCalm

LEMMA FailedInstallSafe ==
  ASSUME Memory(res), Shape, Sound, kshell_install_failed
  PROVE  IInv'
<1>1. PICK dev \in FreeRes : /\ res' = [res EXCEPT ![dev] = New("device", None)]
                             /\ leaked' = [leaked EXCEPT ![dev] = 1]
  BY DEF kshell_install_failed
<1>2. At(Shell, "out") /\ UNCHANGED <<ktable, state, call, orphans, unpaired, fault>>
  BY DEF kshell_install_failed
<1>3. /\ dev \in Res /\ res[dev].kind = "free"
      /\ Outside \in [Res -> Nat] /\ Outside[dev] = 0 /\ leaked[dev] = 0
  BY FreeIsUnnamed DEF FreeRes
<1>4. /\ leaked' \in [Res -> Nat]
      /\ \A r \in Res : leaked'[r] = IF r = dev THEN 1 ELSE leaked[r]
  <2>1. leaked \in [Res -> Nat]
    BY DEF Shape
  <2> QED BY <1>1, <1>3, <2>1
<1>5. Shape'
  BY <1>2, <1>4 DEF Shape
<1>6. /\ Locals' /\ Children' /\ Outside' \in [Res -> Nat]
      /\ \A x \in Procs : Closing(x)' = Closing(x)
      /\ \A r \in Res : /\ Outside'[r] = Outside[r] - leaked[r] + leaked'[r]
                        /\ leaked[r] \in Nat /\ leaked'[r] \in Nat
  <2>1. /\ Locals' /\ Children' /\ Outside' \in [Res -> Nat]
        /\ \A x \in Procs : Closing(x)' = Closing(x)
        /\ \A r \in Res :
           /\ Outside'[r] = Outside[r]
                - (IF ktable[Shell][STDDIR] = r THEN 1 ELSE 0)
                + (IF ktable'[Shell][STDDIR] = r THEN 1 ELSE 0)
                - leaked[r] + leaked'[r]
           /\ leaked[r] \in Nat /\ leaked'[r] \in Nat
    BY <1>2, <1>5, QuietStep, ObjectsAssumption
  <2>2. ktable' = ktable
    BY <1>2
  <2> QED BY <1>3, <2>1, <2>2
<1>7. \A r \in Res : Outside'[r] = Outside[r] + (IF r = dev THEN 1 ELSE 0)
  BY <1>3, <1>4, <1>6
<1>8. res' = fs_dirent_new(res, dev, "device", None)
  BY <1>1 DEF fs_dirent_new, Addref
<1>9. Memory(res') /\ Fits(res', Outside') /\ Calm(res, res')
  <2> DEFINE e == Outside
             f == Outside'
             g == res'
  <2>1. /\ e \in [Res -> Nat] /\ f \in [Res -> Nat] /\ Fits(res, e) /\ "device" \in Kinds
        /\ \A r \in Res : f[r] = e[r] + (IF r = dev THEN 1 ELSE 0)
        /\ g = fs_dirent_new(res, dev, "device", None)
    BY <1>3, <1>6, <1>7, <1>8 DEF Sound, Kinds
  <2> HIDE DEF e, f, g
  <2>2. Memory(g) /\ Fits(g, f) /\ Calm(res, g)
    BY <1>3, <2>1, NewFits
  <2> QED BY <2>2 DEF f, g
<1>10. Shell \in Procs
  BY ObjectsAssumption
<1> QED BY <1>2, <1>5, <1>6, <1>9, <1>10, AloneCalm

LEMMA TwoNames ==
  ASSUME Memory(res), Shape, Sound, NEW p \in Procs, NEW i \in FDs, NEW j \in FDs, i # j,
         NEW r \in Res, Name(p, i) = r, Name(p, j) = r
  PROVE  Outside \in [Res -> Nat] /\ Outside[r] > 1
<1>1. Outside \in [Res -> Nat]
  BY FreeIsUnnamed
<1>2. IsFiniteSet(Entries(r))
  <2>1. IsFiniteSet(FDs) /\ IsFiniteSet(Procs)
    BY ObjectsAssumption, FS_Interval DEF FDs
  <2> QED BY <2>1, FS_Product, FS_Subset DEF Entries
<1>3. <<p, i>> \in Entries(r) /\ <<p, j>> \in Entries(r)
  BY ObjectsAssumption DEF Name, Entries
<1> DEFINE A == Entries(r) \ {<<p, i>>}
<1>4. /\ IsFiniteSet(A) /\ Cardinality(A) = Cardinality(Entries(r)) - 1
  BY <1>2, <1>3, FS_RemoveElement
<1>5. A # {} /\ Cardinality(A) \in Nat /\ Cardinality(Entries(r)) \in Nat
  BY <1>2, <1>3, <1>4, FS_CardinalityType
<1>6. Cardinality(A) # 0
  BY <1>4, <1>5, FS_EmptySet
<1>7. leaked[r] \in Nat /\ Cardinality(Walking(r)) \in Nat
  <2>1. IsFiniteSet(1 .. MaxParts) /\ IsFiniteSet(Procs)
    BY ObjectsAssumption, FS_Interval
  <2>2. IsFiniteSet(Walking(r))
    BY <2>1, FS_Product, FS_Subset DEF Walking
  <2> QED BY <2>2, FS_CardinalityType DEF Shape
<1>8. Outside[r] = Cardinality(Entries(r)) + Cardinality(Walking(r)) + leaked[r]
  BY DEF Outside
<1> QED BY <1>1, <1>4, <1>5, <1>6, <1>7, <1>8

LEMMA CloseSafe ==
  ASSUME Memory(res), Shape, Sound, NEW p \in Procs, At(p, "out"), NEW fd \in FDs,
         ktable[p][fd] # None, NEW copy \in FDs \cup {-1}, copy # fd,
         copy # -1 => ktable[p][copy] # None,
         kobject_close(p, fd, copy), UNCHANGED <<state, history, fault>>
  PROVE  IInv'
<1>1. PICK r \in Res : r = ktable[p][fd]
  BY DEF Shape
<1>2. /\ call[p].at = "out" /\ Runs(p)
      /\ UNCHANGED <<state, leaked, orphans, unpaired, fault>>
  BY DEF At, history
<1>3. /\ \A i \in FDs : Name(p, i) = ktable[p][i]
      /\ \A x \in Res : Took(p, x) = 0
      /\ Closing(p) = None
  BY <1>2, OutOfCalls
<1>4. Outside \in [Res -> Nat] /\ Outside[r] > 0 /\ res[r].refs > 0
  BY <1>1, <1>2, EntryHasRefs
<1>5. CASE OnDisk(r) /\ res[r].refs = 1
  <2> DEFINE c == [Idle EXCEPT !.at = "closing", !.fd = fd, !.copy = copy]
  <2>1. res' = [res EXCEPT ![r].refs = 0] /\ call' = [call EXCEPT ![p] = c] /\ ktable' = ktable
    BY <1>1, <1>5 DEF kobject_close
  <2>2. c \in Call /\ c.at = "closing" /\ c.fd = fd /\ c.copy = copy
    BY IdleIsCall DEF Call
  <2>3. call' \in [Procs -> Call] /\ call'[p] = c /\ \A x \in Procs \ {p} : call'[x] = call[x]
    <3>1. call \in [Procs -> Call]
      BY DEF Shape
    <3> HIDE DEF c
    <3> QED BY <2>1, <2>2, <3>1
  <2> HIDE DEF c
  <2>4. Shape'
    BY <1>2, <2>1, <2>3 DEF Shape
  <2>5. Local(p)'
    BY <1>2, <2>1, <2>2, <2>3 DEF Local, Rests, Runs, WalkOK, CloseOK, At
  <2>6. /\ \A j \in FDs : Name(p, j)' = IF j = fd THEN None ELSE Name(p, j)
        /\ \A x \in Res : Took(p, x)' = 0
        /\ Closing(p)' = r
    BY <1>1, <1>3, <2>1, <2>2, <2>3 DEF Name, Closed, Took, At, Closing
  <2>7. /\ Locals' /\ Children' /\ Outside' \in [Res -> Nat]
        /\ \A x \in Procs \ {p} : Closing(x)' = Closing(x)
        /\ \A x \in Res : Outside'[x] = Outside[x] - (IF x = r THEN 1 ELSE 0)
    <3>1. /\ \A x \in Procs \ {p} :
               call'[x] = call[x] /\ ktable'[x] = ktable[x] /\ state'[x] = state[x]
          /\ \A j \in FDs \ {fd} : Name(p, j)' = Name(p, j)
          /\ state'[p] = state[p] /\ leaked' = leaked /\ call'[p].at \notin Loads
      BY <1>2, <2>1, <2>2, <2>3, <2>6 DEF Loads
    <3>2. /\ Locals' /\ Children' /\ Outside' \in [Res -> Nat]
          /\ \A x \in Procs \ {p} : Closing(x)' = Closing(x)
          /\ \A x \in Res :
               /\ Outside'[x] = Outside[x]
                    - (IF Name(p, fd) = x THEN 1 ELSE 0) + (IF Name(p, fd)' = x THEN 1 ELSE 0)
                    - Took(p, x) + Took(p, x)' - leaked[x] + leaked'[x]
               /\ leaked[x] \in Nat
      BY <2>4, <2>5, <3>1, Alone
    <3>3. ASSUME NEW x \in Res
          PROVE  Outside'[x] = Outside[x] - (IF x = r THEN 1 ELSE 0)
      <4>1. Name(p, fd) = r /\ Name(p, fd)' = None /\ None # x
        BY <1>1, <1>3, <2>6, ObjectsAssumption
      <4>2. Took(p, x) = 0 /\ Took(p, x)' = 0 /\ leaked'[x] = leaked[x] /\ Outside[x] \in Nat
        BY <1>3, <1>4, <2>6, <3>1
      <4> QED BY <3>2, <4>1, <4>2
    <3> QED BY <3>2, <3>3
  <2>8. /\ Memory(res') /\ Fits(res', Outside') /\ Spent(res', r) /\ ~Spent(res, r)
        /\ \A x \in Res \ {r} : res'[x] = res[x]
    <3> DEFINE f == Outside'
               g == res'
    <3>1. /\ f \in [Res -> Nat] /\ \A x \in Res : f[x] = Outside[x] - (IF x = r THEN 1 ELSE 0)
          /\ g = Last(res, r) /\ Fits(res, Outside)
      BY <2>1, <2>7 DEF Sound, Last
    <3> HIDE DEF f, g
    <3>2. /\ Memory(g) /\ Fits(g, f) /\ Spent(g, r) /\ ~Spent(res, r)
          /\ \A x \in Res \ {r} : g[x] = res[x]
      BY <1>4, <1>5, <3>1, LastFits
    <3> QED BY <3>2 DEF f, g
  <2>9. Saving'
    <3>1. \A x \in Procs \ {p} : Closing(x) # None =>
            /\ Closing(x) \in Res /\ Spent(res, Closing(x)) /\ Closing(x) # r
            /\ Spent(res', Closing(x))
      <4>1. SUFFICES ASSUME NEW x \in Procs \ {p}, Closing(x) # None
                     PROVE  /\ Closing(x) \in Res /\ Spent(res, Closing(x)) /\ Closing(x) # r
                            /\ Spent(res', Closing(x))
        OBVIOUS
      <4>2. Closing(x) \in Res
        BY <4>1 DEF Closing, Shape, Call
      <4>3. Spent(res, Closing(x))
        BY <4>1 DEF Sound, Saving
      <4>4. res'[Closing(x)] = res[Closing(x)] /\ Closing(x) # r
        BY <2>8, <4>2, <4>3
      <4> QED BY <4>2, <4>3, <4>4 DEF Spent
    <3>2. ASSUME NEW x \in Procs, NEW y \in Procs \ {x}, Closing(x)' # None
          PROVE  Spent(res', Closing(x)') /\ Closing(y)' # Closing(x)'
      <4>1. CASE x = p
        <5>1. Closing(x)' = r /\ Closing(y)' = Closing(y) /\ Closing(y) # r
          BY <2>6, <2>7, <3>1, <4>1, ObjectsAssumption
        <5> QED BY <2>8, <5>1
      <4>2. CASE x # p
        <5>1. Closing(x)' = Closing(x)
          BY <2>7, <4>2
        <5>2. Spent(res', Closing(x)) /\ Closing(x) # r
          BY <3>1, <3>2, <4>2, <5>1
        <5>3. Closing(y)' # Closing(x)
          <6>1. CASE y = p
            BY <2>6, <5>2, <6>1
          <6>2. CASE y # p
            BY <2>7, <3>2, <5>1, <6>2 DEF Sound, Saving
          <6> QED BY <6>1, <6>2
        <5> QED BY <5>1, <5>2, <5>3
      <4> QED BY <4>1, <4>2
    <3>3. ASSUME NEW x \in Procs, Closing(x)' # None
          PROVE  Spent(res', Closing(x)')
      <4>1. CASE x = p
        BY <2>6, <2>8, <4>1
      <4>2. CASE x # p
        BY <2>7, <3>1, <3>3, <4>2
      <4> QED BY <4>1, <4>2
    <3> QED BY <3>2, <3>3 DEF Saving, Spent
  <2>10. Kept'
    <3>1. SUFFICES ASSUME NEW x \in Res, Spent(res', x)
                   PROVE  x \in orphans' \/ \E q \in Procs : Closing(q)' = x
      BY DEF Kept, Spent
    <3>2. CASE x = r
      BY <2>6, <3>2
    <3>3. CASE x # r
      <4>1. Spent(res, x)
        BY <2>8, <3>1, <3>3 DEF Spent
      <4>2. x \in orphans \/ \E q \in Procs : Closing(q) = x
        BY <4>1 DEF Sound, Kept
      <4>3. x \in Res /\ Closing(p) # x
        BY <1>3, ObjectsAssumption
      <4> QED BY <1>2, <2>7, <4>2, <4>3
    <3> QED BY <3>2, <3>3
  <2>11. TypeOK'
    <3>1. Memory(res)'
      BY <2>8 DEF Memory
    <3>2. (Memory(res) /\ Shape => TypeOK)'
      BY TypeIs, PTL
    <3> QED BY <2>4, <3>1, <3>2
  <2>12. Fits(res, Outside)'
    BY <2>8 DEF Fits, HeldBy
  <2> QED BY <2>7, <2>9, <2>10, <2>11, <2>12 DEF IInv, Sound
<1>6. CASE ~(OnDisk(r) /\ res[r].refs = 1)
  <2>1. PICK n \in Res \cup {None} : n = IF copy = -1 THEN None ELSE ktable[p][copy]
    BY DEF Shape
  <2>2. /\ ktable' = [ktable EXCEPT ![p][fd] = n] /\ call' = call
        /\ res' = IF copy = -1 THEN Release(res, r) ELSE Addref(Release(res, r), n)
    <3>1. ktable \in [Procs -> [FDs -> Res \cup {None}]]
      BY DEF Shape
    <3>2. ktable' = [ktable EXCEPT ![p][fd] = n] /\ call' = call
      BY <1>1, <1>6, <2>1 DEF kobject_close
    <3>3. res' = IF copy = -1 THEN Release(res, r) ELSE Addref(Release(res, r), [ktable EXCEPT ![p][fd] = n][p][fd])
      BY <1>1, <1>6, <2>1 DEF kobject_close
    <3>4. [ktable EXCEPT ![p][fd] = n][p][fd] = n
      BY <3>1
    <3> QED BY <3>2, <3>3, <3>4
  <2>3. /\ ktable' \in [Procs -> [FDs -> Res \cup {None}]]
        /\ \A x \in Procs \ {p} : ktable'[x] = ktable[x]
        /\ \A j \in FDs \ {fd} : ktable'[p][j] = ktable[p][j]
        /\ ktable'[p][fd] = n
    <3>1. ktable \in [Procs -> [FDs -> Res \cup {None}]]
      BY DEF Shape
    <3> QED BY <2>2, <3>1
  <2>4. Shape'
    BY <1>2, <2>2, <2>3 DEF Shape
  <2>5. /\ Locals' /\ Children' /\ Outside' \in [Res -> Nat]
        /\ \A x \in Procs : Closing(x)' = Closing(x)
        /\ \A x \in Res : Outside'[x] = Outside[x] - (IF x = r THEN 1 ELSE 0)
                                                   + (IF x = n THEN 1 ELSE 0)
    <3>1. /\ Locals' /\ Children' /\ Outside' \in [Res -> Nat]
          /\ \A x \in Procs : Closing(x)' = Closing(x)
          /\ \A x \in Res :
               /\ Outside'[x] = Outside[x]
                    - (IF ktable[p][fd] = x THEN 1 ELSE 0) + (IF ktable'[p][fd] = x THEN 1 ELSE 0)
                    - leaked[x] + leaked'[x]
               /\ leaked[x] \in Nat /\ leaked'[x] \in Nat
      BY <1>2, <2>2, <2>3, <2>4, QuietStep
    <3>2. ASSUME NEW x \in Res
          PROVE  Outside'[x] = Outside[x] - (IF x = r THEN 1 ELSE 0) + (IF x = n THEN 1 ELSE 0)
      <4>1. ktable[p][fd] = r /\ ktable'[p][fd] = n /\ leaked'[x] = leaked[x] /\ Outside[x] \in Nat
        BY <1>1, <1>2, <1>4, <2>3
      <4> QED BY <3>1, <4>1
    <3> QED BY <3>1, <3>2
  <2> DEFINE e == [x \in Res |-> Outside[x] - (IF x = r THEN 1 ELSE 0)]
             h == Release(res, r)
  <2>6. e \in [Res -> Nat] /\ \A x \in Res : e[x] = Outside[x] - (IF x = r THEN 1 ELSE 0)
    BY <1>4
  <2> HIDE DEF e, h
  <2>7. Memory(h) /\ Fits(h, e) /\ Calm(res, h)
    BY <1>4, <2>6, ReleaseFits DEF Sound, h
  <2>8. Memory(res') /\ Fits(res', Outside') /\ Calm(res, res')
    <3>1. CASE copy = -1
      <4>1. \A x \in Res : Outside'[x] = e[x]
        BY <1>4, <2>1, <2>5, <2>6, <3>1, ObjectsAssumption
      <4>2. res' = h
        BY <2>2, <3>1 DEF h
      <4> QED BY <2>5, <2>6, <2>7, <4>1, <4>2, SameFits
    <3>2. CASE copy # -1
      <4>1. copy \in FDs /\ n \in Res /\ n = ktable[p][copy]
        BY <2>1, <3>2
      <4>2. e[n] > 0
        <5>1. CASE n = r
          <6>1. Name(p, fd) = r /\ Name(p, copy) = r
            BY <1>1, <1>3, <4>1, <5>1
          <6>2. Outside[r] > 1
            BY <4>1, <6>1, TwoNames
          <6> QED BY <1>4, <2>6, <5>1, <6>2
        <5>2. CASE n # r
          <6>1. Outside[n] > 0
            BY <1>2, <3>2, <4>1, EntryHasRefs
          <6> QED BY <1>4, <2>6, <4>1, <5>2, <6>1
        <5> QED BY <5>1, <5>2
      <4>3. h[n].refs > 0
        BY <2>6, <2>7, <4>1, <4>2, HeldHasRefs
      <4>4. \A x \in Res : Outside'[x] = e[x] + (IF x = n THEN 1 ELSE 0)
        BY <1>4, <2>5, <2>6
      <4>5. res' = Addref(h, n)
        BY <2>2, <3>2 DEF h
      <4>6. Memory(Addref(h, n)) /\ Fits(Addref(h, n), Outside') /\ Calm(h, Addref(h, n))
        BY <2>5, <2>6, <2>7, <4>1, <4>3, <4>4, AddrefFits
      <4>7. Calm(res, Addref(h, n))
        BY <2>7, <4>6 DEF Calm, Spent
      <4> QED BY <4>5, <4>6, <4>7
    <3> QED BY <3>1, <3>2
  <2> QED BY <1>2, <2>4, <2>5, <2>8, AloneCalm
<1> QED BY <1>5, <1>6

LEMMA ObjectCloseSafe ==
  ASSUME Memory(res), Shape, Sound, NEW p \in Procs, sys_object_close(p)
  PROVE  IInv'
<1>1. PICK fd \in FDs : ktable[p][fd] # None /\ kobject_close(p, fd, -1)
  BY DEF sys_object_close
<1>2. At(p, "out") /\ UNCHANGED <<state, history, fault>>
  BY DEF sys_object_close
<1>3. -1 \in FDs \cup {-1} /\ -1 # fd
  BY ObjectsAssumption DEF FDs
<1> QED BY <1>1, <1>2, <1>3, CloseSafe

LEMMA SavedSafe ==
  ASSUME Memory(res), Shape, Sound, NEW p \in Procs, close_saved(p)
  PROVE  IInv'
<1>1. At(p, "closing") /\ call' = [call EXCEPT ![p].at = "clearing"]
      /\ UNCHANGED <<ktable, state, leaked, orphans, unpaired, fault>>
  BY DEF close_saved, history
<1>2. PICK fd \in FDs : fd = call[p].fd
  BY DEF Shape, Call
<1>3. CloseOK(p) /\ call[p] \in Call /\ call[p].at = "closing" /\ Runs(p)
  BY <1>1 DEF Sound, Locals, Local, Shape, At
<1>4. PICK r \in Res : r = ktable[p][fd]
  BY <1>2, <1>3 DEF CloseOK, Shape
<1>5. Closing(p) = r /\ Spent(res, r) /\ \A x \in Procs \ {p} : Closing(x) # r
  <2>1. Closing(p) = r /\ r # None
    BY <1>2, <1>3, <1>4, ObjectsAssumption DEF Closing
  <2> QED BY <2>1 DEF Sound, Saving
<1> DEFINE c == [call[p] EXCEPT !.at = "clearing"]
<1>6. c \in Call /\ c.at = "clearing" /\ c.fd = fd /\ c.copy = call[p].copy
  BY <1>2, <1>3 DEF Call
<1>7. call' \in [Procs -> Call] /\ call'[p] = c /\ \A x \in Procs \ {p} : call'[x] = call[x]
  <2>1. call' = [call EXCEPT ![p] = c] /\ call \in [Procs -> Call]
    BY <1>1 DEF Shape
  <2> HIDE DEF c
  <2> QED BY <1>6, <2>1
<1> HIDE DEF c
<1>8. Shape'
  BY <1>1, <1>7 DEF Shape
<1>9. Local(p)'
  BY <1>1, <1>2, <1>3, <1>6, <1>7 DEF Local, Rests, Runs, WalkOK, CloseOK, At
<1>10. /\ \A j \in FDs : Name(p, j)' = Name(p, j)
       /\ \A x \in Res : Took(p, x) = 0 /\ Took(p, x)' = 0
       /\ Closing(p)' = None
  BY <1>1, <1>2, <1>3, <1>6, <1>7 DEF Name, Closed, Took, At, Closing
<1>11. /\ Locals' /\ Children'
       /\ Outside \in [Res -> Nat] /\ Outside' \in [Res -> Nat]
       /\ \A x \in Procs \ {p} : Closing(x)' = Closing(x)
       /\ \A x \in Res : Outside'[x] = Outside[x]
  <2>1. /\ \A x \in Procs \ {p} :
             call'[x] = call[x] /\ ktable'[x] = ktable[x] /\ state'[x] = state[x]
        /\ state'[p] = state[p] /\ leaked' = leaked /\ call'[p].at \notin Loads
    BY <1>1, <1>6, <1>7 DEF Loads
  <2>2. /\ Locals' /\ Children' /\ Outside \in [Res -> Nat] /\ Outside' \in [Res -> Nat]
        /\ \A x \in Procs \ {p} : Closing(x)' = Closing(x)
        /\ \A x \in Res :
             /\ Outside'[x] = Outside[x]
                  - (IF Name(p, fd) = x THEN 1 ELSE 0) + (IF Name(p, fd)' = x THEN 1 ELSE 0)
                  - Took(p, x) + Took(p, x)' - leaked[x] + leaked'[x]
             /\ leaked[x] \in Nat
    BY <1>8, <1>9, <1>10, <2>1, Alone
  <2>3. ASSUME NEW x \in Res PROVE Outside'[x] = Outside[x]
    <3>1. /\ Name(p, fd)' = Name(p, fd) /\ Took(p, x) = 0 /\ Took(p, x)' = 0
          /\ leaked'[x] = leaked[x] /\ Outside[x] \in Nat
      BY <1>10, <2>1, <2>2
    <3> QED BY <2>2, <3>1
  <2> QED BY <2>2, <2>3
<1>12. /\ Memory(res') /\ Fits(res', Outside) /\ res'[r] = Free
       /\ \A x \in Res \ {r} : (Spent(res, x) => res'[x] = res[x]) /\ (Spent(res', x) => Spent(res, x))
  <2>1. Outside[r] = 0 /\ HeldBy(res, r) = {}
    BY <1>5, <1>11, HeldHasRefs DEF Sound, Spent
  <2>2. \A x \in Res \ {r} : res[x].refs = Cardinality(HeldBy(res, x)) + Outside[x]
    BY DEF Sound, Fits
  <2> DEFINE g == res'
  <2>3. g = Destroy(res, r)
    BY <1>2, <1>4 DEF close_saved
  <2> HIDE DEF g
  <2>4. /\ Memory(g) /\ Fits(g, Outside) /\ g[r] = Free
        /\ \A x \in Res \ {r} : (Spent(res, x) => g[x] = res[x]) /\ (Spent(g, x) => Spent(res, x))
    BY <1>11, <2>1, <2>2, <2>3, DestroyFits
  <2> QED BY <2>4 DEF g
<1>13. Saving'
  <2>1. SUFFICES ASSUME NEW x \in Procs, Closing(x)' # None
                 PROVE  /\ Spent(res', Closing(x)')
                        /\ \A y \in Procs \ {x} : Closing(y)' # Closing(x)'
    BY DEF Saving, Spent
  <2>2. x # p /\ Closing(x)' = Closing(x)
    BY <1>10, <1>11, <2>1
  <2>3. Closing(x) \in Res
    BY <2>1, <2>2 DEF Closing, Shape, Call
  <2>4. /\ Spent(res, Closing(x)) /\ Closing(x) # r
        /\ \A y \in Procs \ {x} : Closing(y) # Closing(x)
    BY <1>5, <2>1, <2>2 DEF Sound, Saving
  <2>5. Spent(res', Closing(x))
    BY <1>12, <2>3, <2>4 DEF Spent
  <2>6. ASSUME NEW y \in Procs \ {x} PROVE Closing(y)' # Closing(x)
    BY <1>10, <1>11, <2>1, <2>2, <2>4
  <2> QED BY <2>2, <2>5, <2>6
<1>14. Kept'
  <2>1. SUFFICES ASSUME NEW x \in Res, Spent(res', x)
                 PROVE  x \in orphans' \/ \E q \in Procs : Closing(q)' = x
    BY DEF Kept, Spent
  <2>2. x # r
    BY <1>12, <2>1 DEF Spent, Free
  <2>3. x \in orphans \/ \E q \in Procs : Closing(q) = x
    BY <1>12, <2>1, <2>2 DEF Sound, Kept
  <2> QED BY <1>1, <1>5, <1>11, <2>2, <2>3
<1>15. Fits(res, Outside)'
  <2>1. \A x \in Res : res'[x].refs = Cardinality(HeldBy(res', x)) + Outside'[x]
    BY <1>11, <1>12 DEF Fits
  <2> QED BY <2>1 DEF Fits, HeldBy
<1>16. TypeOK'
  <2>1. Memory(res)'
    BY <1>12 DEF Memory
  <2>2. (Memory(res) /\ Shape => TypeOK)'
    BY TypeIs, PTL
  <2> QED BY <1>8, <2>1, <2>2
<1> QED BY <1>11, <1>13, <1>14, <1>15, <1>16 DEF IInv, Sound

LEMMA ClearSafe ==
  ASSUME Memory(res), Shape, Sound, NEW p \in Procs, close_clear(p)
  PROVE  IInv'
<1>1. /\ At(p, "clearing") /\ call' = [call EXCEPT ![p] = Idle]
      /\ UNCHANGED <<state, leaked, orphans, unpaired, fault>>
  BY DEF close_clear, Return, history
<1>2. PICK fd \in FDs : fd = call[p].fd
  BY DEF Shape, Call
<1>3. CloseOK(p) /\ call[p] \in Call /\ call[p].at = "clearing" /\ Runs(p)
  BY <1>1 DEF Sound, Locals, Local, Shape, At
<1>4. PICK n \in Res \cup {None} : n = IF call[p].copy = -1 THEN None ELSE ktable[p][call[p].copy]
  BY <1>3 DEF Shape, Call
<1>5. ktable' = [ktable EXCEPT ![p][fd] = n] /\ res' = Addref(res, n)
  BY <1>2, <1>4 DEF close_clear
<1>6. /\ call' \in [Procs -> Call] /\ call'[p] = Idle
      /\ \A x \in Procs \ {p} : call'[x] = call[x]
      /\ call'[p].at \notin Loads
      /\ Rests(p)' /\ WalkOK(p)' /\ CloseOK(p)'
      /\ \A i \in FDs : Name(p, i)' = ktable'[p][i]
      /\ \A r \in Res : Took(p, r)' = 0
      /\ Closing(p)' = None
  BY <1>1, Returned
<1>7. /\ ktable' \in [Procs -> [FDs -> Res \cup {None}]]
      /\ \A x \in Procs \ {p} : ktable'[x] = ktable[x]
      /\ \A j \in FDs : ktable'[p][j] = IF j = fd THEN n ELSE ktable[p][j]
  <2>1. ktable \in [Procs -> [FDs -> Res \cup {None}]]
    BY DEF Shape
  <2> QED BY <1>5, <2>1
<1>8. Shape'
  BY <1>1, <1>6, <1>7 DEF Shape
<1>9. Local(p)'
  BY <1>1, <1>3, <1>6 DEF Local, Runs
<1>10. /\ \A j \in FDs : Name(p, j) = IF j = fd THEN None ELSE ktable[p][j]
       /\ \A x \in Res : Took(p, x) = 0
       /\ Closing(p) = None
  BY <1>2, <1>3 DEF Name, Closed, Took, At, Closing
<1>11. /\ Locals' /\ Children'
       /\ Outside \in [Res -> Nat] /\ Outside' \in [Res -> Nat]
       /\ \A x \in Procs \ {p} : Closing(x)' = Closing(x)
       /\ \A x \in Res : Outside'[x] = Outside[x] + (IF x = n THEN 1 ELSE 0)
  <2>1. /\ \A x \in Procs \ {p} :
             call'[x] = call[x] /\ ktable'[x] = ktable[x] /\ state'[x] = state[x]
        /\ \A j \in FDs \ {fd} : Name(p, j)' = Name(p, j)
        /\ state'[p] = state[p] /\ leaked' = leaked
    BY <1>1, <1>6, <1>7, <1>10
  <2>2. /\ Locals' /\ Children' /\ Outside \in [Res -> Nat] /\ Outside' \in [Res -> Nat]
        /\ \A x \in Procs \ {p} : Closing(x)' = Closing(x)
        /\ \A x \in Res :
             /\ Outside'[x] = Outside[x]
                  - (IF Name(p, fd) = x THEN 1 ELSE 0) + (IF Name(p, fd)' = x THEN 1 ELSE 0)
                  - Took(p, x) + Took(p, x)' - leaked[x] + leaked'[x]
             /\ leaked[x] \in Nat
    BY <1>6, <1>8, <1>9, <2>1, Alone
  <2>3. ASSUME NEW x \in Res PROVE Outside'[x] = Outside[x] + (IF x = n THEN 1 ELSE 0)
    <3>1. Name(p, fd) # x /\ Name(p, fd)' = n
      BY <1>6, <1>7, <1>10, ObjectsAssumption
    <3>2. Took(p, x) = 0 /\ Took(p, x)' = 0 /\ leaked'[x] = leaked[x] /\ Outside[x] \in Nat
      BY <1>6, <1>10, <2>1, <2>2
    <3> QED BY <2>2, <3>1, <3>2
  <2> QED BY <2>2, <2>3
<1>12. Memory(res') /\ Fits(res', Outside') /\ Calm(res, res')
  <2>1. CASE n = None
    <3>1. res' = res
      BY <1>5, <2>1 DEF Addref
    <3>2. \A x \in Res : Outside'[x] = Outside[x]
      BY <1>11, <2>1, ObjectsAssumption
    <3> QED BY <1>11, <3>1, <3>2, SameFits DEF Sound
  <2>2. CASE n # None
    <3>1. call[p].copy \in FDs /\ call[p].copy # fd /\ n = ktable[p][call[p].copy] /\ n \in Res
      BY <1>2, <1>3, <1>4, <2>2 DEF CloseOK, Call
    <3>2. Name(p, call[p].copy) = n
      BY <1>10, <3>1
    <3>3. res[n].refs > 0
      BY <3>1, <3>2, NamedHasRefs
    <3>4. Memory(Addref(res, n)) /\ Fits(Addref(res, n), Outside') /\ Calm(res, Addref(res, n))
      BY <1>11, <3>1, <3>3, AddrefFits DEF Sound
    <3> QED BY <1>5, <3>4
  <2> QED BY <2>1, <2>2
<1> QED BY <1>1, <1>6, <1>8, <1>10, <1>11, <1>12, AloneCalm

\* Only the fault is new.
LEMMA FaultSafe ==
  ASSUME Memory(res), Shape, Sound, UNCHANGED <<res, ktable, state, call, history>>,
         fault' \in {"none", "null_copy", "past_table", "freed_kobject"}
  PROVE  IInv'
<1>0. UNCHANGED <<leaked, orphans, unpaired>>
  BY DEF history
<1>1. Shape' /\ Memory(res)'
  BY <1>0 DEF Shape, Memory
<1>2. TypeOK'
  <2>1. (Memory(res) /\ Shape => TypeOK)'
    BY TypeIs, PTL
  <2> QED BY <1>1, <2>1
<1>3. \A p \in Procs : /\ Local(p) => Local(p)'
                       /\ Closing(p)' = Closing(p)
  BY OtherSteady
<1>4. Locals' /\ Saving' /\ Kept' /\ Children'
  <2>1. Locals'
    BY <1>3 DEF Sound, Locals
  <2>2. Children'
    BY DEF Sound, Children
  <2>3. Calm(res, res')
    BY DEF Calm
  <2>4. Saving' /\ Kept'
    BY <1>0, <1>3, <2>3, SavingSteady DEF Sound
  <2> QED BY <2>1, <2>2, <2>4
<1>5. Outside' = Outside
  BY <1>0 DEF Outside, Entries, Closed, Walking, At, Runs
<1>6. Fits(res, Outside)'
  BY <1>5 DEF Sound, Fits, HeldBy
<1> QED BY <1>2, <1>4, <1>6 DEF IInv, Sound

LEMMA ObjectCopySafe ==
  ASSUME Memory(res), Shape, Sound, NEW p \in Procs, fault = "none", sys_object_copy(p)
  PROVE  IInv'
<1>1. /\ At(p, "out") /\ UNCHANGED <<state, history>>
  BY DEF sys_object_copy
<1>2. PICK src \in FDs, dst \in 0 .. NFds :
       /\ ktable[p][src] # None
       /\ \/ /\ copy_fault(p, src, dst)
             /\ UNCHANGED <<res, ktable, call>>
          \/ /\ src # dst /\ dst # NFds
             /\ IF ktable[p][dst] # None THEN kobject_close(p, dst, src)
                ELSE /\ ktable' = [ktable EXCEPT ![p][dst] = ktable[p][src]]
                     /\ res' = Addref(res, ktable[p][src])
                     /\ UNCHANGED call
             /\ UNCHANGED fault
  BY DEF sys_object_copy
<1>3. CASE copy_fault(p, src, dst) /\ UNCHANGED <<res, ktable, call>>
  <2>1. fault' \in {"none", "null_copy", "past_table", "freed_kobject"}
    BY <1>3 DEF copy_fault
  <2> QED BY <1>1, <1>3, <2>1, FaultSafe
<1>4. CASE src # dst /\ dst # NFds /\ UNCHANGED fault /\ ktable[p][dst] # None
           /\ kobject_close(p, dst, src)
  <2>1. dst \in FDs
    BY <1>4, ObjectsAssumption DEF FDs
  <2> QED BY <1>1, <1>2, <1>4, <2>1, CloseSafe
<1>5. CASE /\ src # dst /\ dst # NFds /\ UNCHANGED fault /\ ktable[p][dst] = None
           /\ ktable' = [ktable EXCEPT ![p][dst] = ktable[p][src]]
           /\ res' = Addref(res, ktable[p][src])
           /\ UNCHANGED call
  <2>1. dst \in FDs
    BY <1>5, ObjectsAssumption DEF FDs
  <2>2. UNCHANGED <<state, call, leaked, orphans, unpaired, fault>>
    BY <1>1, <1>5 DEF history
  <2>3. PICK n \in Res : n = ktable[p][src]
    BY <1>2 DEF Shape
  <2>4. /\ ktable' \in [Procs -> [FDs -> Res \cup {None}]]
        /\ \A x \in Procs \ {p} : ktable'[x] = ktable[x]
        /\ \A j \in FDs \ {dst} : ktable'[p][j] = ktable[p][j]
        /\ ktable'[p][dst] = n
    <3>1. ktable \in [Procs -> [FDs -> Res \cup {None}]]
      BY DEF Shape
    <3> QED BY <1>5, <2>1, <2>3, <3>1
  <2>5. Shape'
    BY <2>2, <2>4 DEF Shape
  <2>6. /\ Locals' /\ Children'
        /\ \A x \in Procs : Closing(x)' = Closing(x)
        /\ Outside \in [Res -> Nat] /\ Outside' \in [Res -> Nat]
        /\ \A r \in Res :
             /\ Outside'[r] = Outside[r]
                  - (IF ktable[p][dst] = r THEN 1 ELSE 0) + (IF ktable'[p][dst] = r THEN 1 ELSE 0)
                  - leaked[r] + leaked'[r]
             /\ leaked[r] \in Nat /\ leaked'[r] \in Nat
    BY <1>1, <2>1, <2>2, <2>4, <2>5, QuietStep
  <2>7. \A r \in Res : Outside'[r] = Outside[r] + (IF r = n THEN 1 ELSE 0)
    <3>1. SUFFICES ASSUME NEW r \in Res
                   PROVE  Outside'[r] = Outside[r] + (IF r = n THEN 1 ELSE 0)
      OBVIOUS
    <3>2. ktable[p][dst] # r /\ ktable'[p][dst] = n /\ leaked'[r] = leaked[r] /\ Outside[r] \in Nat
      BY <1>5, <2>2, <2>4, <2>6, ObjectsAssumption
    <3> QED BY <2>6, <3>2
  <2>8. res[n].refs > 0
    BY <1>1, <1>2, <2>3, EntryHasRefs DEF At
  <2>9. Memory(Addref(res, n)) /\ Fits(Addref(res, n), Outside') /\ Calm(res, Addref(res, n))
    BY <2>6, <2>7, <2>8, AddrefFits DEF Sound
  <2>10. res' = Addref(res, n)
    BY <1>5, <2>3
  <2> QED BY <2>2, <2>5, <2>6, <2>9, <2>10, AloneCalm
<1> QED BY <1>2, <1>3, <1>4, <1>5

\* A process that is killed leaves to leaked and orphans what only its call knew of.
LEMMA DeadSafe ==
  ASSUME Memory(res), Shape, Sound, NEW p \in Procs, process_make_dead(p)
  PROVE  IInv'
<1>1. /\ Runs(p) /\ state' = [state EXCEPT ![p] = "dead"]
      /\ leaked' = IF call[p].at # "walk" THEN leaked
                   ELSE [leaked EXCEPT ![call[p].d] = @ + IF call[p].d = call[p].base THEN call[p].dots ELSE 1]
      /\ call' = IF call[p].at = "clearing" THEN call ELSE [call EXCEPT ![p] = Idle]
      /\ UNCHANGED <<res, unpaired, fault>>
  BY DEF process_make_dead
<1>2. PICK fd \in FDs : fd = call[p].fd
  BY DEF Shape, Call
<1>3. /\ call[p].at = "closing" => /\ orphans' = orphans \cup {ktable[p][fd]}
                                   /\ ktable' = [ktable EXCEPT ![p][fd] = None]
      /\ call[p].at # "closing" => orphans' = orphans /\ ktable' = ktable
  BY <1>2 DEF process_make_dead
<1>4. Local(p) /\ call[p] \in Call
  BY DEF Sound, Locals, Shape
<1>5. state' \in [Procs -> {"none", "loading", "live", "dead", "deleting"}]
      /\ state'[p] = "dead" /\ \A x \in Procs \ {p} : state'[x] = state[x]
  BY <1>1 DEF Shape
<1>6. /\ call' \in [Procs -> Call] /\ \A x \in Procs \ {p} : call'[x] = call[x]
      /\ call[p].at = "clearing" => call'[p] = call[p]
      /\ call[p].at # "clearing" => call'[p] = Idle
  <2>1. CASE call[p].at = "clearing"
    BY <1>1, <2>1 DEF Shape
  <2>2. CASE call[p].at # "clearing"
    BY <1>1, <2>2, IdleIsCall DEF Shape
  <2> QED BY <2>1, <2>2
<1>7. /\ ktable' \in [Procs -> [FDs -> Res \cup {None}]]
      /\ \A x \in Procs \ {p} : ktable'[x] = ktable[x]
      /\ \A j \in FDs : ktable'[p][j] = IF call[p].at = "closing" /\ j = fd THEN None ELSE ktable[p][j]
  <2>1. ktable \in [Procs -> [FDs -> Res \cup {None}]]
    BY DEF Shape
  <2>2. CASE call[p].at = "closing"
    BY <1>3, <2>1, <2>2
  <2>3. CASE call[p].at # "closing"
    BY <1>3, <2>1, <2>3
  <2> QED BY <2>2, <2>3
<1>8. call[p].at = "closing" => ktable[p][fd] \in Res /\ Closing(p) = ktable[p][fd]
  BY <1>2, <1>4 DEF Local, CloseOK, Shape, Closing
<1>9. orphans' \in SUBSET Res /\ orphans \subseteq orphans'
  BY <1>3, <1>8 DEF Shape
<1>10. /\ leaked' \in [Res -> Nat]
       /\ \A x \in Res : leaked'[x] = leaked[x] + Took(p, x)
  <2>1. leaked \in [Res -> Nat]
    BY DEF Shape
  <2>2. CASE call[p].at # "walk"
    <3>1. \A x \in Res : Took(p, x) = 0
      BY <2>2 DEF Took, At
    <3> QED BY <1>1, <2>1, <2>2, <3>1
  <2>3. CASE call[p].at = "walk"
    <3>1. At(p, "walk")
      BY <1>1, <2>3 DEF At
    <3>2. call[p].d \in Res /\ call[p].dots \in Nat
      BY <3>1, WalkHas
    <3>3. leaked' = [leaked EXCEPT ![call[p].d] = @ + IF call[p].d = call[p].base THEN call[p].dots ELSE 1]
      BY <1>1, <2>3
    <3>4. \A x \in Res : Took(p, x) = IF x = call[p].d
                           THEN IF x = call[p].base THEN call[p].dots ELSE 1 ELSE 0
      BY <3>1, WalkTook
    <3> QED BY <2>1, <3>2, <3>3, <3>4
  <2> QED BY <2>2, <2>3
<1>11. Shape'
  BY <1>1, <1>5, <1>6, <1>7, <1>9, <1>10 DEF Shape
<1>12. Local(p)'
  <2>1. CASE call[p].at = "clearing"
    <3>1. call'[p] = call[p] /\ state'[p] = "dead" /\ \A j \in FDs : ktable'[p][j] = ktable[p][j]
      BY <1>5, <1>6, <1>7, <2>1
    <3>2. CloseOK(p)'
      BY <1>4, <3>1 DEF Local, CloseOK, Call
    <3> QED BY <2>1, <3>1, <3>2 DEF Local, Rests, WalkOK, Runs, At
  <2>2. CASE call[p].at # "clearing"
    BY <1>5, <1>6, <2>2, IdleIsCall DEF Local, Rests, WalkOK, CloseOK, Runs, At
  <2> QED BY <2>1, <2>2
<1>13. /\ \A j \in FDs : Name(p, j)' = Name(p, j)
       /\ \A x \in Res : Took(p, x)' = 0
       /\ Closing(p)' = None
  <2>1. \A x \in Res : Took(p, x)' = 0
    BY <1>5 DEF Took, At, Runs
  <2>2. CASE call[p].at = "closing"
    <3>1. call'[p].at = "out"
      BY <1>6, <2>2, IdleIsCall
    <3>2. \A j \in FDs : Name(p, j)' = Name(p, j)
      BY <1>2, <1>7, <2>2, <3>1 DEF Name, Closed
    <3> QED BY <2>1, <3>1, <3>2 DEF Closing
  <2>3. CASE call[p].at = "clearing"
    BY <1>6, <1>7, <2>1, <2>3 DEF Name, Closed, Closing
  <2>4. CASE call[p].at \notin {"closing", "clearing"}
    <3>1. call'[p].at = "out"
      BY <1>6, <2>4, IdleIsCall
    <3> QED BY <1>7, <2>1, <2>4, <3>1 DEF Name, Closed, Closing
  <2> QED BY <2>2, <2>3, <2>4
<1>14. /\ Locals' /\ Children'
       /\ Outside \in [Res -> Nat] /\ Outside' \in [Res -> Nat]
       /\ \A x \in Procs \ {p} : Closing(x)' = Closing(x)
       /\ \A x \in Res : Outside'[x] = Outside[x]
  <2>1. /\ \A x \in Procs \ {p} :
             call'[x] = call[x] /\ ktable'[x] = ktable[x] /\ state'[x] = state[x]
        /\ state[p] \notin Loads
    BY <1>1, <1>5, <1>6, <1>7 DEF Loads, Runs
  <2>2. call'[p].at \notin Loads
    BY <1>6, IdleIsCall DEF Loads
  <2>3. /\ Locals' /\ Children' /\ Outside \in [Res -> Nat] /\ Outside' \in [Res -> Nat]
        /\ \A x \in Procs \ {p} : Closing(x)' = Closing(x)
        /\ \A x \in Res :
             /\ Outside'[x] = Outside[x]
                  - (IF Name(p, fd) = x THEN 1 ELSE 0) + (IF Name(p, fd)' = x THEN 1 ELSE 0)
                  - Took(p, x) + Took(p, x)' - leaked[x] + leaked'[x]
             /\ leaked[x] \in Nat /\ Took(p, x) \in Nat
    BY <1>11, <1>12, <1>13, <2>1, <2>2, Alone
  <2>4. ASSUME NEW x \in Res PROVE Outside'[x] = Outside[x]
    <3>1. /\ Name(p, fd)' = Name(p, fd) /\ Took(p, x)' = 0
          /\ leaked'[x] = leaked[x] + Took(p, x) /\ Outside[x] \in Nat
      BY <1>10, <1>13, <2>3
    <3> QED BY <2>3, <3>1
  <2> QED BY <2>3, <2>4
<1>15. Saving'
  <2>1. SUFFICES ASSUME NEW x \in Procs, Closing(x)' # None
                 PROVE  /\ Spent(res', Closing(x)')
                        /\ \A y \in Procs \ {x} : Closing(y)' # Closing(x)'
    BY DEF Saving, Spent
  <2>2. x # p /\ Closing(x)' = Closing(x) /\ res' = res
    BY <1>1, <1>13, <1>14, <2>1
  <2>3. Spent(res, Closing(x)) /\ \A y \in Procs \ {x} : Closing(y) # Closing(x)
    BY <2>1, <2>2 DEF Sound, Saving
  <2> QED BY <1>13, <1>14, <2>1, <2>2, <2>3 DEF Spent
<1>16. Kept'
  <2>1. SUFFICES ASSUME NEW x \in Res, Spent(res', x)
                 PROVE  x \in orphans' \/ \E q \in Procs : Closing(q)' = x
    BY DEF Kept, Spent
  <2>2. x \in orphans \/ \E q \in Procs : Closing(q) = x
    BY <1>1, <2>1 DEF Sound, Kept
  <2>3. Closing(p) = x => x \in orphans'
    BY <1>2, <1>3, ObjectsAssumption DEF Closing
  <2> QED BY <1>9, <1>14, <2>2, <2>3
<1>17. Fits(res, Outside)'
  <2>1. \A x \in Res : res'[x].refs = Cardinality(HeldBy(res', x)) + Outside'[x]
    BY <1>1, <1>14 DEF Sound, Fits, HeldBy
  <2> QED BY <2>1 DEF Fits, HeldBy
<1>18. TypeOK'
  <2>1. Memory(res)'
    BY <1>1 DEF Memory
  <2>2. (Memory(res) /\ Shape => TypeOK)'
    BY TypeIs, PTL
  <2> QED BY <1>11, <2>1, <2>2
<1> QED BY <1>14, <1>15, <1>16, <1>17, <1>18 DEF IInv, Sound

\* A child that takes copies of entries of p.
LEMMA InheritSafe ==
  ASSUME Memory(res), Shape, Shape', Sound, NEW p \in Procs, At(p, "out"),
         NEW q \in Procs, state[q] = "none", NEW m \in [FDs -> FDs \cup {-1}],
         \A fd \in FDs : m[fd] # -1 => ktable[p][m[fd]] # None,
         process_selective_inherit(p, q, m), leaked' = leaked,
         \A x \in Procs \ {p} : call'[x] = call[x], call'[p].at \in {"out", "loading"},
         \A x \in Procs \ {q} : state'[x] = state[x], state'[q] \in {"live", "loading"}
  PROVE  /\ Locals' /\ \A x \in Procs : Closing(x)' = Closing(x)
         /\ Memory(res') /\ Fits(res', Outside') /\ Calm(res, res')
<1> DEFINE Copies(r) == {fd \in FDs : m[fd] # -1 /\ ktable[p][m[fd]] = r}
           n == [r \in Res |-> Cardinality(Copies(r))]
<1>1. p # q /\ call[q].at = "out" /\ call[q] = Idle /\ call[p].at = "out" /\ Runs(p)
  <2>1. p # q /\ call[p].at = "out" /\ Runs(p)
    BY DEF At, Runs
  <2>2. Rests(q)
    BY DEF Sound, Locals, Local
  <2>3. call[q] = Idle
    BY <2>2 DEF Rests, Runs
  <2> QED BY <2>1, <2>3, IdleIsCall
<1>2. \A fd \in FDs : ktable[q][fd] = None
  BY DEF Sound, Locals, Local
<1>3. /\ \A x \in Procs \ {q} : ktable'[x] = ktable[x]
      /\ \A fd \in FDs : ktable'[q][fd] = IF m[fd] = -1 THEN None ELSE ktable[p][m[fd]]
      /\ res' = kobject_copy_all(res, ktable, p, m)
  BY DEF process_selective_inherit, Shape
<1>4. Locals'
  <2>1. \A x \in Procs \ {p, q} : Local(x)'
    BY <1>3, OtherSteady DEF Sound, Locals
  <2>2. Local(p)'
    BY <1>1 DEF Local, Rests, Runs, WalkOK, CloseOK, At
  <2>3. Local(q)'
    BY <1>1, IdleIsCall DEF Local, Rests, WalkOK, CloseOK, At
  <2> QED BY <2>1, <2>2, <2>3 DEF Locals
<1>5. \A x \in Procs : Closing(x)' = Closing(x)
  <2>1. \A x \in Procs \ {p, q} : Closing(x)' = Closing(x)
    BY <1>3, OtherSteady
  <2>2. Closing(p)' = Closing(p) /\ Closing(q)' = Closing(q)
    BY <1>1 DEF Closing
  <2> QED BY <2>1, <2>2
<1>6. IsFiniteSet(FDs) /\ IsFiniteSet(Procs)
  BY ObjectsAssumption, FS_Interval DEF FDs
<1>7. ASSUME NEW r \in Res
      PROVE  /\ Cardinality(Entries(r)) \in Nat /\ Cardinality(Copies(r)) \in Nat
             /\ Cardinality(Entries(r))' = Cardinality(Entries(r)) + Cardinality(Copies(r))
  <2> DEFINE A == Entries(r)
             B == Entries(r)'
             S == Copies(r)
  <2>1. A \in SUBSET (Procs \X FDs) /\ B \in SUBSET (Procs \X FDs) /\ S \in SUBSET FDs
    BY DEF Entries
  <2>2. \A i \in FDs : <<q, i>> \notin A /\ (<<q, i>> \in B <=> i \in S)
    BY <1>1, <1>2, <1>3, ObjectsAssumption DEF Entries, Closed
  <2>3. \A x \in Procs \ {q}, i \in FDs : <<x, i>> \in A <=> <<x, i>> \in B
    <3>1. SUFFICES ASSUME NEW x \in Procs \ {q}, NEW i \in FDs
                   PROVE  <<x, i>> \in A <=> <<x, i>> \in B
      OBVIOUS
    <3>2. Closed(x, i)' <=> Closed(x, i)
      <4>1. CASE x = p
        BY <1>1, <4>1 DEF Closed
      <4>2. CASE x # p
        BY <4>2 DEF Closed
      <4> QED BY <4>1, <4>2
    <3> QED BY <1>3, <3>2 DEF Entries
  <2> HIDE DEF A, B, S
  <2> HIDE DEF FDs
  <2>4. B = A \cup ({q} \X S) /\ A \cap ({q} \X S) = {}
    BY <2>1, <2>2, <2>3
  <2>5. IsFiniteSet(A) /\ IsFiniteSet(S)
    BY <1>6, <2>1, FS_Product, FS_Subset
  <2>6. /\ IsFiniteSet({q} \X S) /\ Cardinality({q} \X S) = Cardinality(S)
        /\ Cardinality(S) \in Nat
    BY <2>5, RowSize
  <2>7. Cardinality(A) \in Nat /\ Cardinality(B) = Cardinality(A) + Cardinality({q} \X S)
    BY <2>4, <2>5, <2>6, DisjointUnion
  <2> QED BY <2>6, <2>7 DEF A, B, S
<1>8. \A r \in Res : Walking(r)' = Walking(r)
  <2>1. SUFFICES ASSUME NEW r \in Res, NEW x \in Procs, NEW i \in 1 .. MaxParts
                 PROVE  <<x, i>> \in Walking(r)' <=> <<x, i>> \in Walking(r)
    BY DEF Walking
  <2>2. CASE x \in {p, q}
    <3>1. ~At(x, "walk") /\ ~At(x, "walk")'
      BY <1>1, <2>2 DEF At
    <3> QED BY <3>1 DEF Walking
  <2>3. CASE x \notin {p, q}
    BY <2>3 DEF Walking, At, Runs
  <2> QED BY <2>2, <2>3
<1>9. Outside \in [Res -> Nat]
  BY FreeIsUnnamed
<1>10. n \in [Res -> Nat] /\ \A r \in Res : n[r] = Cardinality(Copies(r))
  BY <1>7
<1>11. \A r \in Res : Outside'[r] = Outside[r] + n[r]
  <2>1. SUFFICES ASSUME NEW r \in Res PROVE Outside'[r] = Outside[r] + n[r]
    OBVIOUS
  <2>2. Cardinality(Walking(r))' = Cardinality(Walking(r))
    BY <1>8
  <2>3. /\ Outside[r] = Cardinality(Entries(r)) + Cardinality(Walking(r)) + leaked[r]
        /\ Outside'[r] = Cardinality(Entries(r))' + Cardinality(Walking(r))' + leaked[r]
    BY DEF Outside
  <2>4. Cardinality(Walking(r)) \in Nat /\ leaked[r] \in Nat
    <3>1. IsFiniteSet(1 .. MaxParts)
      BY ObjectsAssumption, FS_Interval
    <3>2. IsFiniteSet(Walking(r))
      BY <1>6, <3>1, FS_Product, FS_Subset DEF Walking
    <3> QED BY <3>2, FS_CardinalityType DEF Shape
  <2> HIDE DEF Outside, n, Copies
  <2> QED BY <1>7, <1>10, <2>2, <2>3, <2>4
<1>12. Outside' \in [Res -> Nat]
  <2>1. Outside' = [r \in Res |-> Outside'[r]]
    BY DEF Outside
  <2>2. \A r \in Res : Outside'[r] \in Nat
    <3>1. SUFFICES ASSUME NEW r \in Res PROVE Outside'[r] \in Nat
      OBVIOUS
    <3>2. Outside'[r] = Outside[r] + n[r] /\ Outside[r] \in Nat /\ n[r] \in Nat
      BY <1>9, <1>10, <1>11
    <3> HIDE DEF n
    <3> QED BY <3>2
  <2> QED BY <2>1, <2>2
<1>13. \A r \in Res : n[r] > 0 => res[r].refs > 0
  <2>1. SUFFICES ASSUME NEW r \in Res, n[r] > 0 PROVE res[r].refs > 0
    OBVIOUS
  <2>2. Copies(r) # {}
    <3>1. n[r] = Cardinality(Copies(r)) /\ 0 \in Nat
      BY <1>10
    <3>2. Cardinality({}) = 0
      BY FS_EmptySet
    <3> HIDE DEF n, Copies
    <3> QED BY <2>1, <3>1, <3>2
  <2>3. PICK fd \in FDs : m[fd] \in FDs /\ ktable[p][m[fd]] = r
    BY <2>2
  <2>4. r # None
    BY ObjectsAssumption
  <2> QED BY <1>1, <2>3, <2>4, EntryHasRefs
<1>14. res' = Raised(res, n)
  BY <1>3 DEF kobject_copy_all, Raised
<1> HIDE DEF n
<1>15. Memory(res') /\ Fits(res', Outside') /\ Calm(res, res')
  <2> DEFINE f == Outside'
             g == res'
  <2>1. /\ f \in [Res -> Nat] /\ \A r \in Res : f[r] = Outside[r] + n[r]
        /\ g = Raised(res, n) /\ Fits(res, Outside)
    BY <1>11, <1>12, <1>14 DEF Sound
  <2> HIDE DEF f, g
  <2>2. Memory(g) /\ Fits(g, f) /\ Calm(res, g)
    BY <1>9, <1>10, <1>13, <2>1, RaiseFits
  <2> QED BY <2>2 DEF f, g
<1> QED BY <1>4, <1>5, <1>15

\* p takes a process in hand, or puts it down; q, if any, changes its state.
LEMMA HandSafe ==
  ASSUME Memory(res), Shape, Shape', Sound, Children', NEW p \in Procs, NEW q \in Procs,
         Runs(p), p # q, call[q] = Idle, call'[p].at \in {"out"} \cup Loads,
         call[p].at \in {"out"} \cup Loads,
         UNCHANGED <<res, ktable, leaked, orphans, unpaired>>,
         \A x \in Procs \ {p} : call'[x] = call[x],
         \A x \in Procs \ {q} : state'[x] = state[x],
         state'[q] = "none" => \A fd \in FDs : ktable[q][fd] = None
  PROVE  IInv'
<1>1. \A x \in Procs \ {p, q} :
        /\ Local(x) => Local(x)'
        /\ \A j \in FDs : Name(x, j)' = Name(x, j)
        /\ \A r \in Res : Took(x, r)' = Took(x, r)
        /\ Closing(x)' = Closing(x)
  BY OtherSteady
<1>2. /\ call[q].at = "out" /\ call'[q] = Idle /\ call'[q].at = "out"
      /\ state'[p] = state[p] /\ state[p] = "live"
  BY IdleIsCall DEF Runs
<1>3. Local(p)' /\ Local(q)'
  BY <1>2 DEF Local, Rests, Runs, WalkOK, CloseOK, At, Loads
<1>4. Locals'
  BY <1>1, <1>3 DEF Sound, Locals
<1>5. \A x \in {p, q} : /\ \A j \in FDs : Name(x, j)' = Name(x, j)
                        /\ \A r \in Res : Took(x, r) = 0 /\ Took(x, r)' = 0
                        /\ Closing(x)' = Closing(x)
  BY <1>2 DEF Name, Closed, Took, At, Closing, Loads
<1>6. /\ Outside \in [Res -> Nat] /\ Outside' \in [Res -> Nat]
      /\ \A r \in Res : Outside'[r] = Outside[r]
  <2>1. PICK i \in FDs : TRUE
    BY ObjectsAssumption
  <2>2. /\ \A x \in Procs, j \in FDs : Name(x, j)' = Name(x, j)
        /\ \A x \in Procs, r \in Res : Took(x, r)' = Took(x, r)
    BY <1>1, <1>5
  <2>3. /\ Outside \in [Res -> Nat] /\ Outside' \in [Res -> Nat]
        /\ \A r \in Res :
             /\ Outside'[r] = Outside[r]
                  - (IF Name(p, i) = r THEN 1 ELSE 0) + (IF Name(p, i)' = r THEN 1 ELSE 0)
                  - Took(p, r) + Took(p, r)' - leaked[r] + leaked'[r]
             /\ leaked[r] \in Nat
    BY <1>4, <2>2, OutsideStep DEF Sound
  <2>4. ASSUME NEW r \in Res PROVE Outside'[r] = Outside[r]
    <3>1. /\ Name(p, i)' = Name(p, i) /\ Took(p, r) = 0 /\ Took(p, r)' = 0
          /\ leaked'[r] = leaked[r] /\ Outside[r] \in Nat
      BY <1>5, <2>2, <2>3
    <3> QED BY <2>3, <3>1
  <2> QED BY <2>3, <2>4
<1>7. Memory(res') /\ Fits(res', Outside') /\ Calm(res, res')
  BY <1>6, SameFits DEF Sound
<1>8. \A x \in Procs : Closing(x)' = Closing(x)
  BY <1>1, <1>5
<1> QED BY <1>4, <1>7, <1>8, AloneCalm

\* A call that has a process in hand: which, and that it is in no call itself.
LEMMA InHand ==
  ASSUME Shape, Sound, NEW p \in Procs, NEW l \in Loads, At(p, l)
  PROVE  /\ call[p].child \in Procs /\ call[p].child # p /\ state[call[p].child] = l
         /\ call[call[p].child] = Idle /\ Runs(p) /\ call[p].at = l
         /\ \A x \in Procs \ {p} : call[x].at \in Loads => call[x].child # call[p].child
<1>1. Runs(p) /\ call[p].at = l
  BY DEF At
<1>2. /\ call[p].child \in Procs /\ state[call[p].child] = l
      /\ \A x \in Procs \ {p} : call[x].at \in Loads => call[x].child # call[p].child
  BY <1>1 DEF Sound, Children
<1>3. Rests(call[p].child)
  BY <1>2 DEF Sound, Locals, Local
<1>4. call[call[p].child] = Idle /\ call[p].child # p
  BY <1>1, <1>2, <1>3 DEF Rests, Runs, Loads
<1> QED BY <1>1, <1>2, <1>4

LEMMA RunEndSafe ==
  ASSUME Memory(res), Shape, Sound, NEW p \in Procs, run_end(p)
  PROVE  IInv'
<1>1. /\ At(p, "loading") /\ UNCHANGED <<res, ktable, leaked, orphans, unpaired, fault>>
      /\ "loading" \in Loads
  BY DEF run_end, history, Loads
<1>2. PICK q \in Procs : q = call[p].child
  BY <1>1, InHand
<1>3. /\ q # p /\ state[q] = "loading" /\ call[q] = Idle /\ Runs(p) /\ call[p].at = "loading"
      /\ \A x \in Procs \ {p} : call[x].at \in Loads => call[x].child # q
  BY <1>1, <1>2, InHand
<1>4. state \in [Procs -> {"none", "loading", "live", "dead", "deleting"}] /\ call[p] \in Call
  BY DEF Shape
<1>5. CASE state' = [state EXCEPT ![q] = "live"] /\ Return(p)
  <2>1. /\ call' \in [Procs -> Call] /\ call'[p] = Idle /\ call'[p].at = "out"
        /\ \A x \in Procs \ {p} : call'[x] = call[x]
    BY <1>5, Returned, IdleIsCall DEF Return
  <2>2. /\ state' \in [Procs -> {"none", "loading", "live", "dead", "deleting"}]
        /\ \A x \in Procs \ {q} : state'[x] = state[x] /\ state'[q] = "live"
    BY <1>3, <1>4, <1>5
  <2>3. Shape'
    BY <1>1, <2>1, <2>2 DEF Shape
  <2>4. Children'
    <3>1. SUFFICES ASSUME NEW x \in Procs, call'[x].at \in Loads
                   PROVE  /\ call'[x].child \in Procs /\ state'[call'[x].child] = call'[x].at
                          /\ \A y \in Procs \ {x} : call'[y].at \in Loads => call'[y].child # call'[x].child
      BY DEF Children
    <3>2. x # p /\ call'[x] = call[x]
      BY <2>1, <3>1 DEF Loads
    <3>3. /\ call[x].child \in Procs /\ state[call[x].child] = call[x].at
          /\ \A y \in Procs \ {x} : call[y].at \in Loads => call[y].child # call[x].child
      BY <3>1, <3>2 DEF Sound, Children
    <3>4. call[x].child # q
      BY <1>3, <3>1, <3>2
    <3>5. \A y \in Procs \ {x} : call'[y].at \in Loads => call'[y] = call[y]
      BY <2>1 DEF Loads
    <3> QED BY <2>2, <3>2, <3>3, <3>4, <3>5
  <2>5. state'[q] # "none" /\ \A x \in Procs \ {q} : state'[x] = state[x]
    BY <1>3, <2>2
  <2> QED BY <1>1, <1>3, <2>1, <2>3, <2>4, <2>5, HandSafe
<1>6. CASE state' = [state EXCEPT ![q] = "deleting"] /\ call' = [call EXCEPT ![p].at = "deleting"]
  <2> DEFINE c == [call[p] EXCEPT !.at = "deleting"]
  <2>1. c \in Call /\ c.at = "deleting" /\ c.child = q
    BY <1>2, <1>4 DEF Call
  <2>2. call' \in [Procs -> Call] /\ call'[p] = c /\ \A x \in Procs \ {p} : call'[x] = call[x]
    <3>1. call' = [call EXCEPT ![p] = c] /\ call \in [Procs -> Call]
      BY <1>6 DEF Shape
    <3> HIDE DEF c
    <3> QED BY <2>1, <3>1
  <2> HIDE DEF c
  <2>3. /\ state' \in [Procs -> {"none", "loading", "live", "dead", "deleting"}]
        /\ \A x \in Procs \ {q} : state'[x] = state[x]
        /\ state'[q] = "deleting"
    BY <1>3, <1>4, <1>6
  <2>4. Shape'
    BY <1>1, <2>2, <2>3 DEF Shape
  <2>5. Children'
    <3>1. SUFFICES ASSUME NEW x \in Procs, call'[x].at \in Loads
                   PROVE  /\ call'[x].child \in Procs /\ state'[call'[x].child] = call'[x].at
                          /\ \A y \in Procs \ {x} : call'[y].at \in Loads => call'[y].child # call'[x].child
      BY DEF Children
    <3>2. CASE x = p
      <4>1. call'[x].child = q /\ call'[x].at = "deleting"
        BY <2>1, <2>2, <3>2
      <4>2. \A y \in Procs \ {p} : call'[y].at \in Loads => call'[y].child # q
        BY <1>3, <2>2
      <4> QED BY <2>3, <3>2, <4>1, <4>2
    <3>3. CASE x # p
      <4>1. call'[x] = call[x]
        BY <2>2, <3>3
      <4>2. /\ call[x].child \in Procs /\ state[call[x].child] = call[x].at
            /\ \A y \in Procs \ {x} : call[y].at \in Loads => call[y].child # call[x].child
            /\ call[x].child # q
        BY <1>3, <3>1, <3>3, <4>1 DEF Sound, Children
      <4>3. \A y \in Procs \ {x} : call'[y].at \in Loads => call'[y].child # call[x].child
        BY <2>1, <2>2, <4>2
      <4> QED BY <2>3, <4>1, <4>2, <4>3
    <3> QED BY <3>2, <3>3
  <2>6. call'[p].at \in {"out"} \cup Loads /\ call[p].at \in {"out"} \cup Loads
    BY <1>3, <2>1, <2>2 DEF Loads
  <2> QED BY <1>1, <1>3, <2>2, <2>3, <2>4, <2>5, <2>6, HandSafe
<1>7. CASE Return(p) /\ UNCHANGED state
  <2>1. /\ call' \in [Procs -> Call] /\ call'[p] = Idle /\ call'[p].at = "out"
        /\ \A x \in Procs \ {p} : call'[x] = call[x]
    BY <1>7, Returned, IdleIsCall DEF Return
  <2>2. Shape'
    BY <1>1, <1>7, <2>1 DEF Shape
  <2>3. Children'
    <3>1. \A x \in Procs : call'[x].at \in Loads => call'[x].at = call[x].at /\ call'[x].child = call[x].child
      BY <2>1 DEF Loads
    <3> QED BY <1>7, <3>1, ChildrenSteady DEF Sound
  <2>4. state'[q] # "none" /\ \A x \in Procs \ {q} : state'[x] = state[x]
    BY <1>3, <1>7
  <2>5. call'[p].at \in {"out"} \cup Loads /\ call[p].at \in {"out"} \cup Loads
    BY <1>3, <2>1 DEF Loads
  <2> QED BY <1>1, <1>3, <2>1, <2>2, <2>3, <2>4, <2>5, HandSafe
<1> QED BY <1>2, <1>5, <1>6, <1>7 DEF run_end

\* A call of p starts to work on q, which nobody has in hand.
LEMMA TakeChild ==
  ASSUME Shape, Sound, NEW p \in Procs, NEW q \in Procs, NEW l \in Loads,
         call[p].at = "out", state[q] \notin Loads,
         call' = [call EXCEPT ![p] = [Idle EXCEPT !.at = l, !.child = q]],
         state' = [state EXCEPT ![q] = l]
  PROVE  /\ call' \in [Procs -> Call] /\ call'[p].at = l /\ call'[p].child = q
         /\ \A x \in Procs \ {p} : call'[x] = call[x]
         /\ state' \in [Procs -> {"none", "loading", "live", "dead", "deleting"}]
         /\ state'[q] = l /\ \A x \in Procs \ {q} : state'[x] = state[x]
         /\ Children'
<1> DEFINE c == [Idle EXCEPT !.at = l, !.child = q]
<1>1. c \in Call /\ c.at = l /\ c.child = q
  BY IdleIsCall DEF Call, Loads, Idle
<1>2. call' \in [Procs -> Call] /\ call'[p] = c /\ \A x \in Procs \ {p} : call'[x] = call[x]
  <2>1. call' = [call EXCEPT ![p] = c] /\ call \in [Procs -> Call]
    BY DEF Shape
  <2> HIDE DEF c
  <2> QED BY <1>1, <2>1
<1> HIDE DEF c
<1>3. /\ state' \in [Procs -> {"none", "loading", "live", "dead", "deleting"}]
      /\ state'[q] = l /\ \A x \in Procs \ {q} : state'[x] = state[x]
  BY DEF Shape, Loads
<1>4. \A x \in Procs \ {p} : call[x].at \in Loads =>
         /\ call[x].child \in Procs /\ state[call[x].child] = call[x].at /\ call[x].child # q
         /\ \A y \in Procs \ {x} : call[y].at \in Loads => call[y].child # call[x].child
  BY DEF Sound, Children
<1>5. Children'
  <2>1. SUFFICES ASSUME NEW x \in Procs, call'[x].at \in Loads
                 PROVE  /\ call'[x].child \in Procs /\ state'[call'[x].child] = call'[x].at
                        /\ \A y \in Procs \ {x} : call'[y].at \in Loads => call'[y].child # call'[x].child
    BY DEF Children
  <2>2. CASE x = p
    <3>1. \A y \in Procs \ {p} : call'[y].at \in Loads => call'[y].child # q
      BY <1>2, <1>4
    <3> QED BY <1>1, <1>2, <1>3, <2>2, <3>1
  <2>3. CASE x # p
    <3>1. call'[x] = call[x]
      BY <1>2, <2>3
    <3>2. /\ call[x].child \in Procs /\ state[call[x].child] = call[x].at /\ call[x].child # q
          /\ \A y \in Procs \ {x} : call[y].at \in Loads => call[y].child # call[x].child
      BY <1>4, <2>1, <2>3, <3>1
    <3>3. \A y \in Procs \ {x} : call'[y].at \in Loads => call'[y].child # call[x].child
      BY <1>1, <1>2, <3>2
    <3> QED BY <1>3, <3>1, <3>2, <3>3
  <2> QED BY <2>2, <2>3
<1> QED BY <1>1, <1>2, <1>3, <1>5

LEMMA ReapSafe ==
  ASSUME Memory(res), Shape, Sound, fault = "none", NEW p \in Procs, process_reap(p)
  PROVE  IInv'
<1>1. At(p, "out") /\ UNCHANGED <<res, ktable, history>>
  BY DEF process_reap
<1>2. PICK q \in Procs :
        /\ state[q] = "dead"
        /\ IF call[q].at = "clearing"
           THEN fault' = "freed_kobject" /\ UNCHANGED <<state, call>>
           ELSE /\ state' = [state EXCEPT ![q] = "deleting"]
                /\ call' = [call EXCEPT ![p] = [Idle EXCEPT !.at = "deleting", !.child = q]]
                /\ UNCHANGED fault
  BY DEF process_reap
<1>3. CASE call[q].at = "clearing"
  BY <1>1, <1>2, <1>3, FaultSafe
<1>4. CASE call[q].at # "clearing"
  <2>1. Rests(q)
    BY DEF Sound, Locals, Local
  <2>2. call[q] = Idle /\ p # q /\ Runs(p) /\ call[p].at = "out"
    BY <1>1, <1>2, <1>4, <2>1 DEF Rests, Runs, At
  <2>3. "deleting" \in Loads /\ state[q] \notin Loads
    BY <1>2 DEF Loads
  <2>4. /\ call' \in [Procs -> Call] /\ call'[p].at = "deleting" /\ call'[p].child = q
        /\ \A x \in Procs \ {p} : call'[x] = call[x]
        /\ state' \in [Procs -> {"none", "loading", "live", "dead", "deleting"}]
        /\ state'[q] = "deleting" /\ \A x \in Procs \ {q} : state'[x] = state[x]
        /\ Children'
    BY <1>2, <1>4, <2>2, <2>3, TakeChild
  <2>5. UNCHANGED <<res, ktable, leaked, orphans, unpaired, fault>>
    BY <1>1, <1>2, <1>4 DEF history
  <2>6. Shape'
    BY <2>4, <2>5 DEF Shape
  <2>7. call'[p].at \in {"out"} \cup Loads /\ call[p].at \in {"out"} \cup Loads /\ state'[q] # "none"
    BY <2>2, <2>4 DEF Loads
  <2> QED BY <2>2, <2>4, <2>5, <2>6, <2>7, HandSafe
<1> QED BY <1>3, <1>4

LEMMA DeleteSafe ==
  ASSUME Memory(res), Shape, Sound, NEW p \in Procs, process_delete(p)
  PROVE  IInv'
<1>1. /\ At(p, "deleting") /\ UNCHANGED <<leaked, orphans, unpaired, fault>>
      /\ "deleting" \in Loads
  BY DEF process_delete, history, Loads
<1>2. PICK q \in Procs : q = call[p].child
  BY <1>1, InHand
<1>3. /\ q # p /\ state[q] = "deleting" /\ call[q] = Idle /\ Runs(p) /\ call[p].at = "deleting"
      /\ \A x \in Procs \ {p} : call[x].at \in Loads => call[x].child # q
  BY <1>1, <1>2, InHand
<1> DEFINE used == FDs \ Unused(q)
<1>4. CASE used = {}
  <2>1. state' = [state EXCEPT ![q] = "none"] /\ Return(p) /\ UNCHANGED <<res, ktable>>
    BY <1>2, <1>4 DEF process_delete
  <2>2. /\ call' \in [Procs -> Call] /\ call'[p] = Idle /\ call'[p].at = "out"
        /\ \A x \in Procs \ {p} : call'[x] = call[x]
    BY <2>1, Returned, IdleIsCall DEF Return
  <2>3. /\ state' \in [Procs -> {"none", "loading", "live", "dead", "deleting"}]
        /\ \A x \in Procs \ {q} : state'[x] = state[x]
        /\ state'[q] = "none"
    BY <2>1 DEF Shape
  <2>4. Shape'
    BY <1>1, <2>1, <2>2, <2>3 DEF Shape
  <2>5. Children'
    <3>1. SUFFICES ASSUME NEW x \in Procs, call'[x].at \in Loads
                   PROVE  /\ call'[x].child \in Procs /\ state'[call'[x].child] = call'[x].at
                          /\ \A y \in Procs \ {x} : call'[y].at \in Loads => call'[y].child # call'[x].child
      BY DEF Children
    <3>2. x # p /\ call'[x] = call[x]
      BY <2>2, <3>1 DEF Loads
    <3>3. /\ call[x].child \in Procs /\ state[call[x].child] = call[x].at
          /\ \A y \in Procs \ {x} : call[y].at \in Loads => call[y].child # call[x].child
      BY <3>1, <3>2 DEF Sound, Children
    <3>4. call[x].child # q
      BY <1>3, <3>1, <3>2
    <3>5. \A y \in Procs \ {x} : call'[y].at \in Loads => call'[y] = call[y]
      BY <2>2 DEF Loads
    <3> QED BY <2>3, <3>2, <3>3, <3>4, <3>5
  <2>6. call'[p].at \in {"out"} \cup Loads /\ call[p].at \in {"out"} \cup Loads
    BY <1>3, <2>2 DEF Loads
  <2>7. \A fd \in FDs : ktable[q][fd] = None
    BY <1>4 DEF Unused
  <2> QED BY <1>1, <1>3, <2>1, <2>2, <2>3, <2>4, <2>5, <2>6, <2>7, HandSafe
<1>5. CASE used # {}
  <2>1. PICK i \in FDs : i = Min(used) /\ i \in used
    <3>1. IsFiniteSet(FDs) /\ FDs \in SUBSET Int
      BY ObjectsAssumption, FS_Interval DEF FDs
    <3>2. IsFiniteSet(used) /\ used \in SUBSET Int /\ used \in SUBSET FDs
      BY <3>1, FS_Subset
    <3> HIDE DEF used
    <3>3. Min(used) \in used
      BY <1>5, <3>2, MinExists
    <3> QED BY <3>2, <3>3
  <2>2. PICK r \in Res : r = ktable[q][i]
    <3>1. ktable[q] \in [FDs -> Res \cup {None}] /\ i \in FDs
      BY <2>1 DEF Shape
    <3>2. ktable[q][i] # None
      BY <2>1, <3>1 DEF Unused
    <3> QED BY <3>1, <3>2
  <2>3. /\ res' = Release(res, r) /\ ktable' = [ktable EXCEPT ![q][i] = None]
        /\ UNCHANGED <<state, call>>
    BY <1>2, <1>5, <2>1, <2>2 DEF process_delete
  <2> HIDE DEF used
  <2>4. /\ ktable' \in [Procs -> [FDs -> Res \cup {None}]]
        /\ \A x \in Procs \ {q} : ktable'[x] = ktable[x]
        /\ \A j \in FDs : ktable'[q][j] = IF j = i THEN None ELSE ktable[q][j]
    <3>1. ktable \in [Procs -> [FDs -> Res \cup {None}]]
      BY DEF Shape
    <3> QED BY <2>3, <3>1
  <2>5. Shape'
    BY <1>1, <2>3, <2>4 DEF Shape
  <2>6. call[q].at = "out" /\ call'[q] = Idle /\ call'[q].at = "out"
    BY <1>3, <2>3, IdleIsCall
  <2>7. Local(q)'
    BY <1>3, <2>3, <2>6 DEF Local, Rests, WalkOK, CloseOK, At
  <2>8. /\ \A fd \in FDs : Name(q, fd) = ktable[q][fd] /\ Name(q, fd)' = ktable'[q][fd]
        /\ \A x \in Res : Took(q, x) = 0 /\ Took(q, x)' = 0
        /\ Closing(q) = None /\ Closing(q)' = None
    BY <2>6 DEF Name, Closed, Took, At, Closing
  <2>9. /\ Locals' /\ Children'
        /\ Outside \in [Res -> Nat] /\ Outside' \in [Res -> Nat]
        /\ \A x \in Procs \ {q} : Closing(x)' = Closing(x)
        /\ \A x \in Res : Outside'[x] = Outside[x] - (IF x = r THEN 1 ELSE 0)
    <3>1. /\ \A x \in Procs \ {q} :
               call'[x] = call[x] /\ ktable'[x] = ktable[x] /\ state'[x] = state[x]
          /\ \A j \in FDs \ {i} : Name(q, j)' = Name(q, j)
          /\ state'[q] = state[q] /\ leaked' = leaked /\ call'[q].at \notin Loads
      BY <1>1, <2>3, <2>4, <2>6, <2>8 DEF Loads
    <3>2. /\ Locals' /\ Children' /\ Outside \in [Res -> Nat] /\ Outside' \in [Res -> Nat]
          /\ \A x \in Procs \ {q} : Closing(x)' = Closing(x)
          /\ \A x \in Res :
               /\ Outside'[x] = Outside[x]
                    - (IF Name(q, i) = x THEN 1 ELSE 0) + (IF Name(q, i)' = x THEN 1 ELSE 0)
                    - Took(q, x) + Took(q, x)' - leaked[x] + leaked'[x]
               /\ leaked[x] \in Nat
      BY <2>5, <2>7, <3>1, Alone
    <3>3. ASSUME NEW x \in Res PROVE Outside'[x] = Outside[x] - (IF x = r THEN 1 ELSE 0)
      <4>1. Name(q, i) = r /\ Name(q, i)' # x
        BY <2>2, <2>4, <2>8, ObjectsAssumption
      <4>2. Took(q, x) = 0 /\ Took(q, x)' = 0 /\ leaked'[x] = leaked[x] /\ Outside[x] \in Nat
        BY <2>8, <3>1, <3>2
      <4> QED BY <3>2, <4>1, <4>2
    <3> QED BY <3>2, <3>3
  <2>10. Outside[r] > 0
    BY <2>2, <2>8, NamedHasRefs
  <2>11. Memory(res') /\ Fits(res', Outside') /\ Calm(res, res')
    <3> DEFINE f == Outside'
               g == res'
    <3>1. f \in [Res -> Nat] /\ \A x \in Res : f[x] = Outside[x] - (IF x = r THEN 1 ELSE 0)
      BY <2>9
    <3>2. g = Release(res, r) /\ Fits(res, Outside)
      BY <2>3 DEF Sound
    <3> HIDE DEF f, g
    <3>3. Memory(g) /\ Fits(g, f) /\ Calm(res, g)
      BY <2>9, <2>10, <3>1, <3>2, ReleaseFits
    <3> QED BY <3>3 DEF f, g
  <2> QED BY <1>1, <2>5, <2>8, <2>9, <2>11, AloneCalm
<1> QED BY <1>4, <1>5

LEMMA WrunSafe ==
  ASSUME Memory(res), Shape, Sound, NEW p \in Procs, wrun_of_unused(p)
  PROVE  IInv'
BY FaultSafe DEF wrun_of_unused

\* The table of a child is a table.
LEMMA InheritShape ==
  ASSUME Shape, NEW p \in Procs, NEW q \in Procs, NEW m \in [FDs -> FDs \cup {-1}],
         process_selective_inherit(p, q, m)
  PROVE  ktable' \in [Procs -> [FDs -> Res \cup {None}]]
<1> DEFINE t == [fd \in FDs |-> IF m[fd] = -1 THEN None ELSE ktable[p][m[fd]]]
<1>1. t \in [FDs -> Res \cup {None}]
  BY DEF Shape
<1>2. ktable' = [ktable EXCEPT ![q] = t] /\ ktable \in [Procs -> [FDs -> Res \cup {None}]]
  BY DEF process_selective_inherit, Shape
<1> HIDE DEF t
<1> QED BY <1>1, <1>2

LEMMA ForkSafe ==
  ASSUME Memory(res), Shape, Sound, NEW p \in Procs, sys_process_fork(p)
  PROVE  IInv'
<1>1. At(p, "out") /\ UNCHANGED <<call, leaked, orphans, unpaired, fault>> /\ call[p].at = "out"
  BY DEF sys_process_fork, history, At
<1>2. PICK q \in Procs : /\ state[q] = "none"
                         /\ process_selective_inherit(p, q, Everything(p))
                         /\ state' = [state EXCEPT ![q] = "live"]
  BY DEF sys_process_fork
<1>3. PICK m \in [FDs -> FDs \cup {-1}] :
        m = Everything(p) /\ \A fd \in FDs : m[fd] # -1 => ktable[p][m[fd]] # None
  <2>1. Everything(p) \in [FDs -> FDs \cup {-1}]
    BY DEF Everything
  <2>2. \A fd \in FDs : Everything(p)[fd] # -1 => ktable[p][Everything(p)[fd]] # None
    BY DEF Everything
  <2> QED BY <2>1, <2>2
<1>4. /\ state' \in [Procs -> {"none", "loading", "live", "dead", "deleting"}]
      /\ \A x \in Procs \ {q} : state'[x] = state[x]
      /\ state'[q] = "live"
  BY <1>2 DEF Shape
<1>5. process_selective_inherit(p, q, m)
  BY <1>2, <1>3
<1>6. Shape'
  BY <1>1, <1>4, <1>5, InheritShape DEF Shape
<1>7. /\ Locals' /\ \A x \in Procs : Closing(x)' = Closing(x)
      /\ Memory(res') /\ Fits(res', Outside') /\ Calm(res, res')
  BY <1>1, <1>2, <1>3, <1>4, <1>5, <1>6, InheritSafe
<1>8. Children'
  <2>1. \A x \in Procs : state[x] \in Loads => state'[x] = state[x]
    BY <1>2, <1>4 DEF Loads
  <2> QED BY <1>1, <2>1, ChildrenSteady DEF Sound
<1> QED BY <1>1, <1>6, <1>7, <1>8, AloneCalm

LEMMA RunSafe ==
  ASSUME Memory(res), Shape, Sound, NEW p \in Procs, sys_process_run(p)
  PROVE  IInv'
<1>1. At(p, "out") /\ UNCHANGED <<leaked, orphans, unpaired, fault>> /\ call[p].at = "out"
  BY DEF sys_process_run, history, At
<1>2. PICK q \in Procs, m \in [FDs -> FDs \cup {-1}] :
        /\ state[q] = "none" /\ \A fd \in FDs : m[fd] # -1 => ktable[p][m[fd]] # None
        /\ process_selective_inherit(p, q, m)
        /\ state' = [state EXCEPT ![q] = "loading"]
        /\ call' = [call EXCEPT ![p] = [Idle EXCEPT !.at = "loading", !.child = q]]
  BY DEF sys_process_run
<1>3. "loading" \in Loads /\ state[q] \notin Loads
  BY <1>2 DEF Loads
<1>4. /\ call' \in [Procs -> Call] /\ call'[p].at = "loading" /\ call'[p].child = q
      /\ \A x \in Procs \ {p} : call'[x] = call[x]
      /\ state' \in [Procs -> {"none", "loading", "live", "dead", "deleting"}]
      /\ state'[q] = "loading" /\ \A x \in Procs \ {q} : state'[x] = state[x]
      /\ Children'
  BY <1>1, <1>2, <1>3, TakeChild
<1>5. Shape'
  BY <1>1, <1>2, <1>4, InheritShape DEF Shape
<1>6. /\ Locals' /\ \A x \in Procs : Closing(x)' = Closing(x)
      /\ Memory(res') /\ Fits(res', Outside') /\ Calm(res, res')
  BY <1>1, <1>2, <1>4, <1>5, InheritSafe
<1> QED BY <1>1, <1>4, <1>5, <1>6, AloneCalm

-----------------------------------------------------------------------------
(* The theorems.                                                           *)

\* At boot nothing is counted, and nothing is named.
LEMMA InitSafe == Init => IInv
<1>1. SUFFICES ASSUME Init PROVE IInv
  OBVIOUS
<1>2. /\ \A r \in Res : res[r] = Free
      /\ \A p \in Procs : call[p] = Idle /\ \A fd \in FDs : ktable[p][fd] = None
      /\ \A r \in Res : leaked[r] = 0
  BY <1>1 DEF Init
<1>3. TypeOK
  <2>1. Free \in Record
    BY DEF Free, Record
  <2>2. Memory(res)
    <3> HIDE DEF Free
    <3> QED BY <1>1, <2>1 DEF Init, Memory
  <2>3. Shape
    BY <1>1, IdleIsCall DEF Init, Shape
  <2> QED BY <2>2, <2>3, TypeIs
<1>4. Locals
  BY <1>2, IdleIsCall DEF Locals, Local, Rests, WalkOK, CloseOK, At
<1>5. Children /\ Saving
  BY <1>2, IdleIsCall DEF Children, Saving, Closing, Loads
<1>6. Kept
  BY <1>2 DEF Kept, Spent, Free
<1>7. Fits(res, Outside)
  <2>1. SUFFICES ASSUME NEW r \in Res
                 PROVE  res[r].refs = Cardinality(HeldBy(res, r)) + Outside[r]
    BY DEF Fits
  <2>2. HeldBy(res, r) = {} /\ Entries(r) = {} /\ Walking(r) = {}
    BY <1>2, IdleIsCall, ObjectsAssumption DEF HeldBy, Free, Entries, Walking, At
  <2>3. Cardinality({}) = 0 /\ leaked[r] = 0 /\ res[r].refs = 0
    BY <1>2, FS_EmptySet DEF Free
  <2>4. Outside[r] = Cardinality(Entries(r)) + Cardinality(Walking(r)) + leaked[r]
    BY DEF Outside
  <2>5. Cardinality(HeldBy(res, r)) = 0 /\ Outside[r] = 0
    BY <2>2, <2>3, <2>4
  <2> QED BY <2>3, <2>5
<1> QED BY <1>3, <1>4, <1>5, <1>6, <1>7 DEF IInv, Sound

\* Nothing moves.
LEMMA StutterSafe == IInv /\ UNCHANGED vars => IInv'
<1>1. SUFFICES ASSUME IInv, UNCHANGED vars PROVE IInv'
  OBVIOUS
<1>2. /\ UNCHANGED <<res, ktable, state, call, history>> /\ fault' = fault /\ unpaired' = unpaired
      /\ UNCHANGED <<leaked, orphans>>
  BY <1>1 DEF vars, history
<1>3. TypeOK'
  BY <1>1, <1>2 DEF IInv, TypeOK, FreeRes
<1>4. CASE unpaired
  BY <1>2, <1>3, <1>4 DEF IInv
<1>5. CASE Sound
  <2>1. Memory(res) /\ Shape
    BY <1>1, TypeIs DEF IInv
  <2>2. fault' \in {"none", "null_copy", "past_table", "freed_kobject"}
    BY <1>2, <2>1 DEF Shape
  <2> QED BY <1>2, <1>5, <2>1, <2>2, FaultSafe
<1> QED BY <1>1, <1>4, <1>5 DEF IInv

LEMMA StepSafe == IInv /\ Next => IInv'
<1>1. SUFFICES ASSUME IInv, Next PROVE IInv'
  OBVIOUS
<1>2. Memory(res) /\ Shape /\ Sound /\ fault = "none"
  BY <1>1, TypeIs DEF IInv, Next
<1>3. CASE kshell_mount \/ kshell_install_failed \/ fs_dirent_copy_failed \/ fs_resolve
  BY <1>2, <1>3, MountSafe, FailedInstallSafe, FailedCopySafe, ResolveSafe
<1>4. ASSUME NEW p \in Procs, Step(p) PROVE IInv'
  <2>1. CASE sys_open_file(p) \/ lookup_dot(p) \/ lookup_name(p) \/ lookup_missing(p) \/ found(p)
    BY <1>2, <2>1, OpenFileSafe, DotSafe, NameSafe, MissingSafe, FoundSafe
  <2>2. CASE sys_open_dir(p) \/ sys_open_window(p) \/ sys_open_console(p) \/ sys_open_pipe(p)
    BY <1>2, <2>2, OpensSafe
  <2>3. CASE sys_object_close(p) \/ close_saved(p) \/ close_clear(p) \/ sys_object_copy(p)
    BY <1>2, <2>3, ObjectCloseSafe, SavedSafe, ClearSafe, ObjectCopySafe
  <2>4. CASE sys_process_fork(p) \/ sys_process_run(p) \/ wrun_of_unused(p) \/ run_end(p)
    BY <1>2, <2>4, ForkSafe, RunSafe, WrunSafe, RunEndSafe
  <2>5. CASE process_make_dead(p) \/ process_reap(p) \/ process_delete(p)
    BY <1>2, <2>5, DeadSafe, ReapSafe, DeleteSafe
  <2> QED BY <1>4, <2>1, <2>2, <2>3, <2>4, <2>5 DEF Step
<1> QED BY <1>1, <1>3, <1>4 DEF Next

LEMMA InvariantHolds == Spec => []IInv
<1>1. IInv /\ [Next]_vars => IInv'
  BY StepSafe, StutterSafe
<1> QED BY InitSafe, <1>1, PTL DEF Spec

\* In every state each table, resource, call and process has the type the code gives it.
THEOREM TypeCorrect == Spec => []TypeOK
<1>1. IInv => TypeOK
  BY DEF IInv
<1> QED BY <1>1, InvariantHolds, PTL

\* What has been freed is named by no table, no resource and no call under way (kobject.c,
\* fs.c, window.c, console.c), whatever calls and kills are interleaved at the disk.
THEOREM NoDanglingHolds == Spec => []NoDangling
<1>1. IInv => NoDangling
  <2>1. SUFFICES ASSUME TypeOK, Sound, NEW r \in FreeRes
                 PROVE  /\ Entries(r) = {} /\ Holders(r) = {}
                        /\ \A p \in Procs : At(p, "walk") => r \notin {call[p].base, call[p].d}
    BY DEF IInv, NoDangling, NamesAreAlive
  <2>2. Memory(res) /\ Shape
    BY <2>1, TypeIs
  <2>3. r \in Res /\ res[r].kind = "free" /\ res[r].refs = 0 /\ Outside \in [Res -> Nat]
    BY <2>2, <2>1, FreeIsUnnamed DEF Memory, FreeRes, Free
  <2>4. Entries(r) = {}
    <3>1. SUFFICES ASSUME NEW p \in Procs, NEW fd \in FDs, Name(p, fd) = r PROVE FALSE
      BY <2>3, ObjectsAssumption DEF Entries, Name
    <3>2. res[r].kind # "free"
      BY <2>1, <2>2, <2>3, <3>1, NamedHasRefs
    <3> QED BY <2>3, <3>2
  <2>5. Holders(r) = {}
    <3>1. HeldBy(res, r) = {}
      BY <2>1, <2>2, <2>3, HeldHasRefs DEF Sound
    <3> QED BY <3>1 DEF HeldBy, Holders
  <2>6. ASSUME NEW p \in Procs, At(p, "walk") PROVE r \notin {call[p].base, call[p].d}
    BY <2>1, <2>2, <2>3, <2>6, WalkHas
  <2> QED BY <2>4, <2>5, <2>6
<1> QED BY <1>1, InvariantHolds, PTL

\* The reference counts are exact: no addref and no close of kobject.c, fs.c, device.c,
\* window.c and console.c is missing but those that leaked and orphans record.
THEOREM CountsMatchHolds == Spec => []CountsMatch
<1>1. IInv => CountsMatch
  <2>1. SUFFICES ASSUME TypeOK, Sound, NEW r \in Res \ FreeRes
                 PROVE  /\ res[r].refs = Cardinality(Entries(r)) + Cardinality(Holders(r))
                                         + Cardinality(Walking(r)) + leaked[r]
                        /\ res[r].refs > 0 \/ r \in orphans
                             \/ \E p \in Procs : At(p, "closing") /\ ktable[p][call[p].fd] = r
    BY DEF IInv, CountsMatch
  <2>2. Memory(res) /\ Shape
    BY <2>1, TypeIs
  <2>3. Holders(r) = HeldBy(res, r)
    BY <2>2, ObjectsAssumption DEF Holders, HeldBy, Memory, Free
  <2>4. /\ Cardinality(Entries(r)) \in Nat /\ Cardinality(Walking(r)) \in Nat /\ leaked[r] \in Nat
        /\ Cardinality(HeldBy(res, r)) \in Nat
    <3>1. IsFiniteSet(FDs) /\ IsFiniteSet(1 .. MaxParts) /\ IsFiniteSet(Procs)
      BY ObjectsAssumption, FS_Interval DEF FDs
    <3>2. IsFiniteSet(Procs \X FDs) /\ IsFiniteSet(Procs \X (1 .. MaxParts))
      BY <3>1, FS_Product
    <3>3. Cardinality(Entries(r)) \in Nat /\ Cardinality(Walking(r)) \in Nat
      BY <3>2, FS_Subset, FS_CardinalityType DEF Entries, Walking
    <3> QED BY <2>2, <3>3, HeldByFinite DEF Shape
  <2>5. /\ res[r].refs = Cardinality(HeldBy(res, r)) + Outside[r]
        /\ Outside[r] = Cardinality(Entries(r)) + Cardinality(Walking(r)) + leaked[r]
    BY <2>1 DEF Sound, Fits, Outside
  <2>6. res[r].refs = Cardinality(Entries(r)) + Cardinality(Holders(r))
                      + Cardinality(Walking(r)) + leaked[r]
    <3> HIDE DEF Outside
    <3> QED BY <2>3, <2>4, <2>5
  <2>7. ASSUME ~(res[r].refs > 0), r \notin orphans
        PROVE  \E p \in Procs : At(p, "closing") /\ ktable[p][call[p].fd] = r
    <3>1. res[r].refs \in Nat /\ res[r].kind # "free"
      BY <2>2 DEF Memory, Record, FreeRes
    <3>2. PICK p \in Procs : Closing(p) = r
      BY <2>1, <2>7, <3>1 DEF Sound, Kept, Spent
    <3>3. call[p].at = "closing" /\ ktable[p][call[p].fd] = r
      BY <3>2, ObjectsAssumption DEF Closing
    <3>4. Runs(p)
      BY <2>1, <3>3, IdleIsCall DEF Sound, Locals, Local, Rests
    <3> QED BY <3>3, <3>4 DEF At
  <2> QED BY <2>6, <2>7
<1> QED BY <1>1, InvariantHolds, PTL
=============================================================================

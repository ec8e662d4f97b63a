-------------------------- MODULE BlockCacheProofs --------------------------
(***************************************************************************)
(* Proofs about BlockCache, for every number of processes, blocks, entries *)
(* and writes and every size of the cache: until two calls race, nobody    *)
(* works on a deleted entry; and if no write-back fails either, the cache  *)
(* is coherent with the disk and what has been flushed is on it.           *)
(*                                                                         *)
(* The invariant says of each entry in use where it is (in the list, or    *)
(* popped by exactly one call), of each block where its last write is (in  *)
(* the list, on its way out of it, or on the disk), and of each flush that *)
(* what it has not reached yet is at or behind the entry it stands at.     *)
(***************************************************************************)
EXTENDS BlockCache, KListProofs

\* The calls of bcache_read_block and bcache_write_block that have their entry.
Accessing == {"trim", "evict", "evicted", "load", "loaded"}

\* What a call is like at each place.
Shaped(c) ==
  /\ c.at = "idle" => c = Idle
  /\ c.at = "miss" => /\ c.op \in {"read", "write"} /\ c.block \in Blocks
                      /\ c.e = NoEntry /\ ~c.hit
  /\ c.at \in Accessing => c.op \in {"read", "write"} /\ c.block \in Blocks /\ c.e \in Entries
  /\ c.at \in {"evict", "evicted"} => c.victim \in Entries
  /\ c.at \in {"load", "loaded"} => c.op = "read" /\ ~c.hit
  /\ c.at \in {"walk", "clean", "cleaned"} => c.op \in {"flush", "flush_block"}
  /\ c.at = "walk" => c.op = "flush"
  /\ c.at \in {"clean", "cleaned"} => c.e \in Entries

TInv == TypeOK /\ \A p \in Procs : Shaped(call[p])

Trimming == {p \in Procs : call[p].at \in {"trim", "evict", "evicted"}}

\* size never falls behind the length, and runs ahead of it once for each failed read.
SizeInv ==
  /\ Len(cache) <= size /\ size <= Len(cache) + failures
  /\ size <= max_cache_size + Cardinality(Trimming)

\* There is a version left for every write that has begun.
VersionInv ==
  /\ \A b \in Blocks : latest[b] \in Nat
  /\ Written + Cardinality(Writing) <= MaxWrites

Popping(p) == call[p].at \in {"evict", "evicted"}

\* An entry in use is in the list, or one call has popped it; whatever a call works
\* on is in use.
HeapInv ==
  /\ IsInjective(cache) /\ Range(cache) \subseteq heap
  /\ \A e \in heap : e \in Range(cache) \/ \E p \in Procs : Popping(p) /\ call[p].victim = e
  /\ \A p \in Procs : Popping(p) => call[p].victim \in heap \ Range(cache)
  /\ \A p, q \in Procs : Popping(p) /\ Popping(q) /\ call[p].victim = call[q].victim => p = q
  /\ \A p \in Procs : call[p].at \notin {"idle", "miss"} /\ call[p].e # NoEntry =>
                        call[p].e \in heap

\* A block is in the list once, and a call works on an entry of its block.
BlockInv ==
  /\ \A e \in heap : entry[e].block \in Blocks
  /\ \A p \in Procs : call[p].at \in Accessing => entry[call[p].e].block = call[p].block
  /\ \A e, f \in Range(cache) : entry[e].block = entry[f].block => e = f

Creating(p) == call[p].at \in Accessing /\ ~call[p].hit
Filling(p)  == Creating(p) /\ call[p].at # "loaded"

\* Only the call that has created an entry works on it before it is filled.
FillInv ==
  /\ \A p, q \in Procs : Creating(p) /\ Creating(q) /\ call[p].e = call[q].e => p = q
  /\ \A p \in Procs : Popping(p) => ~Unfilled(call[p].victim)
  /\ \A p \in Procs : call[p].at \in {"clean", "cleaned"} => ~Unfilled(call[p].e)
  /\ \A p \in Procs : call[p].at \in Accessing /\ call[p].hit => ~Unfilled(call[p].e)

Placed == HeapInv /\ BlockInv /\ FillInv
-----------------------------------------------------------------------------
(* The list.                                                               *)

\* y is x, or behind it in s.
Behind(s, x, y) == \E i, j \in DOMAIN s : i <= j /\ s[i] = x /\ s[j] = y

LEMMA PushHead ==
  ASSUME NEW s \in Seq(Entries), NEW e \in Entries
  PROVE  /\ <<e>> \o s \in Seq(Entries) /\ Len(<<e>> \o s) = Len(s) + 1
         /\ Range(<<e>> \o s) = Range(s) \cup {e}
         /\ IsInjective(s) /\ e \notin Range(s) => IsInjective(<<e>> \o s)
         /\ \A x, y : Behind(s, x, y) => Behind(<<e>> \o s, x, y)
<1> DEFINE t == <<e>> \o s
<1>1. /\ t \in Seq(Entries) /\ Len(t) = Len(s) + 1 /\ Len(s) \in Nat
      /\ DOMAIN s = 1 .. Len(s) /\ DOMAIN t = 1 .. Len(s) + 1
      /\ t[1] = e /\ \A i \in 1 .. Len(s) : t[i + 1] = s[i]
  OBVIOUS
<1>2. <<e>> \in Seq(Entries) /\ Range(<<e>>) = {e} /\ IsInjective(<<e>>)
  BY DEF Range, IsInjective
<1>3. /\ Range(t) = Range(<<e>>) \cup Range(s)
      /\ IsInjective(<<e>>) /\ IsInjective(s) /\ Range(<<e>>) \cap Range(s) = {} => IsInjective(t)
  <2> DEFINE u == <<e>>
  <2>1. u \in Seq(Entries)
    OBVIOUS
  <2> HIDE DEF u
  <2>2. /\ Range(u \o s) = Range(u) \cup Range(s)
        /\ IsInjective(u) /\ IsInjective(s) /\ Range(u) \cap Range(s) = {} => IsInjective(u \o s)
    BY <2>1, ConcatDistinct
  <2> QED BY <2>2 DEF u
<1> HIDE DEF t
<1>4. ASSUME NEW x, NEW y, Behind(s, x, y) PROVE Behind(t, x, y)
  <2>1. PICK i, j \in 1 .. Len(s) : i <= j /\ s[i] = x /\ s[j] = y
    BY <1>1, <1>4 DEF Behind
  <2>2. i + 1 \in DOMAIN t /\ j + 1 \in DOMAIN t /\ i + 1 <= j + 1
    BY <1>1, <2>1
  <2> QED BY <1>1, <2>1, <2>2 DEF Behind
<1> QED BY <1>1, <1>2, <1>3, <1>4 DEF t

LEMMA PopTail ==
  ASSUME NEW s \in Seq(Entries), s # <<>>, IsInjective(s)
  PROVE  LET t == SubSeq(s, 1, Len(s) - 1)
             v == s[Len(s)]
         IN  /\ t \in Seq(Entries) /\ Len(t) = Len(s) - 1 /\ v \in Range(s) /\ v \in Entries
             /\ Range(t) = Range(s) \ {v} /\ IsInjective(t)
             /\ \A x, y : Behind(s, x, y) /\ y # v => Behind(t, x, y)
<1> DEFINE t == SubSeq(s, 1, Len(s) - 1)
           v == s[Len(s)]
<1> DEFINE n == Len(s)
<1>0. n \in Nat /\ n >= 1 /\ DOMAIN s = 1 .. n
  OBVIOUS
<1>1. /\ t \in Seq(Entries) /\ Len(t) = n - 1 /\ DOMAIN t = 1 .. n - 1
      /\ \A i \in 1 .. n - 1 : t[i] = s[i]
      /\ v \in Entries /\ v = s[n] /\ n \in 1 .. n
  <2>1. 1 \in 1 .. n + 1 /\ n - 1 \in 0 .. n
    BY <1>0
  <2>2. t \in Seq(Entries) /\ Len(t) = n - 1
    BY <1>0, SubSeqProperties
  <2>3. \A i \in 1 .. n - 1 : t[i] = s[i]
    BY <1>0, <2>1
  <2> QED BY <1>0, <2>2, <2>3
<1> HIDE DEF t, n, v
<1>2. v \in Range(s)
  BY <1>0, <1>1 DEF Range
<1>3. Range(t) = Range(s) \ {v}
  <2>1. ASSUME NEW x \in Range(t) PROVE x \in Range(s) \ {v}
    <3>1. PICK i \in 1 .. n - 1 : x = s[i]
      BY <1>0, <1>1 DEF Range
    <3>2. i \in DOMAIN s /\ n \in DOMAIN s /\ i # n
      BY <1>0, <1>1
    <3>3. s[i] # s[n]
      BY <3>2 DEF IsInjective
    <3>4. x \in Range(s) /\ x # v
      BY <1>1, <3>1, <3>2, <3>3 DEF Range
    <3> QED BY <3>4
  <2>2. ASSUME NEW x \in Range(s) \ {v} PROVE x \in Range(t)
    <3>1. PICK i \in 1 .. n : x = s[i]
      BY <1>0, <1>1 DEF Range
    <3>2. i \in 1 .. n - 1
      BY <1>0, <1>1, <3>1, <2>2
    <3> QED BY <1>0, <1>1, <3>1, <3>2 DEF Range
  <2> QED BY <2>1, <2>2
<1>4. IsInjective(t)
  BY <1>0, <1>1 DEF IsInjective
<1>5. ASSUME NEW x, NEW y, Behind(s, x, y), y # v PROVE Behind(t, x, y)
  <2>1. PICK i, j \in 1 .. n : i <= j /\ s[i] = x /\ s[j] = y
    BY <1>0, <1>1, <1>5 DEF Behind
  <2>2. j # n
    BY <1>1, <1>5, <2>1
  <2>3. i \in 1 .. n - 1 /\ j \in 1 .. n - 1
    BY <1>0, <1>1, <2>1, <2>2
  <2> QED BY <1>0, <1>1, <2>1, <2>3 DEF Behind
<1> QED BY <1>0, <1>1, <1>2, <1>3, <1>4, <1>5 DEF t, n, v

LEMMA RemoveOne ==
  ASSUME NEW s \in Seq(Entries), NEW e, IsInjective(s)
  PROVE  /\ Without(s, {e}) \in Seq(Entries) /\ IsInjective(Without(s, {e}))
         /\ Range(Without(s, {e})) = Range(s) \ {e}
         /\ e \in Range(s) => Len(Without(s, {e})) = Len(s) - 1
         /\ \A x, y : Behind(s, x, y) /\ x # e /\ y # e => Behind(Without(s, {e}), x, y)
<1>1. ASSUME NEW x, NEW y, Behind(s, x, y), x # e, y # e PROVE Behind(Without(s, {e}), x, y)
  <2>1. PICK i, j \in DOMAIN s : i <= j /\ s[i] = x /\ s[j] = y
    BY <1>1 DEF Behind
  <2>2. s[i] \notin {e} /\ s[j] \notin {e}
    BY <1>1, <2>1
  <2> DEFINE K == {e}
  <2>3. \E k, l \in DOMAIN Without(s, K) :
          k <= l /\ Without(s, K)[k] = s[i] /\ Without(s, K)[l] = s[j]
    <3> HIDE DEF K
    <3>1. s[i] \notin K /\ s[j] \notin K
      BY <2>2 DEF K
    <3> QED BY <2>1, <3>1, WithoutOrder
  <2> QED BY <2>1, <2>3 DEF Behind
<1> QED BY <1>1, WithoutDistinct, WithoutOne

\* The walk of a flush: from the first entry, each to the one behind it.
LEMMA Walked ==
  ASSUME TypeOK, IsInjective(cache)
  PROVE  /\ cache # <<>> => cache[1] \in Range(cache) /\ cache[1] \in Entries
         /\ \A y \in Range(cache) : cache # <<>> /\ Behind(cache, cache[1], y)
         /\ \A x : Successor(x) \in Range(cache) \cup {NoEntry} /\ Successor(x) \in Entries \cup {NoEntry}
         /\ \A x, y : Behind(cache, x, y) /\ x # y => Behind(cache, Successor(x), y)
         /\ \A x, y : Behind(cache, x, y) => x \in Range(cache) /\ y \in Range(cache)
<1>1. Len(cache) \in Nat /\ DOMAIN cache = 1 .. Len(cache) /\ cache \in Seq(Entries)
  BY DEF TypeOK
<1>2. \A i \in 1 .. Len(cache) : cache[i] \in Range(cache) /\ cache[i] \in Entries
  BY <1>1 DEF Range
<1>3. cache # <<>> => 1 \in 1 .. Len(cache)
  BY <1>1
<1>4. ASSUME NEW y \in Range(cache) PROVE cache # <<>> /\ Behind(cache, cache[1], y)
  <2>1. PICK j \in 1 .. Len(cache) : cache[j] = y
    BY <1>1 DEF Range
  <2>2. 1 \in 1 .. Len(cache) /\ 1 <= j /\ cache # <<>>
    BY <1>1, <2>1
  <2> QED BY <1>1, <2>1, <2>2 DEF Behind
<1> DEFINE after(x) == {i \in DOMAIN cache : i > 1 /\ cache[i - 1] = x}
<1>5. ASSUME NEW x, NEW i \in 1 .. Len(cache) - 1, cache[i] = x
      PROVE  after(x) = {i + 1}
  <2>1. i \in DOMAIN cache /\ i + 1 \in DOMAIN cache /\ i + 1 > 1 /\ (i + 1) - 1 = i
    BY <1>1
  <2>2. ASSUME NEW k \in after(x) PROVE k = i + 1
    <3>1. k - 1 \in DOMAIN cache /\ cache[k - 1] = x
      BY <1>1
    <3>2. k - 1 = i
      BY <1>5, <2>1, <3>1 DEF IsInjective
    <3> QED BY <1>1, <3>2
  <2> QED BY <1>5, <2>1, <2>2
<1>6. ASSUME NEW i \in Int PROVE Min({i}) = i
  BY <1>6 DEF Min
<1>7. ASSUME NEW x, NEW y, Behind(cache, x, y), x # y PROVE Behind(cache, Successor(x), y)
  <2>1. PICK i, j \in 1 .. Len(cache) : i <= j /\ cache[i] = x /\ cache[j] = y
    BY <1>1, <1>7 DEF Behind
  <2>2. i \in 1 .. Len(cache) - 1 /\ i + 1 <= j /\ i + 1 \in 1 .. Len(cache) /\ i + 1 \in Int
    BY <1>1, <1>7, <2>1
  <2>3. after(x) = {i + 1}
    BY <1>5, <2>1, <2>2
  <2>4. Successor(x) = cache[i + 1]
    BY <1>6, <2>2, <2>3 DEF Successor
  <2> QED BY <1>1, <2>1, <2>2, <2>4 DEF Behind
<1>8. ASSUME NEW x PROVE Successor(x) \in Range(cache) \cup {NoEntry} /\ Successor(x) \in Entries \cup {NoEntry}
  <2>1. CASE after(x) = {}
    BY <2>1 DEF Successor
  <2>2. CASE after(x) # {}
    <3>1. Successor(x) = cache[Min(after(x))] /\ after(x) \in SUBSET DOMAIN cache
      BY <2>2 DEF Successor
    <3> HIDE DEF after
    <3> QED BY <1>1, <2>2, <3>1, FirstOfList
  <2> QED BY <2>1, <2>2
<1>9. \A x, y : Behind(cache, x, y) => x \in Range(cache) /\ y \in Range(cache)
  BY DEF Behind, Range
<1> QED BY <1>2, <1>3, <1>4, <1>7, <1>8, <1>9

\* bcache_find answers an entry of the block, if there is one in the list.
LEMMA FindSafe ==
  ASSUME TypeOK, NEW b \in Blocks
  PROVE  /\ bcache_find(b) \in Cached(b) \cup {NoEntry}
         /\ bcache_find(b) = NoEntry <=> Cached(b) = {}
         /\ Cached(b) \subseteq Entries
<1>1. cache \in Seq(Entries) /\ NoEntry \notin Entries
  BY BlockCacheAssumption DEF TypeOK
<1>2. Cached(b) \subseteq Entries
  BY <1>1 DEF Cached, Range
<1> DEFINE I == {i \in DOMAIN cache : entry[cache[i]].block = b}
<1>3. CASE Cached(b) = {}
  BY <1>2, <1>3 DEF bcache_find
<1>4. CASE Cached(b) # {}
  <2>1. bcache_find(b) = cache[Min(I)]
    BY <1>4 DEF bcache_find
  <2>2. I # {} /\ I \in SUBSET DOMAIN cache
    BY <1>4 DEF Cached, Range
  <2>3. Min(I) \in I
    <3>1. DOMAIN cache = 1 .. Len(cache) /\ Len(cache) \in Int
      BY <1>1
    <3>2. IsFiniteSet(DOMAIN cache) /\ DOMAIN cache \in SUBSET Int
      BY <3>1, FS_Interval
    <3> HIDE DEF I
    <3>3. IsFiniteSet(I) /\ I \in SUBSET Int
      BY <2>2, <3>2, FS_Subset
    <3> QED BY <2>2, <3>3, MinExists
  <2>4. bcache_find(b) \in Cached(b)
    BY <2>1, <2>3 DEF Cached, Range
  <2> QED BY <1>1, <1>2, <1>4, <2>4
<1> QED BY <1>2, <1>3, <1>4
-----------------------------------------------------------------------------
(* What a step does to the calls.                                          *)

\* The call of p becomes c, and no other call moves.
Calls(p, c) == c \in Call /\ Shaped(c) /\ call' = [call EXCEPT ![p] = c]

LEMMA CallsSafe ==
  ASSUME TInv, NEW p \in Procs, NEW c, Calls(p, c)
  PROVE  /\ call' \in [Procs -> Call] /\ \A q \in Procs : Shaped(call'[q])
         /\ call'[p] = c /\ \A q \in Procs \ {p} : call'[q] = call[q]
         /\ call[p] \in Call /\ Shaped(call[p])
<1>1. call \in [Procs -> Call] /\ \A q \in Procs : Shaped(call[q])
  BY DEF TInv, TypeOK
<1>2. call' = [call EXCEPT ![p] = c] /\ c \in Call /\ Shaped(c)
  BY DEF Calls
<1>3. call'[p] = c /\ \A q \in Procs \ {p} : call'[q] = call[q]
  BY <1>1, <1>2
<1>4. call' \in [Procs -> Call]
  BY <1>1, <1>2
<1> HIDE DEF Call, Shaped
<1>5. \A q \in Procs : Shaped(call'[q])
  BY <1>1, <1>2, <1>3
<1> QED BY <1>1, <1>3, <1>4, <1>5

\* How many calls are in the trim, or write.
TrimPlaces == {"trim", "evict", "evicted"}

LEMMA Counted ==
  ASSUME TInv, NEW p \in Procs, NEW c, Calls(p, c)
  PROVE  /\ Cardinality(Trimming) \in Nat /\ Cardinality(Trimming') \in Nat
         /\ Cardinality(Writing) \in Nat /\ Cardinality(Writing') \in Nat
         /\ Cardinality(Trimming') = Cardinality(Trimming)
              + (IF c.at \in TrimPlaces THEN 1 ELSE 0)
              - (IF call[p].at \in TrimPlaces THEN 1 ELSE 0)
         /\ Cardinality(Writing') = Cardinality(Writing)
              + (IF c.at # "idle" /\ c.op = "write" THEN 1 ELSE 0)
              - (IF call[p].at # "idle" /\ call[p].op = "write" THEN 1 ELSE 0)
<1>1. ASSUME NEW A \in SUBSET Procs, NEW B \in SUBSET Procs, NEW a \in BOOLEAN, NEW b \in BOOLEAN,
             p \in A <=> a, p \in B <=> b, \A q \in Procs \ {p} : q \in A <=> q \in B
      PROVE  /\ Cardinality(A) \in Nat /\ Cardinality(B) \in Nat
             /\ Cardinality(B) = Cardinality(A) + (IF b THEN 1 ELSE 0) - (IF a THEN 1 ELSE 0)
  <2>1. IsFiniteSet(A) /\ IsFiniteSet(B)
    BY BlockCacheAssumption, FS_Subset
  <2>2. Cardinality(A) \in Nat /\ Cardinality(B) \in Nat
    BY <2>1, FS_CardinalityType
  <2>3. CASE a <=> b
    <3>1. A = B
      BY <1>1, <2>3
    <3> QED BY <2>2, <2>3, <3>1
  <2>4. CASE a /\ ~b
    <3>1. B = A \ {p} /\ p \in A
      BY <1>1, <2>4
    <3>2. Cardinality(B) = Cardinality(A) - 1
      BY <2>1, <3>1, FS_RemoveElement
    <3> QED BY <2>2, <2>4, <3>2
  <2>5. CASE ~a /\ b
    <3>1. B = A \cup {p} /\ p \notin A
      BY <1>1, <2>5
    <3>2. Cardinality(B) = Cardinality(A) + 1
      BY <2>1, <3>1, FS_AddElement
    <3> QED BY <2>2, <2>5, <3>2
  <2> QED BY <2>3, <2>4, <2>5
<1>2. call'[p] = c /\ \A q \in Procs \ {p} : call'[q] = call[q]
  BY CallsSafe
<1>3. /\ Cardinality(Trimming) \in Nat /\ Cardinality(Trimming') \in Nat
      /\ Cardinality(Trimming') = Cardinality(Trimming)
           + (IF c.at \in TrimPlaces THEN 1 ELSE 0)
           - (IF call[p].at \in TrimPlaces THEN 1 ELSE 0)
  <2> DEFINE A == Trimming
             B == Trimming'
  <2>1. A \in SUBSET Procs /\ B \in SUBSET Procs
    BY DEF Trimming
  <2>2. p \in A <=> call[p].at \in TrimPlaces
    BY DEF Trimming, TrimPlaces
  <2>3. p \in B <=> c.at \in TrimPlaces
    BY <1>2 DEF Trimming, TrimPlaces
  <2>4. \A q \in Procs \ {p} : q \in A <=> q \in B
    BY <1>2 DEF Trimming
  <2> HIDE DEF A, B
  <2>5. (call[p].at \in TrimPlaces) \in BOOLEAN /\ (c.at \in TrimPlaces) \in BOOLEAN
    OBVIOUS
  <2>6. /\ Cardinality(A) \in Nat /\ Cardinality(B) \in Nat
        /\ Cardinality(B) = Cardinality(A) + (IF c.at \in TrimPlaces THEN 1 ELSE 0)
                                           - (IF call[p].at \in TrimPlaces THEN 1 ELSE 0)
    BY <1>1, <2>1, <2>2, <2>3, <2>4, <2>5
  <2> QED BY <2>6 DEF A, B
<1>4. /\ Cardinality(Writing) \in Nat /\ Cardinality(Writing') \in Nat
      /\ Cardinality(Writing') = Cardinality(Writing)
           + (IF c.at # "idle" /\ c.op = "write" THEN 1 ELSE 0)
           - (IF call[p].at # "idle" /\ call[p].op = "write" THEN 1 ELSE 0)
  <2> DEFINE A == Writing
             B == Writing'
             Writes(d) == d.at # "idle" /\ d.op = "write"
  <2>1. A \in SUBSET Procs /\ B \in SUBSET Procs
    BY DEF Writing
  <2>2. p \in A <=> Writes(call[p])
    BY DEF Writing
  <2>3. p \in B <=> Writes(c)
    BY <1>2 DEF Writing
  <2>4. \A q \in Procs \ {p} : q \in A <=> q \in B
    BY <1>2 DEF Writing
  <2>5. Writes(call[p]) \in BOOLEAN /\ Writes(c) \in BOOLEAN
    OBVIOUS
  <2> HIDE DEF A, B, Writes
  <2>6. /\ Cardinality(A) \in Nat /\ Cardinality(B) \in Nat
        /\ Cardinality(B) = Cardinality(A) + (IF Writes(c) THEN 1 ELSE 0)
                                           - (IF Writes(call[p]) THEN 1 ELSE 0)
    BY <1>1, <2>1, <2>2, <2>3, <2>4, <2>5
  <2> QED BY <2>6 DEF A, B, Writes
<1> QED BY <1>3, <1>4

\* Every version so far is at most Written.
LEMMA WrittenMost ==
  TypeOK /\ (\A b \in Blocks : latest[b] \in Nat) =>
         /\ Written \in Nat /\ Written <= MaxWrites
         /\ \A b \in Blocks : latest[b] <= Written
         /\ \E b \in Blocks : Written = latest[b]
<1> SUFFICES ASSUME TypeOK, \A b \in Blocks : latest[b] \in Nat
             PROVE  /\ Written \in Nat /\ Written <= MaxWrites
                    /\ \A b \in Blocks : latest[b] <= Written
                    /\ \E b \in Blocks : Written = latest[b]
  OBVIOUS
<1> DEFINE S == {latest[b] : b \in Blocks}
           f == [b \in Blocks |-> latest[b]]
<1>1. S # {} /\ S \in SUBSET Nat
  BY BlockCacheAssumption
<1>2. \A x \in S : x <= MaxWrites
  BY BlockCacheAssumption DEF TypeOK, Data, Junk
<1>3. IsFiniteSet(S)
  <2>1. f \in Surjection(Blocks, S)
    BY DEF Surjection
  <2> QED BY <2>1, FS_Surjection, BlockCacheAssumption
<1>4. (\A b \in Blocks : latest[b] \in S) /\ \A x \in S : \E b \in Blocks : x = latest[b]
  OBVIOUS
<1>5. Max(S) \in S /\ \A i \in S : i <= Max(S)
  <2> HIDE DEF S
  <2>1. S \in SUBSET Int
    BY <1>1
  <2> QED BY <1>1, <1>3, <2>1, MaxExists
<1>6. Written = Max(S)
  BY DEF Written
<1> HIDE DEF S
<1> QED BY <1>1, <1>2, <1>4, <1>5, <1>6

\* A cache that is full has a tail.
LEMMA FullHasTail ==
  ASSUME TInv, SizeInv, NEW p \in Procs, Full(p)
  PROVE  cache # <<>> /\ cache[Len(cache)] \in Entries
<1>1. /\ cache \in Seq(Entries) /\ size \in Nat /\ failures \in Nat /\ failures <= MaxFailures
      /\ Len(cache) \in Nat
  BY BlockCacheAssumption DEF TInv, TypeOK
<1>2. Len(cache) > 0
  BY <1>1, BlockCacheAssumption DEF SizeInv, Full
<1> QED BY <1>1, <1>2

\* Where each action takes the call of its process.
At(p, l) == [call[p] EXCEPT !.at = l]
Started(op, b) ==
  [at |-> IF bcache_find(b) = NoEntry THEN "miss" ELSE "trim", op |-> op, block |-> b,
   hit |-> bcache_find(b) # NoEntry, e |-> bcache_find(b), victim |-> NoEntry]
Created(p, e) == [call[p] EXCEPT !.at = "trim", !.e = e]
Popped(p, v) == [call[p] EXCEPT !.at = "evict", !.victim = v]
Deleted(p) == [call[p] EXCEPT !.at = "trim", !.victim = NoEntry]
Flushing(p) == [call[p] EXCEPT !.at = "walk", !.op = "flush", !.hit = TRUE,
                               !.e = IF cache = <<>> THEN NoEntry ELSE cache[1]]
Advanced(p) == [call[p] EXCEPT !.at = "walk", !.e = Successor(@)]
Cleaning(b) == [at |-> "clean", op |-> "flush_block", block |-> b, hit |-> TRUE,
                e |-> bcache_find(b), victim |-> NoEntry]

LEMMA Goes ==
  ASSUME TInv, NEW p \in Procs, NEW l, Goto(p, l), At(p, l) \in Call, Shaped(At(p, l))
  PROVE  Calls(p, At(p, l))
BY DEF TInv, TypeOK, Goto, At, Calls

LEMMA AccessCalls ==
  ASSUME TInv, SizeInv, NEW p \in Procs
  PROVE  /\ \A op \in {"read", "write"}, b \in Blocks : start(p, op, b) => Calls(p, Started(op, b))
         /\ out_of_memory(p) => Calls(p, Idle)
         /\ \A e \in Entries : call[p].at = "miss" => Created(p, e) \in Call /\ Shaped(Created(p, e))
         /\ Full(p) => Popped(p, cache[Len(cache)]) \in Call /\ Shaped(Popped(p, cache[Len(cache)]))
         /\ evict_write(p) => Calls(p, At(p, "evicted"))
         /\ evict_delete(p) => Calls(p, Deleted(p))
         /\ read_hit(p) => Calls(p, Idle)
         /\ read_miss(p) => Calls(p, At(p, "load"))
         /\ device_read(p) => Calls(p, At(p, "loaded"))
         /\ device_read_fails(p) => Calls(p, Idle)
         /\ read_loaded(p) => Calls(p, Idle)
         /\ write_block(p) => Calls(p, Idle)
<1>1. call \in [Procs -> Call] /\ call[p] \in Call /\ Shaped(call[p]) /\ TypeOK
  BY DEF TInv, TypeOK
<1>2. Return(p) => Calls(p, Idle)
  <2>1. Idle \in Call /\ Shaped(Idle)
    BY DEF Idle, Call, Shaped, Accessing
  <2> QED BY <2>1 DEF Return, Calls
<1>3. ASSUME NEW op \in {"read", "write"}, NEW b \in Blocks, start(p, op, b)
      PROVE  Calls(p, Started(op, b))
  <2>1. bcache_find(b) \in Entries \cup {NoEntry}
    BY <1>1, FindSafe
  <2>2. call' = [call EXCEPT ![p] = Started(op, b)]
    BY <1>3 DEF start, Started
  <2>3. Started(op, b) \in Call /\ Shaped(Started(op, b))
    BY <2>1, BlockCacheAssumption DEF Started, Call, Shaped, Accessing
  <2> QED BY <2>2, <2>3 DEF Calls
<1>4. ASSUME NEW e \in Entries, call[p].at = "miss"
      PROVE  Created(p, e) \in Call /\ Shaped(Created(p, e))
  BY <1>1, <1>4 DEF Created, Call, Shaped, Accessing
<1>5. ASSUME Full(p)
      PROVE  Popped(p, cache[Len(cache)]) \in Call /\ Shaped(Popped(p, cache[Len(cache)]))
  BY <1>1, <1>5, FullHasTail DEF Full, Popped, Call, Shaped, Accessing
<1>6. evict_write(p) => Calls(p, At(p, "evicted"))
  <2> SUFFICES ASSUME evict_write(p) PROVE Calls(p, At(p, "evicted"))
    OBVIOUS
  <2>1. Goto(p, "evicted") /\ call[p].at = "evict"
    BY DEF evict_write
  <2>2. At(p, "evicted") \in Call /\ Shaped(At(p, "evicted"))
    BY <1>1, <2>1 DEF At, Call, Shaped, Accessing
  <2> QED BY <2>1, <2>2, Goes
<1>7. evict_delete(p) => Calls(p, Deleted(p))
  <2> SUFFICES ASSUME evict_delete(p) PROVE Calls(p, Deleted(p))
    OBVIOUS
  <2>1. call' = [call EXCEPT ![p] = Deleted(p)]
    BY <1>1 DEF evict_delete, Deleted
  <2>2. Deleted(p) \in Call /\ Shaped(Deleted(p))
    BY <1>1 DEF evict_delete, Deleted, Call, Shaped, Accessing
  <2> QED BY <2>1, <2>2 DEF Calls
<1>8. read_miss(p) => Calls(p, At(p, "load"))
  <2> SUFFICES ASSUME read_miss(p) PROVE Calls(p, At(p, "load"))
    OBVIOUS
  <2>1. Goto(p, "load") /\ call[p].at = "trim" /\ call[p].op = "read" /\ ~call[p].hit
    BY DEF read_miss, Trimmed
  <2>2. At(p, "load") \in Call /\ Shaped(At(p, "load"))
    BY <1>1, <2>1 DEF At, Call, Shaped, Accessing
  <2> QED BY <2>1, <2>2, Goes
<1>9. device_read(p) => Calls(p, At(p, "loaded"))
  <2> SUFFICES ASSUME device_read(p) PROVE Calls(p, At(p, "loaded"))
    OBVIOUS
  <2>1. Goto(p, "loaded") /\ call[p].at = "load"
    BY DEF device_read
  <2>2. At(p, "loaded") \in Call /\ Shaped(At(p, "loaded"))
    BY <1>1, <2>1 DEF At, Call, Shaped, Accessing
  <2> QED BY <2>1, <2>2, Goes
<1>10. /\ out_of_memory(p) => Return(p)
       /\ read_hit(p) => Return(p)
       /\ device_read_fails(p) => Return(p)
       /\ read_loaded(p) => Return(p)
       /\ write_block(p) => Return(p)
  BY DEF out_of_memory, read_hit, device_read_fails, read_loaded, write_block, Copy
<1> QED BY <1>2, <1>3, <1>4, <1>5, <1>6, <1>7, <1>8, <1>9, <1>10

LEMMA FlushCalls ==
  ASSUME TInv, SizeInv, raced \/ Placed, ~raced, NEW p \in Procs
  PROVE  /\ flush(p) => Calls(p, Flushing(p))
         /\ walk_clean(p) => \/ entry[call[p].e].dirty /\ Calls(p, At(p, "clean"))
                             \/ ~entry[call[p].e].dirty /\ Calls(p, Advanced(p))
         /\ clean_write(p) => Calls(p, At(p, "cleaned"))
         /\ clean_done(p) => \/ call[p].op = "flush" /\ Calls(p, Advanced(p))
                             \/ call[p].op # "flush" /\ Calls(p, Idle)
         /\ flush_return(p) => Calls(p, Idle)
         /\ \A b \in Blocks : flush_block(p, b) => Calls(p, Cleaning(b))
<1>1. call \in [Procs -> Call] /\ call[p] \in Call /\ Shaped(call[p]) /\ TypeOK
  BY DEF TInv, TypeOK
<1>2. Idle \in Call /\ Shaped(Idle)
  BY DEF Idle, Call, Shaped, Accessing
<1>3. IsInjective(cache)
  BY DEF Placed, HeapInv
<1>4. ASSUME call[p].at \in {"walk", "cleaned"}, call[p].op = "flush"
      PROVE  Advanced(p) \in Call /\ Shaped(Advanced(p)) /\ Advance(p) = [call EXCEPT ![p] = Advanced(p)]
  <2>1. Successor(call[p].e) \in Entries \cup {NoEntry}
    BY <1>1, <1>3, Walked
  <2>2. Advance(p) = [call EXCEPT ![p] = Advanced(p)]
    BY <1>1 DEF Advance, Advanced
  <2> QED BY <1>1, <1>4, <2>1, <2>2 DEF Advanced, Call, Shaped, Accessing
<1>5. flush(p) => Calls(p, Flushing(p))
  <2> SUFFICES ASSUME flush(p) PROVE Calls(p, Flushing(p))
    OBVIOUS
  <2>1. call' = [call EXCEPT ![p] = Flushing(p)]
    BY <1>1 DEF flush, Flushing
  <2>2. cache # <<>> => cache[1] \in Entries
    BY <1>1, <1>3, Walked
  <2>3. Flushing(p) \in Call /\ Shaped(Flushing(p))
    BY <1>1, <2>2 DEF Flushing, Call, Shaped, Accessing
  <2> QED BY <2>1, <2>3 DEF Calls
<1>6. walk_clean(p) => \/ entry[call[p].e].dirty /\ Calls(p, At(p, "clean"))
                       \/ ~entry[call[p].e].dirty /\ Calls(p, Advanced(p))
  <2> SUFFICES ASSUME walk_clean(p)
               PROVE  \/ entry[call[p].e].dirty /\ Calls(p, At(p, "clean"))
                      \/ ~entry[call[p].e].dirty /\ Calls(p, Advanced(p))
    OBVIOUS
  <2>1. call[p].at = "walk" /\ call[p].e # NoEntry /\ call[p].op = "flush"
    BY <1>1 DEF walk_clean, Shaped
  <2>2. CASE entry[call[p].e].dirty
    <3>1. Goto(p, "clean")
      BY <2>2 DEF walk_clean
    <3>2. At(p, "clean") \in Call /\ Shaped(At(p, "clean"))
      BY <1>1, <2>1 DEF At, Call, Shaped, Accessing
    <3> QED BY <2>2, <3>1, <3>2, Goes
  <2>3. CASE ~entry[call[p].e].dirty
    <3>1. call' = Advance(p)
      BY <2>3 DEF walk_clean
    <3> QED BY <1>4, <2>1, <2>3, <3>1 DEF Calls
  <2> QED BY <2>2, <2>3
<1>7. clean_write(p) => Calls(p, At(p, "cleaned"))
  <2> SUFFICES ASSUME clean_write(p) PROVE Calls(p, At(p, "cleaned"))
    OBVIOUS
  <2>1. Goto(p, "cleaned") /\ call[p].at = "clean"
    BY DEF clean_write
  <2>2. At(p, "cleaned") \in Call /\ Shaped(At(p, "cleaned"))
    BY <1>1, <2>1 DEF At, Call, Shaped, Accessing
  <2> QED BY <2>1, <2>2, Goes
<1>8. clean_done(p) => \/ call[p].op = "flush" /\ Calls(p, Advanced(p))
                       \/ call[p].op # "flush" /\ Calls(p, Idle)
  <2> SUFFICES ASSUME clean_done(p)
               PROVE  \/ call[p].op = "flush" /\ Calls(p, Advanced(p))
                      \/ call[p].op # "flush" /\ Calls(p, Idle)
    OBVIOUS
  <2>1. /\ call[p].at = "cleaned"
        /\ call' = IF call[p].op = "flush" THEN Advance(p) ELSE [call EXCEPT ![p] = Idle]
    BY DEF clean_done
  <2>2. CASE call[p].op = "flush"
    BY <1>4, <2>1, <2>2 DEF Calls
  <2>3. CASE call[p].op # "flush"
    BY <1>2, <2>1, <2>3 DEF Calls
  <2> QED BY <2>2, <2>3
<1>9. flush_return(p) => Calls(p, Idle)
  BY <1>2 DEF flush_return, Return, Calls
<1>10. ASSUME NEW b \in Blocks, flush_block(p, b) PROVE Calls(p, Cleaning(b))
  <2>1. bcache_find(b) \in Entries /\ call' = [call EXCEPT ![p] = Cleaning(b)]
    BY <1>1, <1>10, FindSafe DEF flush_block, Cleaning
  <2>2. Cleaning(b) \in Call /\ Shaped(Cleaning(b))
    BY <2>1 DEF Cleaning, Call, Shaped, Accessing
  <2> QED BY <2>1, <2>2 DEF Calls
<1> QED BY <1>5, <1>6, <1>7, <1>8, <1>9, <1>10
-----------------------------------------------------------------------------
(* Types, the size of the list, and the versions of the blocks.            *)

Counts == SizeInv /\ VersionInv

LEMMA InitCounts == Init => TInv /\ Counts
<1> SUFFICES ASSUME Init PROVE TInv /\ Counts
  OBVIOUS
<1>1. 0 \in Data /\ Junk \in Data /\ MaxWrites \in Nat /\ MaxFailures \in Nat
  BY BlockCacheAssumption DEF Data, Junk
<1>2. Idle \in Call /\ Shaped(Idle)
  BY DEF Idle, Call, Shaped, Accessing
<1>3. NoBlock \in Entry
  BY <1>1 DEF NoBlock, Entry
<1>4. /\ cache = <<>> /\ size = 0 /\ heap = {} /\ failures = 0
      /\ disk = [b \in Blocks |-> 0] /\ entry = [e \in Entries |-> NoBlock]
      /\ call = [p \in Procs |-> Idle] /\ latest = disk
      /\ answer = [p \in Procs |-> 0] /\ promise = [p \in Procs |-> disk]
      /\ raced = FALSE /\ lost = FALSE
  BY DEF Init
<1>5. TypeOK
  <2>1. disk \in [Blocks -> Data] /\ latest \in [Blocks -> Data]
    BY <1>1, <1>4
  <2>2. entry \in [Entries -> Entry] /\ call \in [Procs -> Call]
    BY <1>2, <1>3, <1>4
  <2>3. answer \in [Procs -> Data] /\ promise \in [Procs -> [Blocks -> Data]]
    <3> HIDE DEF Data
    <3> QED BY <1>1, <1>4, <2>1
  <2>4. cache \in Seq(Entries) /\ size \in Nat /\ heap \in SUBSET Entries
    BY <1>4
  <2>5. failures \in 0 .. MaxFailures
    BY <1>1, <1>4
  <2>6. raced \in BOOLEAN /\ lost \in BOOLEAN
    BY <1>4
  <2> QED BY <2>1, <2>2, <2>3, <2>4, <2>5, <2>6 DEF TypeOK
<1>6. TInv
  BY <1>2, <1>4, <1>5 DEF TInv
<1>7. \A p \in Procs : call[p].at = "idle"
  BY <1>4 DEF Idle
<1>8. Trimming = {} /\ Writing = {}
  BY <1>7 DEF Trimming, Writing
<1>9. Cardinality(Trimming) = 0 /\ Cardinality(Writing) = 0
  BY <1>8, FS_EmptySet
<1>10. SizeInv
  BY <1>1, <1>4, <1>9, BlockCacheAssumption DEF SizeInv
<1>11. (\A b \in Blocks : latest[b] = 0) /\ Written = 0
  <2>1. \A b \in Blocks : latest[b] = 0
    BY <1>4
  <2> QED BY <1>5, <2>1, WrittenMost
<1>12. VersionInv
  BY <1>1, <1>9, <1>11 DEF VersionInv
<1> QED BY <1>6, <1>10, <1>12 DEF Counts

\* A call that moves with the list and the versions as they are.
LEMMA QuietCounts ==
  ASSUME TInv, Counts, NEW p \in Procs, NEW c, Calls(p, c),
         UNCHANGED <<cache, size, latest>>, failures' \in 0 .. MaxFailures, failures <= failures',
         call[p].at \in TrimPlaces /\ c.at \notin TrimPlaces => size <= max_cache_size,
         c.at # "idle" /\ c.op = "write" => \/ call[p].at # "idle" /\ call[p].op = "write"
                                            \/ Written + Cardinality(Writing) < MaxWrites
  PROVE  Counts'
<1>1. /\ Cardinality(Trimming) \in Nat /\ Cardinality(Trimming') \in Nat
      /\ Cardinality(Writing) \in Nat /\ Cardinality(Writing') \in Nat
      /\ Cardinality(Trimming') = Cardinality(Trimming)
           + (IF c.at \in TrimPlaces THEN 1 ELSE 0)
           - (IF call[p].at \in TrimPlaces THEN 1 ELSE 0)
      /\ Cardinality(Writing') = Cardinality(Writing)
           + (IF c.at # "idle" /\ c.op = "write" THEN 1 ELSE 0)
           - (IF call[p].at # "idle" /\ call[p].op = "write" THEN 1 ELSE 0)
  BY Counted
<1>2. /\ size \in Nat /\ Len(cache) \in Nat /\ failures \in Nat /\ max_cache_size \in Nat
      /\ MaxWrites \in Nat /\ failures' \in Nat
  BY BlockCacheAssumption DEF TInv, TypeOK
<1>3. Written \in Nat /\ \A b \in Blocks : latest[b] \in Nat
  BY WrittenMost DEF TInv, Counts, VersionInv
<1>4. SizeInv'
  <2>1. Len(cache)' = Len(cache) /\ size' = size
    OBVIOUS
  <2>2. size <= max_cache_size + Cardinality(Trimming)'
    BY <1>1, <1>2 DEF Counts, SizeInv
  <2> QED BY <1>2, <2>1, <2>2 DEF Counts, SizeInv
<1>5. VersionInv'
  <2>1. Written' = Written
    BY DEF Written
  <2>2. Written + Cardinality(Writing)' <= MaxWrites
    BY <1>1, <1>2, <1>3 DEF Counts, VersionInv
  <2> QED BY <1>3, <2>1, <2>2 DEF VersionInv
<1> QED BY <1>4, <1>5 DEF Counts

\* The types of what is not the list, the calls or the promises.
LEMMA EntryTypes ==
  ASSUME TInv
  PROVE  /\ \A e \in Entries : entry[e] \in Entry
         /\ NoBlock \in Entry
         /\ \A e : bcache_entry_delete(e) => entry' \in [Entries -> Entry] /\ heap' \in SUBSET Entries
         /\ \A p \in Procs, e \in Entries : device_write(p, e) =>
              /\ disk' \in [Blocks -> Data] /\ failures' \in 0 .. MaxFailures
              /\ failures <= failures' /\ raced' \in BOOLEAN /\ lost' \in BOOLEAN
<1>1. /\ entry \in [Entries -> Entry] /\ heap \in SUBSET Entries /\ disk \in [Blocks -> Data]
      /\ failures \in 0 .. MaxFailures /\ raced \in BOOLEAN /\ lost \in BOOLEAN /\ MaxFailures \in Nat
  BY BlockCacheAssumption DEF TInv, TypeOK
<1>2. NoBlock \in Entry
  BY BlockCacheAssumption DEF NoBlock, Entry, Data, Junk
<1>3. ASSUME NEW e, bcache_entry_delete(e)
      PROVE  entry' \in [Entries -> Entry] /\ heap' \in SUBSET Entries
  BY <1>1, <1>2, <1>3 DEF bcache_entry_delete
<1>4. ASSUME NEW p \in Procs, NEW e \in Entries, device_write(p, e)
      PROVE  /\ disk' \in [Blocks -> Data] /\ failures' \in 0 .. MaxFailures
             /\ failures <= failures' /\ raced' \in BOOLEAN /\ lost' \in BOOLEAN
  <2>1. entry[e].data \in Data
    BY <1>1 DEF Entry
  <2>2. disk' \in [Blocks -> Data]
    <3> HIDE DEF Data
    <3> QED BY <1>1, <1>4, <2>1 DEF device_write
  <2>3. failures' \in 0 .. MaxFailures /\ failures <= failures'
    <3>1. failures' = failures \/ (failures < MaxFailures /\ failures' = failures + 1)
      BY <1>4 DEF device_write
    <3> QED BY <1>1, <3>1
  <2>5. lost' \in BOOLEAN
    <3>1. lost' = lost \/ lost' = TRUE
      BY <1>4 DEF device_write
    <3> QED BY <1>1, <3>1
  <2>4. raced' \in BOOLEAN
    <3>1. raced' = (raced \/ EvictedBeside(p, entry[e].block) \/ PoppedBeside(p, e))
      BY <1>4 DEF device_write
    <3> QED BY <3>1
  <2> QED BY <2>2, <2>3, <2>4, <2>5
<1> QED BY <1>1, <1>2, <1>3, <1>4

LEMMA Assembled ==
  ASSUME TInv, NEW p \in Procs, NEW c, Calls(p, c),
         cache' \in Seq(Entries), size' \in Nat, entry' \in [Entries -> Entry],
         heap' \in SUBSET Entries, disk' \in [Blocks -> Data], latest' \in [Blocks -> Data],
         answer' \in [Procs -> Data], promise' \in [Procs -> [Blocks -> Data]],
         failures' \in 0 .. MaxFailures, raced' \in BOOLEAN, lost' \in BOOLEAN
  PROVE  TInv'
<1>1. call' \in [Procs -> Call] /\ \A q \in Procs : Shaped(call'[q])
  BY CallsSafe
<1> HIDE DEF Call, Entry, Data, Shaped
<1> QED BY <1>1 DEF TInv, TypeOK

\* A step of p that only moves its call, if it does not end a bcache_trim that has
\* more to do or begin a write that has no version.
LEMMA QuietTypes ==
  ASSUME TInv, Counts, NEW p \in Procs, NEW c, Calls(p, c),
         UNCHANGED <<cache, size, latest>>,
         entry' \in [Entries -> Entry], heap' \in SUBSET Entries, disk' \in [Blocks -> Data],
         answer' \in [Procs -> Data], promise' \in [Procs -> [Blocks -> Data]],
         failures' \in 0 .. MaxFailures, failures <= failures',
         raced' \in BOOLEAN, lost' \in BOOLEAN,
         call[p].at \in TrimPlaces /\ c.at \notin TrimPlaces => size <= max_cache_size,
         c.at # "idle" /\ c.op = "write" => \/ call[p].at # "idle" /\ call[p].op = "write"
                                            \/ Written + Cardinality(Writing) < MaxWrites
  PROVE  TInv' /\ Counts'
<1>1. cache' \in Seq(Entries) /\ size' \in Nat /\ latest' \in [Blocks -> Data]
  BY DEF TInv, TypeOK
<1>2. TInv'
  BY <1>1, Assembled
<1>3. Counts'
  BY QuietCounts
<1> QED BY <1>2, <1>3

\* What no quiet step changes has its type.
LEMMA TypesNow ==
  ASSUME TInv
  PROVE  /\ cache \in Seq(Entries) /\ size \in Nat /\ entry \in [Entries -> Entry]
         /\ heap \in SUBSET Entries /\ disk \in [Blocks -> Data] /\ latest \in [Blocks -> Data]
         /\ answer \in [Procs -> Data] /\ promise \in [Procs -> [Blocks -> Data]]
         /\ failures \in 0 .. MaxFailures /\ failures <= failures
         /\ raced \in BOOLEAN /\ lost \in BOOLEAN
BY BlockCacheAssumption DEF TInv, TypeOK

LEMMA StartTypes ==
  ASSUME TInv, Counts, NEW p \in Procs, NEW op \in {"read", "write"}, NEW b \in Blocks, start(p, op, b)
  PROVE  TInv' /\ Counts'
<1>1. Calls(p, Started(op, b))
  BY AccessCalls DEF Counts
<1>2. /\ UNCHANGED <<cache, size, entry, heap, disk, latest, answer, promise, failures, lost>>
      /\ call[p].at = "idle"
      /\ op = "write" => Written + Cardinality(Writing) < MaxWrites
      /\ Started(op, b).op = op
  BY DEF start, Started
<1>3. raced' \in BOOLEAN
  BY TypesNow DEF start
<1> QED BY <1>1, <1>2, <1>3, QuietTypes, TypesNow DEF TrimPlaces

LEMMA AccessTypes ==
  ASSUME TInv, Counts, NEW p \in Procs,
         \/ out_of_memory(p) \/ evict_write(p) \/ evict_delete(p)
         \/ read_hit(p) \/ read_miss(p) \/ device_read(p) \/ read_loaded(p)
  PROVE  TInv' /\ Counts'
<1>1. call[p] \in Call /\ Shaped(call[p]) /\ SizeInv
  BY DEF TInv, TypeOK, Counts
<1>2. Idle.at = "idle"
  BY DEF Idle
<1>3. CASE out_of_memory(p)
  <2>1. /\ UNCHANGED <<cache, size, entry, heap, disk, latest, answer, promise, failures, raced, lost>>
        /\ call[p].at = "miss" /\ Calls(p, Idle)
    BY <1>1, <1>3, AccessCalls DEF out_of_memory
  <2> QED BY <1>2, <2>1, QuietTypes, TypesNow DEF TrimPlaces
<1>4. CASE evict_write(p)
  <2>1. /\ device_write(p, call[p].victim) /\ call[p].at = "evict" /\ call[p].victim \in Entries
        /\ Calls(p, At(p, "evicted")) /\ At(p, "evicted").at = "evicted"
        /\ At(p, "evicted").op = call[p].op
    BY <1>1, <1>4, AccessCalls DEF evict_write, At, Call, Shaped
  <2>2. UNCHANGED <<cache, size, entry, heap, latest, answer, promise>>
    BY <2>1 DEF device_write
  <2>3. /\ disk' \in [Blocks -> Data] /\ failures' \in 0 .. MaxFailures
        /\ failures <= failures' /\ raced' \in BOOLEAN /\ lost' \in BOOLEAN
    BY <2>1, EntryTypes
  <2> QED BY <2>1, <2>2, <2>3, QuietTypes, TypesNow DEF TrimPlaces
<1>5. CASE evict_delete(p)
  <2>1. /\ call[p].at = "evicted" /\ bcache_entry_delete(call[p].victim)
        /\ Calls(p, Deleted(p)) /\ Deleted(p).at = "trim" /\ Deleted(p).op = call[p].op
    BY <1>1, <1>5, AccessCalls DEF evict_delete, Deleted, Call
  <2>2. UNCHANGED <<cache, size, disk, latest, answer, promise, failures, lost>>
    BY <1>5 DEF evict_delete
  <2>3. entry' \in [Entries -> Entry] /\ heap' \in SUBSET Entries
    BY <2>1, EntryTypes
  <2>4. raced' \in BOOLEAN
    BY <1>5, TypesNow DEF evict_delete
  <2> QED BY <2>1, <2>2, <2>3, <2>4, QuietTypes, TypesNow DEF TrimPlaces
<1>6. ASSUME Copy(p), Calls(p, Idle), call[p].e \in Entries,
             call[p].at \in TrimPlaces => size <= max_cache_size
      PROVE  TInv' /\ Counts'
  <2>1. UNCHANGED <<cache, size, entry, heap, disk, latest, promise, failures, lost>>
    BY <1>6 DEF Copy
  <2>2. entry[call[p].e].data \in Data
    BY <1>6, EntryTypes DEF Entry
  <2>3. answer' \in [Procs -> Data] /\ raced' \in BOOLEAN
    <3> HIDE DEF Data
    <3> QED BY <1>6, <2>2, TypesNow DEF Copy
  <2> QED BY <1>2, <1>6, <2>1, <2>3, QuietTypes, TypesNow
<1>7. CASE read_hit(p)
  <2>1. Copy(p) /\ call[p].at = "trim" /\ ~(size > max_cache_size)
    BY <1>7 DEF read_hit, Trimmed, Full
  <2>2. size <= max_cache_size
    BY <2>1, TypesNow, BlockCacheAssumption
  <2> QED BY <1>1, <1>6, <1>7, <2>1, <2>2, AccessCalls DEF Shaped, Accessing
<1>8. CASE read_loaded(p)
  <2>1. Copy(p) /\ call[p].at = "loaded"
    BY <1>8 DEF read_loaded
  <2> QED BY <1>1, <1>6, <1>8, <2>1, AccessCalls DEF Shaped, Accessing, TrimPlaces
<1>9. CASE read_miss(p)
  <2>1. /\ UNCHANGED <<cache, size, entry, heap, disk, latest, answer, promise, failures, raced, lost>>
        /\ call[p].at = "trim" /\ ~(size > max_cache_size)
        /\ Calls(p, At(p, "load")) /\ At(p, "load").at = "load" /\ At(p, "load").op = call[p].op
    BY <1>1, <1>9, AccessCalls DEF read_miss, Trimmed, Full, At, Call
  <2>2. size <= max_cache_size
    BY <2>1, TypesNow, BlockCacheAssumption
  <2> QED BY <2>1, <2>2, QuietTypes, TypesNow DEF TrimPlaces
<1>10. CASE device_read(p)
  <2>1. /\ UNCHANGED <<cache, size, heap, disk, latest, answer, promise, failures, lost>>
        /\ call[p].at = "load" /\ call[p].block \in Blocks /\ call[p].e \in Entries
        /\ Calls(p, At(p, "loaded")) /\ At(p, "loaded").at = "loaded"
        /\ At(p, "loaded").op = call[p].op
    BY <1>1, <1>10, AccessCalls DEF device_read, At, Call, Shaped, Accessing
  <2>2. entry' \in [Entries -> Entry]
    <3>1. /\ entry' = [entry EXCEPT ![call[p].e].data = disk[call[p].block]]
          /\ disk[call[p].block] \in Data
      BY <1>10, <2>1, TypesNow DEF device_read
    <3> HIDE DEF Data
    <3> QED BY <2>1, <3>1, TypesNow DEF Entry
  <2>3. raced' \in BOOLEAN
    BY <1>10, TypesNow DEF device_read
  <2> QED BY <2>1, <2>2, <2>3, QuietTypes, TypesNow DEF TrimPlaces
<1> QED BY <1>3, <1>4, <1>5, <1>7, <1>8, <1>9, <1>10

LEMMA FlushTypes ==
  ASSUME TInv, Counts, Placed, ~raced, NEW p \in Procs, Flush(p)
  PROVE  TInv' /\ Counts'
<1>1. call[p] \in Call /\ Shaped(call[p]) /\ SizeInv
  BY DEF TInv, TypeOK, Counts
<1>2. Idle.at = "idle"
  BY DEF Idle
<1>3. CASE flush(p)
  <2>1. /\ UNCHANGED <<cache, size, entry, heap, disk, latest, answer, failures, raced, lost>>
        /\ call[p].at = "idle" /\ Calls(p, Flushing(p)) /\ Flushing(p).op = "flush"
    BY <1>1, <1>3, FlushCalls DEF flush, Flushing, Call
  <2>2. promise' \in [Procs -> [Blocks -> Data]]
    <3> HIDE DEF Data
    <3> QED BY <1>3, TypesNow DEF flush
  <2> QED BY <2>1, <2>2, QuietTypes, TypesNow DEF TrimPlaces
<1>4. CASE walk_clean(p)
  <2>1. /\ UNCHANGED <<cache, size, entry, heap, disk, latest, answer, promise, failures, lost>>
        /\ call[p].at = "walk" /\ call[p].op = "flush"
    BY <1>1, <1>4 DEF walk_clean, Shaped
  <2>2. PICK c \in {At(p, "clean"), Advanced(p)} : Calls(p, c)
    BY <1>1, <1>4, FlushCalls
  <2>3. c.op = "flush" /\ c.at # "idle"
    BY <1>1, <2>1, <2>2 DEF At, Advanced, Call
  <2>4. raced' \in BOOLEAN
    BY <1>4, TypesNow DEF walk_clean
  <2> QED BY <2>1, <2>2, <2>3, <2>4, QuietTypes, TypesNow DEF TrimPlaces
<1>5. CASE clean_write(p)
  <2>1. /\ device_write(p, call[p].e) /\ call[p].at = "clean" /\ call[p].e \in Entries
        /\ Calls(p, At(p, "cleaned")) /\ At(p, "cleaned").op = call[p].op
    BY <1>1, <1>5, FlushCalls DEF clean_write, At, Call, Shaped
  <2>2. UNCHANGED <<cache, size, entry, heap, latest, answer, promise>>
    BY <2>1 DEF device_write
  <2>3. /\ disk' \in [Blocks -> Data] /\ failures' \in 0 .. MaxFailures
        /\ failures <= failures' /\ raced' \in BOOLEAN /\ lost' \in BOOLEAN
    BY <2>1, EntryTypes
  <2> QED BY <2>1, <2>2, <2>3, QuietTypes, TypesNow DEF TrimPlaces
<1>6. CASE clean_done(p)
  <2>1. /\ UNCHANGED <<cache, size, heap, disk, latest, answer, promise, failures, raced, lost>>
        /\ call[p].at = "cleaned" /\ call[p].op \in {"flush", "flush_block"}
        /\ entry' = [entry EXCEPT ![call[p].e].dirty = FALSE]
    BY <1>1, <1>6 DEF clean_done, Shaped
  <2>2. PICK c \in {Idle, Advanced(p)} : Calls(p, c)
    BY <1>1, <1>6, FlushCalls
  <2>3. c.op # "write"
    <3>1. Idle.op = "none"
      BY DEF Idle
    <3>2. Advanced(p).op = call[p].op
      BY <1>1 DEF Advanced, Call
    <3> QED BY <2>1, <2>2, <3>1, <3>2
  <2>4. entry' \in [Entries -> Entry]
    BY <2>1, TypesNow DEF Entry
  <2> QED BY <2>1, <2>2, <2>3, <2>4, QuietTypes, TypesNow DEF TrimPlaces
<1>7. CASE flush_return(p)
  <2>1. /\ UNCHANGED <<cache, size, entry, heap, disk, latest, answer, failures, raced, lost>>
        /\ call[p].at = "walk" /\ Calls(p, Idle)
        /\ promise' = [promise EXCEPT ![p] = [b \in Blocks |-> 0]]
    BY <1>1, <1>7, FlushCalls DEF flush_return
  <2>2. promise' \in [Procs -> [Blocks -> Data]]
    <3>1. 0 \in Data
      BY BlockCacheAssumption DEF Data, Junk
    <3> HIDE DEF Data
    <3> QED BY <2>1, <3>1, TypesNow
  <2> QED BY <1>2, <2>1, <2>2, QuietTypes, TypesNow DEF TrimPlaces
<1>8. ASSUME NEW b \in Blocks, flush_block(p, b) PROVE TInv' /\ Counts'
  <2>1. /\ UNCHANGED <<cache, size, entry, heap, disk, latest, answer, promise, failures, lost>>
        /\ call[p].at = "idle" /\ Calls(p, Cleaning(b)) /\ Cleaning(b).op = "flush_block"
    BY <1>1, <1>8, FlushCalls DEF flush_block, Cleaning
  <2>2. raced' \in BOOLEAN
    BY <1>8, TypesNow DEF flush_block
  <2> QED BY <2>1, <2>2, QuietTypes, TypesNow DEF TrimPlaces
<1> QED BY <1>3, <1>4, <1>5, <1>6, <1>7, <1>8 DEF Flush

\* The steps that change the list, or the versions.
LEMMA CreateTypes ==
  ASSUME TInv, Counts, NEW p \in Procs, bcache_create(p)
  PROVE  TInv' /\ Counts'
<1>1. call \in [Procs -> Call] /\ call[p] \in Call /\ Shaped(call[p]) /\ SizeInv
  BY DEF TInv, TypeOK, Counts
<1>2. PICK e \in Entries \ heap, d \in BOOLEAN :
        /\ entry' = [entry EXCEPT ![e] = [block |-> call[p].block, dirty |-> d, data |-> Junk]]
        /\ heap' = heap \cup {e}
        /\ cache' = <<e>> \o cache /\ size' = size + 1
        /\ call' = [call EXCEPT ![p] = Created(p, e)]
  <2>1. PICK e \in Entries \ heap, d \in BOOLEAN :
          /\ entry' = [entry EXCEPT ![e] = [block |-> call[p].block, dirty |-> d, data |-> Junk]]
          /\ heap' = heap \cup {e}
          /\ cache' = <<e>> \o cache /\ size' = size + 1
          /\ call' = [call EXCEPT ![p].at = "trim", ![p].e = e]
    BY DEF bcache_create, list_push_head
  <2> QED BY <1>1, <2>1 DEF Created
<1>3. /\ UNCHANGED <<disk, latest, answer, promise, failures, lost>> /\ call[p].at = "miss"
      /\ call[p].block \in Blocks
  BY <1>1 DEF bcache_create, Shaped
<1>4. Calls(p, Created(p, e)) /\ Created(p, e).at = "trim" /\ Created(p, e).op = call[p].op
  <2>1. Created(p, e).at = "trim" /\ Created(p, e).op = call[p].op
    BY <1>1 DEF Created, Call
  <2>2. Created(p, e) \in Call /\ Shaped(Created(p, e))
    BY <1>1, <1>3, AccessCalls
  <2> QED BY <1>2, <2>1, <2>2 DEF Calls
<1>5. cache' \in Seq(Entries) /\ Len(cache') = Len(cache) + 1
  BY <1>2, TypesNow, PushHead
<1>6. entry' \in [Entries -> Entry]
  <2>1. Junk \in Data
    BY BlockCacheAssumption DEF Data, Junk
  <2> HIDE DEF Data
  <2> QED BY <1>2, <1>3, <2>1, TypesNow DEF Entry
<1>7. raced' \in BOOLEAN
  BY TypesNow DEF bcache_create
<1>8. size' \in Nat /\ heap' \in SUBSET Entries
  BY <1>2, TypesNow
<1>9. TInv'
  BY <1>3, <1>4, <1>5, <1>6, <1>7, <1>8, Assembled, TypesNow
<1>10. /\ Cardinality(Trimming') = Cardinality(Trimming) + 1 /\ Cardinality(Trimming) \in Nat
       /\ Cardinality(Writing') = Cardinality(Writing)
  <2>1. /\ Cardinality(Trimming) \in Nat /\ Cardinality(Writing) \in Nat
        /\ Cardinality(Trimming') = Cardinality(Trimming)
             + (IF Created(p, e).at \in TrimPlaces THEN 1 ELSE 0)
             - (IF call[p].at \in TrimPlaces THEN 1 ELSE 0)
        /\ Cardinality(Writing') = Cardinality(Writing)
             + (IF Created(p, e).at # "idle" /\ Created(p, e).op = "write" THEN 1 ELSE 0)
             - (IF call[p].at # "idle" /\ call[p].op = "write" THEN 1 ELSE 0)
    BY <1>4, Counted
  <2> QED BY <1>3, <1>4, <2>1 DEF TrimPlaces
<1>11. SizeInv'
  <2>1. /\ size \in Nat /\ Len(cache) \in Nat /\ failures \in Nat /\ max_cache_size \in Nat
    BY BlockCacheAssumption, TypesNow
  <2>2. /\ Len(cache) <= size /\ size <= Len(cache) + failures
        /\ size <= max_cache_size + Cardinality(Trimming)
    BY <1>1 DEF SizeInv
  <2>3. /\ Len(cache') <= size' /\ size' <= Len(cache') + failures'
        /\ size' <= max_cache_size + Cardinality(Trimming')
    BY <1>2, <1>3, <1>5, <1>10, <2>1, <2>2
  <2> QED BY <2>3 DEF SizeInv
<1>12. VersionInv'
  <2>1. Written' = Written /\ latest' = latest
    BY <1>3 DEF Written
  <2> QED BY <1>10, <2>1 DEF Counts, VersionInv
<1> QED BY <1>9, <1>11, <1>12 DEF Counts

LEMMA TrimTypes ==
  ASSUME TInv, Counts, Placed, NEW p \in Procs, bcache_trim(p)
  PROVE  TInv' /\ Counts'
<1>1. call \in [Procs -> Call] /\ call[p] \in Call /\ Shaped(call[p]) /\ SizeInv
  BY DEF TInv, TypeOK, Counts
<1> DEFINE v == cache[Len(cache)]
<1>2. /\ Full(p) /\ cache' = SubSeq(cache, 1, Len(cache) - 1) /\ size' = size - 1
      /\ UNCHANGED <<disk, latest, answer, promise, failures, lost>>
      /\ call[p].at = "trim" /\ size > max_cache_size
      /\ \/ /\ entry[v].dirty
            /\ call' = [call EXCEPT ![p].at = "evict", ![p].victim = v]
            /\ raced' = (raced \/ Unfilled(v))
            /\ UNCHANGED <<heap, entry>>
         \/ /\ ~entry[v].dirty
            /\ bcache_entry_delete(v)
            /\ raced' = (raced \/ HeldBeside(p, v) \/ call[p].e = v)
            /\ UNCHANGED call
  BY DEF bcache_trim, Full
<1>3. cache # <<>>
  BY <1>1, <1>2, FullHasTail
<1>4. cache' \in Seq(Entries) /\ Len(cache') = Len(cache) - 1
  BY <1>2, <1>3, TypesNow, PopTail DEF Placed, HeapInv
<1>5. raced' \in BOOLEAN
  BY <1>2, TypesNow
<1>6. entry' \in [Entries -> Entry] /\ heap' \in SUBSET Entries
  BY <1>2, TypesNow, EntryTypes
<1>7. size' \in Nat
  BY <1>2, TypesNow, BlockCacheAssumption
<1> DEFINE Stays(c) == Calls(p, c) /\ c.at \in TrimPlaces /\ c.op = call[p].op
<1>8. \E c : Stays(c)
  <2>1. CASE entry[v].dirty
    <3>1. call' = [call EXCEPT ![p] = Popped(p, v)]
      BY <1>1, <1>2, <2>1 DEF Popped
    <3>2. Popped(p, v) \in Call /\ Shaped(Popped(p, v))
      BY <1>1, <1>2, AccessCalls
    <3>3. Popped(p, v).at = "evict" /\ Popped(p, v).op = call[p].op
      BY <1>1 DEF Popped, Call
    <3>4. Stays(Popped(p, v))
      BY <3>1, <3>2, <3>3 DEF Calls, TrimPlaces
    <3> QED BY <3>4
  <2>2. CASE ~entry[v].dirty
    <3>1. call' = [call EXCEPT ![p] = call[p]]
      BY <1>1, <1>2, <2>2
    <3>2. Stays(call[p])
      BY <1>1, <1>2, <3>1 DEF Calls, TrimPlaces
    <3> QED BY <3>2
  <2> QED BY <2>1, <2>2
<1>9. PICK c : Stays(c)
  BY <1>8
<1>10. TInv'
  BY <1>2, <1>4, <1>5, <1>6, <1>7, <1>9, Assembled, TypesNow
<1>11. /\ Cardinality(Trimming') = Cardinality(Trimming) /\ Cardinality(Trimming) \in Nat
       /\ Cardinality(Writing') = Cardinality(Writing)
  <2>1. /\ Cardinality(Trimming) \in Nat /\ Cardinality(Writing) \in Nat
        /\ Cardinality(Trimming') = Cardinality(Trimming)
             + (IF c.at \in TrimPlaces THEN 1 ELSE 0)
             - (IF call[p].at \in TrimPlaces THEN 1 ELSE 0)
        /\ Cardinality(Writing') = Cardinality(Writing)
             + (IF c.at # "idle" /\ c.op = "write" THEN 1 ELSE 0)
             - (IF call[p].at # "idle" /\ call[p].op = "write" THEN 1 ELSE 0)
    BY <1>9, Counted
  <2>2. c.at # "idle" /\ c.op = call[p].op /\ c.at \in TrimPlaces
    BY <1>9 DEF TrimPlaces
  <2>3. call[p].at \in TrimPlaces /\ call[p].at # "idle"
    BY <1>2 DEF TrimPlaces
  <2> HIDE DEF Stays
  <2> QED BY <2>1, <2>2, <2>3
<1>12. SizeInv'
  <2>1. /\ size \in Nat /\ Len(cache) \in Nat /\ failures \in Nat /\ max_cache_size \in Nat
    BY BlockCacheAssumption, TypesNow
  <2>2. /\ Len(cache) <= size /\ size <= Len(cache) + failures
        /\ size <= max_cache_size + Cardinality(Trimming)
    BY <1>1 DEF SizeInv
  <2>3. /\ Len(cache') <= size' /\ size' <= Len(cache') + failures'
        /\ size' <= max_cache_size + Cardinality(Trimming')
    BY <1>2, <1>4, <1>11, <2>1, <2>2
  <2> QED BY <2>3 DEF SizeInv
<1>13. VersionInv'
  <2>1. Written' = Written /\ latest' = latest
    BY <1>2 DEF Written
  <2> QED BY <1>11, <2>1 DEF Counts, VersionInv
<1> QED BY <1>10, <1>12, <1>13 DEF Counts

LEMMA FailTypes ==
  ASSUME TInv, Counts, Placed, NEW p \in Procs, device_read_fails(p)
  PROVE  TInv' /\ Counts'
<1>1. call[p] \in Call /\ Shaped(call[p]) /\ SizeInv
  BY DEF TInv, TypeOK, Counts
<1> DEFINE e == call[p].e
<1>2. /\ call[p].at = "load" /\ failures < MaxFailures /\ failures' = failures + 1
      /\ cache' = Without(cache, {e})
      /\ size' = (IF cache # <<>> /\ e \in {cache[1], cache[Len(cache)]} THEN size - 1 ELSE size)
      /\ bcache_entry_delete(e) /\ Calls(p, Idle)
      /\ UNCHANGED <<disk, latest, answer, promise, lost>>
  BY <1>1, AccessCalls DEF device_read_fails, list_remove
<1>3. Idle.at = "idle"
  BY DEF Idle
<1>4. /\ size \in Nat /\ Len(cache) \in Nat /\ failures \in Nat /\ max_cache_size \in Nat
      /\ MaxFailures \in Nat /\ cache \in Seq(Entries)
  BY BlockCacheAssumption, TypesNow
<1>5. /\ cache' \in Seq(Entries)
      /\ e \in Range(cache) => Len(cache') = Len(cache) - 1
      /\ e \notin Range(cache) => Len(cache') = Len(cache)
  <2>1. cache' \in Seq(Entries) /\ (e \in Range(cache) => Len(cache') = Len(cache) - 1)
    BY <1>2, <1>4, RemoveOne DEF Placed, HeapInv
  <2>2. e \notin Range(cache) => Len(cache') = Len(cache)
    BY <1>2, <1>4, WithoutNone
  <2> QED BY <2>1, <2>2
<1>6. cache # <<>> /\ e \in {cache[1], cache[Len(cache)]} => e \in Range(cache) /\ Len(cache) >= 1
  <2>1. cache # <<>> => 1 \in DOMAIN cache /\ Len(cache) \in DOMAIN cache
    BY <1>4
  <2> QED BY <1>4, <2>1 DEF Range
<1>7. raced' \in BOOLEAN
  BY TypesNow DEF device_read_fails
<1>8. entry' \in [Entries -> Entry] /\ heap' \in SUBSET Entries
  BY <1>2, TypesNow, EntryTypes
<1>9. Len(cache) <= size /\ size <= Len(cache) + failures /\ size <= max_cache_size + Cardinality(Trimming)
  BY <1>1 DEF SizeInv
<1> HIDE DEF e
<1>10. /\ size' \in Nat /\ failures' \in 0 .. MaxFailures
       /\ Len(cache') <= size' /\ size' <= Len(cache') + failures' /\ size' <= size
  BY <1>2, <1>4, <1>5, <1>6, <1>9
<1>11. TInv'
  BY <1>2, <1>5, <1>7, <1>8, <1>10, Assembled, TypesNow
<1>12. /\ Cardinality(Trimming') = Cardinality(Trimming) /\ Cardinality(Trimming) \in Nat
       /\ Cardinality(Writing') <= Cardinality(Writing)
       /\ Cardinality(Writing) \in Nat /\ Cardinality(Writing') \in Nat
  BY <1>2, <1>3, Counted DEF TrimPlaces
<1>13. SizeInv'
  BY <1>4, <1>9, <1>10, <1>12 DEF SizeInv
<1>14. VersionInv'
  <2>1. Written' = Written /\ latest' = latest
    BY <1>2 DEF Written
  <2>2. Written \in Nat /\ MaxWrites \in Nat
    BY WrittenMost, BlockCacheAssumption DEF TInv, Counts, VersionInv
  <2> QED BY <1>12, <2>1, <2>2 DEF Counts, VersionInv
<1> QED BY <1>11, <1>13, <1>14 DEF Counts

LEMMA WriteTypes ==
  ASSUME TInv, Counts, NEW p \in Procs, write_block(p)
  PROVE  TInv' /\ Counts'
<1>1. call[p] \in Call /\ Shaped(call[p]) /\ SizeInv /\ VersionInv /\ TypeOK
  BY DEF TInv, TypeOK, Counts
<1> DEFINE d == Written + 1
<1>2. /\ call[p].at = "trim" /\ ~(size > max_cache_size) /\ call[p].op = "write"
      /\ entry' = [entry EXCEPT ![call[p].e].data = d, ![call[p].e].dirty = TRUE]
      /\ latest' = [latest EXCEPT ![call[p].block] = d]
      /\ UNCHANGED <<cache, size, heap, disk, answer, promise, failures, lost>>
      /\ Calls(p, Idle)
  BY <1>1, AccessCalls DEF write_block, Trimmed, Full, Fill
<1>3. call[p].block \in Blocks /\ call[p].e \in Entries
  BY <1>1, <1>2 DEF Shaped, Accessing
<1>4. Idle.at = "idle"
  BY DEF Idle
<1>5. /\ Cardinality(Trimming') = Cardinality(Trimming) - 1 /\ Cardinality(Trimming') \in Nat
      /\ Cardinality(Writing') = Cardinality(Writing) - 1 /\ Cardinality(Writing') \in Nat
      /\ Cardinality(Trimming) \in Nat /\ Cardinality(Writing) \in Nat
  <2>1. /\ Cardinality(Trimming) \in Nat /\ Cardinality(Writing) \in Nat
        /\ Cardinality(Trimming') \in Nat /\ Cardinality(Writing') \in Nat
        /\ Cardinality(Trimming') = Cardinality(Trimming)
             + (IF Idle.at \in TrimPlaces THEN 1 ELSE 0)
             - (IF call[p].at \in TrimPlaces THEN 1 ELSE 0)
        /\ Cardinality(Writing') = Cardinality(Writing)
             + (IF Idle.at # "idle" /\ Idle.op = "write" THEN 1 ELSE 0)
             - (IF call[p].at # "idle" /\ call[p].op = "write" THEN 1 ELSE 0)
    BY <1>2, Counted
  <2> QED BY <1>2, <1>4, <2>1 DEF TrimPlaces
<1>6. /\ Written \in Nat /\ MaxWrites \in Nat /\ Written + Cardinality(Writing) <= MaxWrites
      /\ \A b \in Blocks : latest[b] \in Nat /\ latest[b] <= Written
  BY <1>1, WrittenMost, BlockCacheAssumption DEF VersionInv
<1>7. d \in Data /\ d \in Nat /\ d <= MaxWrites
  BY <1>5, <1>6 DEF Data, Junk
<1>8. entry' \in [Entries -> Entry]
  <2> HIDE DEF Data, d
  <2> QED BY <1>2, <1>3, <1>7, TypesNow, ZenonT(40) DEF Entry
<1>9. latest' \in [Blocks -> Data]
  <2> HIDE DEF Data, d
  <2> QED BY <1>2, <1>3, <1>7, TypesNow
<1>10. raced' \in BOOLEAN
  BY TypesNow DEF write_block
<1>11. TInv'
  BY <1>2, <1>8, <1>9, <1>10, Assembled, TypesNow
<1>12. \A b \in Blocks : latest'[b] \in Nat /\ latest'[b] <= d
  <2> SUFFICES ASSUME NEW b \in Blocks PROVE latest'[b] \in Nat /\ latest'[b] <= d
    OBVIOUS
  <2>1. CASE b = call[p].block
    BY <1>2, <1>7, <2>1, TypesNow
  <2>2. CASE b # call[p].block
    <3>1. latest'[b] = latest[b]
      BY <1>2, <2>2, TypesNow
    <3> QED BY <1>6, <3>1
  <2> QED BY <2>1, <2>2
<1>13. Written' <= d /\ Written' \in Nat
  <2>1. (TypeOK /\ \A b \in Blocks : latest[b] \in Nat)' =>
          (/\ Written \in Nat /\ Written <= MaxWrites
           /\ \A b \in Blocks : latest[b] <= Written
           /\ \E b \in Blocks : Written = latest[b])'
    BY WrittenMost, PTL
  <2>2. /\ Written' \in Nat
        /\ \E b \in Blocks : Written' = latest'[b]
    BY <1>11, <1>12, <2>1 DEF TInv
  <2> QED BY <1>12, <2>2
<1> HIDE DEF d
<1>14. VersionInv'
  <2>1. d <= Written + 1
    BY <1>6 DEF d
  <2> QED BY <1>5, <1>6, <1>7, <1>12, <1>13, <2>1 DEF VersionInv
<1>15. SizeInv'
  <2>1. /\ Len(cache') = Len(cache) /\ size' = size /\ failures' = failures
        /\ Len(cache) <= size /\ size <= Len(cache) + failures
        /\ size \in Nat /\ max_cache_size \in Nat
    BY <1>1, <1>2, TypesNow, BlockCacheAssumption DEF SizeInv
  <2>2. size <= max_cache_size + Cardinality(Trimming')
    BY <1>2, <1>5, <2>1
  <2> QED BY <2>1, <2>2 DEF SizeInv
<1> QED BY <1>11, <1>14, <1>15 DEF Counts

LEMMA CountsStep == 
  ASSUME TInv, Counts, Placed, ~raced, NEW p \in Procs, Access(p) \/ Flush(p)
  PROVE  TInv' /\ Counts'
BY StartTypes, AccessTypes, CreateTypes, TrimTypes, FailTypes, WriteTypes, FlushTypes DEF Access
-----------------------------------------------------------------------------
(* Every entry in its place.                                               *)

LEMMA InitPlaced == Init => Placed
<1> SUFFICES ASSUME Init PROVE Placed
  OBVIOUS
<1>1. cache = <<>> /\ heap = {} /\ \A p \in Procs : call[p].at = "idle"
  BY DEF Init, Idle
<1>2. Range(cache) = {} /\ IsInjective(cache)
  BY <1>1 DEF Range, IsInjective
<1>3. HeapInv
  BY <1>1, <1>2 DEF HeapInv, Popping
<1>4. BlockInv
  BY <1>1, <1>2 DEF BlockInv, Accessing
<1>5. FillInv
  BY <1>1, <1>2 DEF FillInv, Popping, Creating, Accessing
<1> QED BY <1>3, <1>4, <1>5 DEF Placed

\* A step that leaves the list and the blocks of the entries alone: p keeps what it
\* has popped, works on an entry in use, and creates nothing.
LEMMA QuietPlaced ==
  ASSUME TInv, Placed, NEW p \in Procs, NEW c, Calls(p, c), UNCHANGED <<cache, heap>>,
         \A e \in heap : entry'[e].block = entry[e].block,
         c.at \in {"evict", "evicted"} <=> Popping(p),
         Popping(p) => c.victim = call[p].victim,
         c.at \notin {"idle", "miss"} /\ c.e # NoEntry => c.e \in heap,
         c.at \in Accessing => entry[c.e].block = c.block,
         c.at \in Accessing /\ ~c.hit => /\ Creating(p) /\ c.e = call[p].e
                                         /\ c.at # "loaded" => Filling(p),
         c.at \in Accessing /\ c.hit => ~Unfilled(c.e),
         c.at \in {"clean", "cleaned"} => ~Unfilled(c.e)
  PROVE  Placed'
<1>1. call'[p] = c /\ \A q \in Procs \ {p} : call'[q] = call[q]
  BY CallsSafe
<1>2. cache' = cache /\ heap' = heap /\ Range(cache)' = Range(cache) /\ IsInjective(cache)' = IsInjective(cache)
  OBVIOUS
<1>3. \A q \in Procs : /\ Popping(q)' <=> Popping(q)
                       /\ Popping(q) => call'[q].victim = call[q].victim
  <2> SUFFICES ASSUME NEW q \in Procs
               PROVE  /\ Popping(q)' <=> Popping(q)
                      /\ Popping(q) => call'[q].victim = call[q].victim
    OBVIOUS
  <2>1. CASE q = p
    BY <1>1, <2>1 DEF Popping
  <2>2. CASE q # p
    BY <1>1, <2>2 DEF Popping
  <2> QED BY <2>1, <2>2
<1>4. \A q \in Procs : call'[q].at \notin {"idle", "miss"} /\ call'[q].e # NoEntry => call'[q].e \in heap
  BY <1>1 DEF Placed, HeapInv
<1>5. HeapInv'
  BY <1>2, <1>3, <1>4 DEF Placed, HeapInv
<1>6. \A q \in Procs : call'[q].at \in Accessing =>
        call'[q].e \in heap /\ entry[call'[q].e].block = call'[q].block
  <2> SUFFICES ASSUME NEW q \in Procs, call'[q].at \in Accessing
               PROVE  call'[q].e \in heap /\ entry[call'[q].e].block = call'[q].block
    OBVIOUS
  <2>1. Shaped(call'[q])
    BY CallsSafe
  <2>2. call'[q].e \in Entries /\ call'[q].e # NoEntry /\ call'[q].at \notin {"idle", "miss"}
    BY <2>1, BlockCacheAssumption DEF Shaped, Accessing
  <2> QED BY <1>1, <1>4, <2>2 DEF Placed, BlockInv
<1>7. BlockInv'
  <2>1. Range(cache) \subseteq heap
    BY DEF Placed, HeapInv
  <2> QED BY <1>2, <1>6, <2>1 DEF Placed, BlockInv
<1>8. \A q \in Procs : /\ Creating(q)' => Creating(q) /\ call'[q].e = call[q].e
                       /\ Filling(q)' => Filling(q)
  <2> SUFFICES ASSUME NEW q \in Procs
               PROVE  /\ Creating(q)' => Creating(q) /\ call'[q].e = call[q].e
                      /\ Filling(q)' => Filling(q)
    OBVIOUS
  <2>1. CASE q = p
    BY <1>1, <2>1 DEF Creating, Filling
  <2>2. CASE q # p
    BY <1>1, <2>2 DEF Creating, Filling
  <2> QED BY <2>1, <2>2
<1>9. \A e : Unfilled(e)' => Unfilled(e)
  <2> SUFFICES ASSUME NEW e, Unfilled(e)' PROVE Unfilled(e)
    OBVIOUS
  <2>1. PICK q \in Procs : /\ call'[q].e = e /\ ~call'[q].hit
                           /\ call'[q].at \in {"trim", "evict", "evicted", "load"}
    BY DEF Unfilled
  <2>2. Filling(q)'
    BY <2>1 DEF Filling, Creating, Accessing
  <2>3. Filling(q) /\ call[q].e = e
    BY <1>8, <2>1, <2>2 DEF Filling
  <2> QED BY <2>3 DEF Filling, Creating, Accessing, Unfilled
<1>10. \A q \in Procs : call'[q].at \in {"clean", "cleaned"} => ~Unfilled(call'[q].e)
  BY <1>1 DEF Placed, FillInv
<1>11. \A q \in Procs : call'[q].at \in Accessing /\ call'[q].hit => ~Unfilled(call'[q].e)
  BY <1>1 DEF Placed, FillInv
<1>12. FillInv'
  <2>1. \A q, r \in Procs : Creating(q)' /\ Creating(r)' /\ call'[q].e = call'[r].e => q = r
    BY <1>8 DEF Placed, FillInv
  <2>2. (\A q \in Procs : Popping(q) => ~Unfilled(call[q].victim))'
    BY <1>3, <1>9 DEF Placed, FillInv, Unfilled
  <2>3. (\A q \in Procs : call[q].at \in {"clean", "cleaned"} => ~Unfilled(call[q].e))'
    BY <1>9, <1>10 DEF Unfilled
  <2>4. (\A q \in Procs : call[q].at \in Accessing /\ call[q].hit => ~Unfilled(call[q].e))'
    BY <1>9, <1>11 DEF Unfilled
  <2> QED BY <2>1, <2>2, <2>3, <2>4 DEF FillInv
<1> QED BY <1>5, <1>7, <1>12 DEF Placed

LEMMA QuietSteps ==
  ASSUME TInv, Counts, Placed, ~raced, ~raced', NEW p \in Procs,
         \/ \E op \in {"read", "write"}, b \in Blocks : start(p, op, b)
         \/ out_of_memory(p) \/ evict_write(p)
         \/ read_hit(p) \/ read_miss(p) \/ device_read(p) \/ read_loaded(p) \/ write_block(p)
         \/ Flush(p)
  PROVE  Placed'
<1>1. /\ call[p] \in Call /\ Shaped(call[p]) /\ SizeInv /\ TypeOK /\ IsInjective(cache)
      /\ Range(cache) \subseteq heap /\ NoEntry \notin Entries /\ heap \subseteq Entries
  BY BlockCacheAssumption DEF TInv, TypeOK, Counts, Placed, HeapInv
<1>2. \A e \in Entries : entry[e] \in Entry
  BY EntryTypes
<1>3. ASSUME Calls(p, Idle), UNCHANGED <<cache, heap>>, ~Popping(p),
             \A e \in heap : entry'[e].block = entry[e].block
      PROVE  Placed'
  <2>1. Idle.at = "idle"
    BY DEF Idle
  <2> QED BY <1>3, <2>1, QuietPlaced DEF Accessing
<1>4. ASSUME NEW op \in {"read", "write"}, NEW b \in Blocks, start(p, op, b) PROVE Placed'
  <2> DEFINE c == Started(op, b)
             e == bcache_find(b)
  <2>1. /\ Calls(p, c) /\ UNCHANGED <<cache, heap, entry>> /\ call[p].at = "idle"
        /\ ~raced' <=> ~(raced \/ (e # NoEntry /\ Unfilled(e)))
    BY <1>1, <1>4, AccessCalls DEF start
  <2>2. /\ c.at = (IF e = NoEntry THEN "miss" ELSE "trim") /\ c.e = e /\ c.block = b
        /\ c.hit <=> e # NoEntry
    BY DEF Started
  <2>3. e # NoEntry => e \in heap /\ entry[e].block = b
    BY <1>1, FindSafe DEF Cached
  <2>4. e # NoEntry => ~Unfilled(e)
    BY <2>1
  <2> HIDE DEF c, e
  <2>5. c.at \in {"miss", "trim"} /\ ~Popping(p)
    BY <2>1, <2>2 DEF Popping
  <2>6. /\ c.at \notin {"idle", "miss"} /\ c.e # NoEntry => c.e \in heap
        /\ c.at \in Accessing => entry[c.e].block = c.block /\ c.hit /\ ~Unfilled(c.e)
    BY <2>2, <2>3, <2>4 DEF Accessing
  <2>7. /\ \A x \in heap : entry'[x].block = entry[x].block
        /\ c.at \in {"evict", "evicted"} <=> Popping(p)
    BY <2>1, <2>5
  <2> QED BY <2>1, <2>5, <2>6, <2>7, QuietPlaced
\* The call goes on, with the same entry.
<1>5. ASSUME NEW l, Calls(p, At(p, l)), UNCHANGED <<cache, heap>>,
             \A e \in heap : entry'[e].block = entry[e].block,
             l \in {"evict", "evicted"} <=> Popping(p), call[p].at \notin {"idle", "miss"},
             l \in Accessing => call[p].at \in Accessing,
             l \in Accessing /\ l # "loaded" => call[p].at # "loaded",
             l \in {"clean", "cleaned"} => ~Unfilled(call[p].e)
      PROVE  Placed'
  <2> DEFINE c == At(p, l)
  <2>1. c.at = l /\ c.e = call[p].e /\ c.hit = call[p].hit /\ c.victim = call[p].victim /\ c.block = call[p].block
    BY <1>1 DEF At, Call
  <2> HIDE DEF c
  <2>2. call[p].e # NoEntry => call[p].e \in heap
    BY <1>5 DEF Placed, HeapInv
  <2>3. call[p].at \in Accessing => entry[call[p].e].block = call[p].block
    BY DEF Placed, BlockInv
  <2>4. call[p].at \in Accessing /\ call[p].hit => ~Unfilled(call[p].e)
    BY DEF Placed, FillInv
  <2>5. c.at \in Accessing /\ ~c.hit => /\ Creating(p) /\ c.e = call[p].e
                                        /\ c.at # "loaded" => Filling(p)
    BY <1>5, <2>1 DEF Creating, Filling
  <2> QED BY <1>5, <2>1, <2>2, <2>3, <2>4, <2>5, QuietPlaced DEF c
<1>6. ASSUME NEW e \in Entries, device_write(p, e)
      PROVE  UNCHANGED <<cache, heap>> /\ \A x \in heap : entry'[x].block = entry[x].block
  BY <1>6 DEF device_write
<1>7. CASE out_of_memory(p)
  BY <1>1, <1>3, <1>7, AccessCalls DEF out_of_memory, Popping
<1>8. CASE evict_write(p)
  <2>1. call[p].at = "evict" /\ device_write(p, call[p].victim) /\ Calls(p, At(p, "evicted"))
    BY <1>1, <1>8, AccessCalls DEF evict_write
  <2>2. call[p].victim \in Entries
    BY <1>1, <2>1 DEF Shaped
  <2> QED BY <1>5, <1>6, <2>1, <2>2 DEF Popping, Accessing
<1>9. CASE read_hit(p)
  BY <1>1, <1>3, <1>9, AccessCalls DEF read_hit, Copy, Trimmed, Popping
<1>10. CASE read_loaded(p)
  BY <1>1, <1>3, <1>10, AccessCalls DEF read_loaded, Copy, Popping
<1>11. CASE read_miss(p)
  <2>1. call[p].at = "trim" /\ Calls(p, At(p, "load")) /\ UNCHANGED <<cache, heap, entry>>
    BY <1>1, <1>11, AccessCalls DEF read_miss, Trimmed
  <2> QED BY <1>5, <2>1 DEF Popping, Accessing
<1>12. CASE device_read(p)
  <2>1. /\ call[p].at = "load" /\ Calls(p, At(p, "loaded")) /\ UNCHANGED <<cache, heap>>
        /\ entry' = [entry EXCEPT ![call[p].e].data = disk[call[p].block]]
    BY <1>1, <1>12, AccessCalls DEF device_read
  <2>2. \A e \in heap : entry'[e].block = entry[e].block
    BY <1>1, <1>2, <2>1, TypesNow DEF Entry
  <2> QED BY <1>5, <2>1, <2>2 DEF Popping, Accessing
<1>13. CASE write_block(p)
  <2>1. /\ call[p].at = "trim" /\ Calls(p, Idle) /\ UNCHANGED <<cache, heap>>
        /\ entry' = [entry EXCEPT ![call[p].e].data = Written + 1, ![call[p].e].dirty = TRUE]
    BY <1>1, <1>13, AccessCalls DEF write_block, Trimmed, Fill
  <2>2. \A e \in heap : entry'[e].block = entry[e].block
    <3> DEFINE d == Written + 1
    <3> HIDE DEF d
    <3>1. entry' = [entry EXCEPT ![call[p].e].data = d, ![call[p].e].dirty = TRUE]
      BY <2>1 DEF d
    <3> QED BY <1>1, <1>2, <3>1, TypesNow DEF Entry
  <2> QED BY <1>3, <2>1, <2>2 DEF Popping
\* A flush goes to the first entry of the list, or to the next one.
<1>14. ASSUME NEW c, Calls(p, c), UNCHANGED <<cache, heap>>, ~Popping(p),
              \A e \in heap : entry'[e].block = entry[e].block,
              c.at = "walk", c.e \in Range(cache) \cup {NoEntry}
       PROVE  Placed'
  <2>1. c.e # NoEntry => c.e \in heap
    BY <1>1, <1>14
  <2> QED BY <1>14, <2>1, QuietPlaced DEF Accessing
<1>15. ASSUME call[p].op = "flush", call[p].at \in {"walk", "cleaned"}, UNCHANGED <<cache, heap>>,
              Calls(p, Advanced(p)), \A e \in heap : entry'[e].block = entry[e].block
       PROVE  Placed'
  <2>1. Advanced(p).at = "walk" /\ Advanced(p).e = Successor(call[p].e)
    BY <1>1 DEF Advanced, Call
  <2>2. Successor(call[p].e) \in Range(cache) \cup {NoEntry}
    BY <1>1, Walked
  <2> QED BY <1>14, <1>15, <2>1, <2>2 DEF Popping
<1>16. CASE flush(p)
  <2>1. /\ Calls(p, Flushing(p)) /\ UNCHANGED <<cache, heap, entry>> /\ call[p].at = "idle"
    BY <1>1, <1>16, FlushCalls DEF flush
  <2>2. Flushing(p).at = "walk" /\ Flushing(p).e = IF cache = <<>> THEN NoEntry ELSE cache[1]
    BY <1>1 DEF Flushing, Call
  <2>3. cache # <<>> => cache[1] \in Range(cache)
    BY <1>1, Walked
  <2> QED BY <1>14, <2>1, <2>2, <2>3 DEF Popping
<1>17. CASE walk_clean(p)
  <2>1. /\ call[p].at = "walk" /\ UNCHANGED <<cache, heap, entry>> /\ call[p].op = "flush"
        /\ \/ entry[call[p].e].dirty /\ Calls(p, At(p, "clean"))
           \/ ~entry[call[p].e].dirty /\ Calls(p, Advanced(p))
    BY <1>1, <1>17, FlushCalls DEF walk_clean, Shaped
  <2>2. CASE entry[call[p].e].dirty
    <3>1. ~Unfilled(call[p].e)
      BY <1>17, <2>2 DEF walk_clean
    <3> QED BY <1>5, <2>1, <2>2, <3>1 DEF Popping, Accessing
  <2>3. CASE ~entry[call[p].e].dirty
    BY <1>15, <2>1, <2>3
  <2> QED BY <2>2, <2>3
<1>18. CASE clean_write(p)
  <2>1. /\ call[p].at = "clean" /\ device_write(p, call[p].e) /\ Calls(p, At(p, "cleaned"))
        /\ call[p].e \in Entries
    BY <1>1, <1>18, FlushCalls DEF clean_write, Shaped
  <2>2. ~Unfilled(call[p].e)
    BY <2>1 DEF Placed, FillInv
  <2> QED BY <1>5, <1>6, <2>1, <2>2 DEF Popping, Accessing
<1>19. CASE clean_done(p)
  <2>1. /\ call[p].at = "cleaned" /\ UNCHANGED <<cache, heap>>
        /\ entry' = [entry EXCEPT ![call[p].e].dirty = FALSE]
        /\ \/ call[p].op = "flush" /\ Calls(p, Advanced(p))
           \/ call[p].op # "flush" /\ Calls(p, Idle)
    BY <1>1, <1>19, FlushCalls DEF clean_done
  <2>2. \A e \in heap : entry'[e].block = entry[e].block
    BY <1>1, <1>2, <2>1, TypesNow DEF Entry
  <2> QED BY <1>3, <1>15, <2>1, <2>2 DEF Popping
<1>20. CASE flush_return(p)
  BY <1>1, <1>3, <1>20, FlushCalls DEF flush_return, Popping
<1>21. ASSUME NEW b \in Blocks, flush_block(p, b) PROVE Placed'
  <2> DEFINE c == Cleaning(b)
             e == bcache_find(b)
  <2>1. /\ Calls(p, c) /\ UNCHANGED <<cache, heap, entry>> /\ call[p].at = "idle" /\ e # NoEntry
        /\ ~raced' <=> ~(raced \/ Unfilled(e))
    BY <1>1, <1>21, FlushCalls DEF flush_block
  <2>2. c.at = "clean" /\ c.e = e /\ ~Unfilled(e)
    BY <2>1 DEF Cleaning
  <2>3. e \in heap
    BY <1>1, <2>1, FindSafe DEF Cached
  <2> HIDE DEF c, e
  <2>4. ~Popping(p) /\ c.at \notin Accessing /\ ~(c.at \in {"evict", "evicted"})
    BY <2>1, <2>2 DEF Popping, Accessing
  <2> QED BY <2>1, <2>2, <2>3, <2>4, QuietPlaced
<1> QED BY <1>4, <1>7, <1>8, <1>9, <1>10, <1>11, <1>12, <1>13, <1>16, <1>17, <1>18, <1>19, <1>20, <1>21 DEF Flush

LEMMA CreatePlaced ==
  ASSUME TInv, Counts, Placed, ~raced, ~raced', NEW p \in Procs, bcache_create(p)
  PROVE  Placed'
<1>1. /\ call \in [Procs -> Call] /\ call[p] \in Call /\ Shaped(call[p]) /\ SizeInv /\ TypeOK
      /\ heap \subseteq Entries /\ Range(cache) \subseteq heap /\ IsInjective(cache)
  BY DEF TInv, TypeOK, Counts, Placed, HeapInv
<1>2. call[p].at = "miss" /\ Cached(call[p].block) = {} /\ call[p].block \in Blocks /\ ~call[p].hit
  BY <1>1 DEF bcache_create, Shaped
<1>3. PICK e \in Entries \ heap, d \in BOOLEAN :
        /\ entry' = [entry EXCEPT ![e] = [block |-> call[p].block, dirty |-> d, data |-> Junk]]
        /\ heap' = heap \cup {e}
        /\ cache' = <<e>> \o cache
        /\ call' = [call EXCEPT ![p] = Created(p, e)]
  <2>1. PICK e \in Entries \ heap, d \in BOOLEAN :
          /\ entry' = [entry EXCEPT ![e] = [block |-> call[p].block, dirty |-> d, data |-> Junk]]
          /\ heap' = heap \cup {e}
          /\ cache' = <<e>> \o cache
          /\ call' = [call EXCEPT ![p].at = "trim", ![p].e = e]
    BY DEF bcache_create, list_push_head
  <2> QED BY <1>1, <2>1 DEF Created
<1> DEFINE c == Created(p, e)
<1>4. /\ c.at = "trim" /\ c.e = e /\ c.block = call[p].block /\ c.hit = call[p].hit
  BY <1>1 DEF Created, Call
<1>5. Calls(p, c)
  BY <1>1, <1>2, <1>3, AccessCalls DEF Calls
<1>6. call'[p] = c /\ \A q \in Procs \ {p} : call'[q] = call[q]
  BY <1>5, CallsSafe
<1> HIDE DEF c
<1>7. Range(cache') = Range(cache) \cup {e} /\ IsInjective(cache') /\ e \notin Range(cache)
  BY <1>1, <1>3, PushHead, TypesNow
<1>8. /\ entry'[e].block = call[p].block
      /\ \A x \in heap : entry'[x] = entry[x] /\ x # e
  BY <1>1, <1>3, TypesNow
<1>9. \A q \in Procs \ {p} : call[q].at \notin {"idle", "miss"} /\ call[q].e # NoEntry =>
        call[q].e \in heap /\ call[q].e # e
  BY <1>3 DEF Placed, HeapInv
<1>10. \A q \in Procs \ {p} : call[q].at \in Accessing \cup {"clean", "cleaned"} =>
         call[q].e \in heap /\ call[q].e # e
  <2> SUFFICES ASSUME NEW q \in Procs \ {p}, call[q].at \in Accessing \cup {"clean", "cleaned"}
               PROVE  call[q].e \in heap /\ call[q].e # e
    OBVIOUS
  <2>1. Shaped(call[q])
    BY DEF TInv
  <2>2. call[q].at \notin {"idle", "miss"} /\ call[q].e # NoEntry
    BY <2>1, BlockCacheAssumption DEF Shaped, Accessing
  <2> QED BY <1>9, <2>2
<1>11. \A q \in Procs : Popping(q)' => /\ Popping(q) /\ q # p /\ call'[q] = call[q]
                                       /\ call[q].victim \in heap \ Range(cache) /\ call[q].victim # e
  <2> SUFFICES ASSUME NEW q \in Procs, Popping(q)'
               PROVE  /\ Popping(q) /\ q # p /\ call'[q] = call[q]
                      /\ call[q].victim \in heap \ Range(cache) /\ call[q].victim # e
    OBVIOUS
  <2>1. q # p
    BY <1>4, <1>6 DEF Popping
  <2> QED BY <1>3, <1>6, <2>1 DEF Popping, Placed, HeapInv
<1>12. HeapInv'
  <2>1. (IsInjective(cache) /\ Range(cache) \subseteq heap)'
    BY <1>1, <1>3, <1>7
  <2>2. (\A x \in heap : x \in Range(cache) \/ \E q \in Procs : Popping(q) /\ call[q].victim = x)'
    <3> SUFFICES ASSUME NEW x \in heap', x \notin Range(cache')
                 PROVE  (\E q \in Procs : Popping(q) /\ call[q].victim = x)'
      OBVIOUS
    <3>1. x \in heap /\ x \notin Range(cache)
      BY <1>3, <1>7
    <3>2. PICK q \in Procs : Popping(q) /\ call[q].victim = x
      BY <3>1 DEF Placed, HeapInv
    <3>3. q # p
      BY <1>2, <3>2 DEF Popping
    <3> QED BY <1>6, <3>2, <3>3 DEF Popping
  <2>3. (\A q \in Procs : Popping(q) => call[q].victim \in heap \ Range(cache))'
    BY <1>3, <1>7, <1>11
  <2>4. (\A q, r \in Procs : Popping(q) /\ Popping(r) /\ call[q].victim = call[r].victim => q = r)'
    BY <1>11 DEF Placed, HeapInv
  <2>5. (\A q \in Procs : call[q].at \notin {"idle", "miss"} /\ call[q].e # NoEntry => call[q].e \in heap)'
    BY <1>3, <1>4, <1>6, <1>9
  <2> QED BY <2>1, <2>2, <2>3, <2>4, <2>5 DEF HeapInv
<1>13. BlockInv'
  <2>1. (\A x \in heap : entry[x].block \in Blocks)'
    BY <1>2, <1>3, <1>8 DEF Placed, BlockInv
  <2>2. (\A q \in Procs : call[q].at \in Accessing => entry[call[q].e].block = call[q].block)'
    BY <1>4, <1>6, <1>8, <1>10 DEF Placed, BlockInv
  <2>3. (\A x, y \in Range(cache) : entry[x].block = entry[y].block => x = y)'
    <3>1. \A x \in Range(cache) : entry'[x].block = entry[x].block /\ entry[x].block # call[p].block
      BY <1>1, <1>2, <1>8 DEF Cached
    <3> QED BY <1>7, <1>8, <3>1 DEF Placed, BlockInv
  <2> QED BY <2>1, <2>2, <2>3 DEF BlockInv
<1>14. \A q \in Procs \ {p} : Creating(q)' => Creating(q) /\ call'[q].e = call[q].e /\ call[q].e # e
  BY <1>6, <1>10 DEF Creating
<1>15. \A x \in heap : Unfilled(x)' => Unfilled(x)
  BY <1>4, <1>6, <1>8 DEF Unfilled
<1>16. FillInv'
  <2>1. (\A q, r \in Procs : Creating(q) /\ Creating(r) /\ call[q].e = call[r].e => q = r)'
    <3> SUFFICES ASSUME NEW q \in Procs, NEW r \in Procs, Creating(q)', Creating(r)',
                        call'[q].e = call'[r].e
                 PROVE  q = r
      BY Zenon
    <3>1. CASE q = p
      BY <1>4, <1>6, <1>14, <3>1
    <3>2. CASE r = p
      BY <1>4, <1>6, <1>14, <3>2
    <3>3. CASE q # p /\ r # p
      BY <1>14, <3>3 DEF Placed, FillInv
    <3> QED BY <3>1, <3>2, <3>3
  <2>2. (\A q \in Procs : Popping(q) => ~Unfilled(call[q].victim))'
    BY <1>11, <1>15 DEF Placed, FillInv, Unfilled
  <2>3. (\A q \in Procs : call[q].at \in {"clean", "cleaned"} => ~Unfilled(call[q].e))'
    BY <1>4, <1>6, <1>10, <1>15 DEF Placed, FillInv, Unfilled
  <2>4. (\A q \in Procs : call[q].at \in Accessing /\ call[q].hit => ~Unfilled(call[q].e))'
    BY <1>2, <1>4, <1>6, <1>10, <1>15 DEF Placed, FillInv, Unfilled
  <2> QED BY <2>1, <2>2, <2>3, <2>4 DEF FillInv
<1> QED BY <1>12, <1>13, <1>16 DEF Placed

\* An entry that no other call holds goes, from the list and from the heap, or from
\* p that had popped it; p keeps the entry it works on, or none.
LEMMA DeletePlaced ==
  ASSUME TInv, Placed, NEW p \in Procs, NEW c, Calls(p, c), NEW v \in heap,
         bcache_entry_delete(v), ~HeldBeside(p, v),
         Range(cache') = Range(cache) \ {v}, IsInjective(cache'),
         c.at \in {"evict", "evicted"} => Popping(p) /\ c.victim = call[p].victim /\ c.victim # v,
         Popping(p) /\ ~(c.at \in {"evict", "evicted"}) => call[p].victim = v,
         c.at # "idle" => /\ call[p].at \in Accessing /\ c.at \in Accessing
                          /\ c.e = call[p].e /\ c.hit = call[p].hit /\ c.block = call[p].block
                          /\ c.e # v /\ (c.at # "loaded" => call[p].at # "loaded")
  PROVE  Placed'
<1>1. call'[p] = c /\ \A q \in Procs \ {p} : call'[q] = call[q]
  BY CallsSafe
<1>2. /\ heap \subseteq Entries /\ Range(cache) \subseteq heap /\ NoEntry \notin Entries
      /\ entry \in [Entries -> Entry]
  BY BlockCacheAssumption DEF TInv, TypeOK, Placed, HeapInv
<1>3. /\ heap' = heap \ {v}
      /\ \A x \in heap' : entry'[x] = entry[x] /\ x \in heap
  BY <1>2 DEF bcache_entry_delete
<1>4. \A q \in Procs \ {p} : /\ Popping(q) => call[q].victim # v
                             /\ call[q].at \notin {"idle", "miss"} => call[q].e # v
  BY DEF HeldBeside, PoppedBeside, Popping
<1>5. \A q \in Procs : call[q].at \in Accessing \cup {"clean", "cleaned"} =>
        call[q].at \notin {"idle", "miss"} /\ call[q].e \in heap
  <2> SUFFICES ASSUME NEW q \in Procs, call[q].at \in Accessing \cup {"clean", "cleaned"}
               PROVE  call[q].at \notin {"idle", "miss"} /\ call[q].e \in heap
    OBVIOUS
  <2>1. Shaped(call[q])
    BY DEF TInv
  <2>2. call[q].at \notin {"idle", "miss"} /\ call[q].e # NoEntry
    BY <1>2, <2>1 DEF Shaped, Accessing
  <2> QED BY <2>2 DEF Placed, HeapInv
<1>6. \A q \in Procs : Popping(q)' => /\ Popping(q) /\ call'[q].victim = call[q].victim
                                      /\ call[q].victim # v
                                      /\ call[q].victim \in heap \ Range(cache)
  <2> SUFFICES ASSUME NEW q \in Procs, Popping(q)'
               PROVE  /\ Popping(q) /\ call'[q].victim = call[q].victim
                      /\ call[q].victim # v
                      /\ call[q].victim \in heap \ Range(cache)
    OBVIOUS
  <2>1. CASE q = p
    BY <1>1, <2>1 DEF Popping, Placed, HeapInv
  <2>2. CASE q # p
    BY <1>1, <1>4, <2>2 DEF Popping, Placed, HeapInv
  <2> QED BY <2>1, <2>2
<1>7. \A q \in Procs : Popping(q) /\ call[q].victim # v => Popping(q)'
  BY <1>1 DEF Popping
<1>8. \A q \in Procs : call'[q].at \notin {"idle", "miss"} /\ call'[q].e # NoEntry =>
        call'[q].e \in heap'
  <2> SUFFICES ASSUME NEW q \in Procs, call'[q].at \notin {"idle", "miss"}, call'[q].e # NoEntry
               PROVE  call'[q].e \in heap'
    OBVIOUS
  <2>1. CASE q = p
    BY <1>1, <1>3, <1>5, <2>1
  <2>2. CASE q # p
    BY <1>1, <1>3, <1>4, <2>2 DEF Placed, HeapInv
  <2> QED BY <2>1, <2>2
<1>9. HeapInv'
  <2>1. (IsInjective(cache) /\ Range(cache) \subseteq heap)'
    BY <1>2, <1>3
  <2>2. (\A x \in heap : x \in Range(cache) \/ \E q \in Procs : Popping(q) /\ call[q].victim = x)'
    <3> SUFFICES ASSUME NEW x \in heap', x \notin Range(cache')
                 PROVE  (\E q \in Procs : Popping(q) /\ call[q].victim = x)'
      OBVIOUS
    <3>1. x \in heap /\ x \notin Range(cache) /\ x # v
      BY <1>3
    <3>2. PICK q \in Procs : Popping(q) /\ call[q].victim = x
      BY <3>1 DEF Placed, HeapInv
    <3>3. Popping(q)'
      BY <1>7, <3>1, <3>2
    <3> QED BY <1>6, <3>2, <3>3
  <2>3. (\A q \in Procs : Popping(q) => call[q].victim \in heap \ Range(cache))'
    BY <1>3, <1>6
  <2>4. (\A q, r \in Procs : Popping(q) /\ Popping(r) /\ call[q].victim = call[r].victim => q = r)'
    BY <1>6 DEF Placed, HeapInv
  <2> QED BY <1>8, <2>1, <2>2, <2>3, <2>4 DEF HeapInv
<1>10. \A q \in Procs : call'[q].at \in Accessing =>
         /\ call[q].at \in Accessing /\ call'[q].e = call[q].e /\ call'[q].hit = call[q].hit
         /\ call'[q].block = call[q].block /\ call[q].e \in heap'
         /\ call'[q].at # "loaded" => call[q].at # "loaded"
  <2> SUFFICES ASSUME NEW q \in Procs, call'[q].at \in Accessing
               PROVE  /\ call[q].at \in Accessing /\ call'[q].e = call[q].e /\ call'[q].hit = call[q].hit
                      /\ call'[q].block = call[q].block /\ call[q].e \in heap'
                      /\ call'[q].at # "loaded" => call[q].at # "loaded"
    OBVIOUS
  <2>1. CASE q = p
    <3>1. c.at # "idle"
      BY <1>1, <2>1 DEF Accessing
    <3> QED BY <1>1, <1>3, <1>5, <2>1, <3>1
  <2>2. CASE q # p
    BY <1>1, <1>3, <1>4, <1>5, <2>2
  <2> QED BY <2>1, <2>2
<1>11. BlockInv'
  <2>1. (\A x \in heap : entry[x].block \in Blocks)'
    BY <1>3 DEF Placed, BlockInv
  <2>2. (\A q \in Procs : call[q].at \in Accessing => entry[call[q].e].block = call[q].block)'
    BY <1>3, <1>10 DEF Placed, BlockInv
  <2>3. (\A x, y \in Range(cache) : entry[x].block = entry[y].block => x = y)'
    <3>1. \A x \in Range(cache') : x \in Range(cache) /\ entry'[x] = entry[x]
      BY <1>2, <1>3
    <3> QED BY <3>1 DEF Placed, BlockInv
  <2> QED BY <2>1, <2>2, <2>3 DEF BlockInv
<1>12. \A q \in Procs : Creating(q)' => Creating(q) /\ call'[q].e = call[q].e
  BY <1>10 DEF Creating
<1>13. \A x : Unfilled(x)' => Unfilled(x)
  <2> SUFFICES ASSUME NEW x, Unfilled(x)' PROVE Unfilled(x)
    OBVIOUS
  <2>1. PICK q \in Procs : /\ call'[q].e = x /\ ~call'[q].hit
                           /\ call'[q].at \in {"trim", "evict", "evicted", "load"}
    BY DEF Unfilled
  <2>2. call'[q].at \in Accessing /\ call'[q].at # "loaded"
    BY <2>1 DEF Accessing
  <2>3. call[q].e = x /\ ~call[q].hit /\ call[q].at \in Accessing /\ call[q].at # "loaded"
    BY <1>10, <2>1, <2>2
  <2> QED BY <2>3 DEF Unfilled, Accessing
<1>14. \A q \in Procs : call'[q].at \in {"clean", "cleaned"} => call'[q] = call[q]
  <2>1. c.at \notin {"clean", "cleaned"}
    BY DEF Accessing
  <2> QED BY <1>1, <2>1
<1>15. FillInv'
  <2>1. (\A q, r \in Procs : Creating(q) /\ Creating(r) /\ call[q].e = call[r].e => q = r)'
    BY <1>12 DEF Placed, FillInv
  <2>2. (\A q \in Procs : Popping(q) => ~Unfilled(call[q].victim))'
    BY <1>6, <1>13 DEF Placed, FillInv, Unfilled
  <2>3. (\A q \in Procs : call[q].at \in {"clean", "cleaned"} => ~Unfilled(call[q].e))'
    BY <1>13, <1>14 DEF Placed, FillInv, Unfilled
  <2>4. (\A q \in Procs : call[q].at \in Accessing /\ call[q].hit => ~Unfilled(call[q].e))'
    BY <1>10, <1>13 DEF Placed, FillInv, Unfilled
  <2> QED BY <2>1, <2>2, <2>3, <2>4 DEF FillInv
<1> QED BY <1>9, <1>11, <1>15 DEF Placed

LEMMA TrimPlaced ==
  ASSUME TInv, Counts, Placed, ~raced, ~raced', NEW p \in Procs, bcache_trim(p)
  PROVE  Placed'
<1>1. /\ call \in [Procs -> Call] /\ call[p] \in Call /\ Shaped(call[p]) /\ SizeInv /\ TypeOK
      /\ heap \subseteq Entries /\ Range(cache) \subseteq heap /\ IsInjective(cache)
      /\ NoEntry \notin Entries
  BY BlockCacheAssumption DEF TInv, TypeOK, Counts, Placed, HeapInv
<1> DEFINE v == cache[Len(cache)]
<1>2. /\ Full(p) /\ cache' = SubSeq(cache, 1, Len(cache) - 1) /\ call[p].at = "trim"
      /\ \/ /\ entry[v].dirty
            /\ call' = [call EXCEPT ![p].at = "evict", ![p].victim = v]
            /\ raced' = (raced \/ Unfilled(v))
            /\ UNCHANGED <<heap, entry>>
         \/ /\ ~entry[v].dirty
            /\ bcache_entry_delete(v)
            /\ raced' = (raced \/ HeldBeside(p, v) \/ call[p].e = v)
            /\ UNCHANGED call
  BY DEF bcache_trim, Full
<1>3. cache # <<>>
  BY <1>1, <1>2, FullHasTail
<1>4. v \in Range(cache) /\ v \in heap /\ Range(cache') = Range(cache) \ {v} /\ IsInjective(cache')
  BY <1>1, <1>2, <1>3, PopTail, TypesNow
<1>5. ~Popping(p) /\ call[p].at \in Accessing
  BY <1>2 DEF Popping, Accessing
<1>6. CASE ~entry[v].dirty
  <2>1. bcache_entry_delete(v) /\ ~HeldBeside(p, v) /\ call[p].e # v /\ UNCHANGED call
    BY <1>2, <1>6
  <2>2. Calls(p, call[p])
    BY <1>1, <2>1 DEF Calls
  <2> HIDE DEF v
  <2> QED BY <1>4, <1>5, <2>1, <2>2, DeletePlaced DEF Popping
<1>7. CASE entry[v].dirty
  <2> DEFINE c == Popped(p, v)
  <2>1. ~Unfilled(v) /\ UNCHANGED <<heap, entry>> /\ call' = [call EXCEPT ![p] = c]
    BY <1>1, <1>2, <1>7 DEF Popped
  <2>2. /\ c.at = "evict" /\ c.victim = v /\ c.e = call[p].e /\ c.hit = call[p].hit
        /\ c.block = call[p].block
    BY <1>1 DEF Popped, Call
  <2>3. Calls(p, c)
    BY <1>1, <1>2, <2>1, AccessCalls DEF Calls
  <2> HIDE DEF c, v
  <2>4. call'[p] = c /\ \A q \in Procs \ {p} : call'[q] = call[q]
    BY <2>3, CallsSafe
  <2>5. /\ Popping(p)' /\ call'[p].victim = v
        /\ \A q \in Procs \ {p} : Popping(q)' <=> Popping(q)
    BY <2>2, <2>4 DEF Popping
  <2>6. \A q \in Procs : /\ call'[q].e = call[q].e /\ call'[q].hit = call[q].hit
                         /\ call'[q].block = call[q].block
                         /\ call'[q].at \in {"idle", "miss"} <=> call[q].at \in {"idle", "miss"}
                         /\ call'[q].at \in Accessing <=> call[q].at \in Accessing
                         /\ call'[q].at \in {"clean", "cleaned"} <=> call[q].at \in {"clean", "cleaned"}
                         /\ call'[q].at \in {"trim", "evict", "evicted", "load"}
                              <=> call[q].at \in {"trim", "evict", "evicted", "load"}
    BY <1>2, <2>2, <2>4 DEF Accessing
  <2>7. HeapInv'
    <3>1. (IsInjective(cache) /\ Range(cache) \subseteq heap)'
      BY <1>1, <1>4, <2>1
    <3>2. (\A x \in heap : x \in Range(cache) \/ \E q \in Procs : Popping(q) /\ call[q].victim = x)'
      <4> SUFFICES ASSUME NEW x \in heap, x \notin Range(cache')
                   PROVE  \E q \in Procs : Popping(q)' /\ call'[q].victim = x
        BY <2>1
      <4>1. CASE x = v
        BY <2>5, <4>1
      <4>2. CASE x # v
        <5>1. PICK q \in Procs : Popping(q) /\ call[q].victim = x
          BY <1>4, <4>2 DEF Placed, HeapInv
        <5>2. q # p
          BY <1>5, <5>1
        <5> QED BY <2>4, <2>5, <5>1, <5>2
      <4> QED BY <4>1, <4>2
    <3>3. (\A q \in Procs : Popping(q) => call[q].victim \in heap \ Range(cache))'
      BY <1>4, <2>1, <2>4, <2>5 DEF Placed, HeapInv
    <3>4. (\A q, r \in Procs : Popping(q) /\ Popping(r) /\ call[q].victim = call[r].victim => q = r)'
      BY <1>4, <2>4, <2>5 DEF Placed, HeapInv
    <3>5. (\A q \in Procs : call[q].at \notin {"idle", "miss"} /\ call[q].e # NoEntry => call[q].e \in heap)'
      BY <2>1, <2>6 DEF Placed, HeapInv
    <3> QED BY <3>1, <3>2, <3>3, <3>4, <3>5 DEF HeapInv
  <2>8. BlockInv'
    BY <1>4, <2>1, <2>6 DEF Placed, BlockInv
  <2>9. \A x : Unfilled(x)' => Unfilled(x)
    BY <2>6 DEF Unfilled
  <2>10. \A q \in Procs : Creating(q)' => Creating(q)
    BY <2>6 DEF Creating
  <2>11. FillInv'
    <3>1. (\A q, r \in Procs : Creating(q) /\ Creating(r) /\ call[q].e = call[r].e => q = r)'
      BY <2>6, <2>10 DEF Placed, FillInv
    <3>2. (\A q \in Procs : Popping(q) => ~Unfilled(call[q].victim))'
      <4> SUFFICES ASSUME NEW q \in Procs, Popping(q)' PROVE (~Unfilled(call[q].victim))'
        OBVIOUS
      <4>1. CASE q = p
        BY <2>1, <2>5, <2>9, <4>1 DEF Unfilled
      <4>2. CASE q # p
        BY <2>4, <2>5, <2>9, <4>2 DEF Placed, FillInv, Unfilled
      <4> QED BY <4>1, <4>2
    <3>3. (\A q \in Procs : call[q].at \in {"clean", "cleaned"} => ~Unfilled(call[q].e))'
      BY <2>6, <2>9 DEF Placed, FillInv, Unfilled
    <3>4. (\A q \in Procs : call[q].at \in Accessing /\ call[q].hit => ~Unfilled(call[q].e))'
      BY <2>6, <2>9 DEF Placed, FillInv, Unfilled
    <3> QED BY <3>1, <3>2, <3>3, <3>4 DEF FillInv
  <2> QED BY <2>7, <2>8, <2>11 DEF Placed
<1> QED BY <1>6, <1>7

LEMMA EvictedPlaced ==
  ASSUME TInv, Counts, Placed, ~raced, ~raced', NEW p \in Procs, evict_delete(p)
  PROVE  Placed'
<1>1. call[p] \in Call /\ Shaped(call[p]) /\ SizeInv
  BY DEF TInv, TypeOK, Counts
<1> DEFINE v == call[p].victim
           c == Deleted(p)
<1>2. /\ call[p].at = "evicted" /\ bcache_entry_delete(v) /\ ~HeldBeside(p, v) /\ call[p].e # v
      /\ UNCHANGED cache /\ Calls(p, c)
  BY <1>1, AccessCalls DEF evict_delete
<1>3. /\ c.at = "trim" /\ c.e = call[p].e /\ c.hit = call[p].hit /\ c.block = call[p].block
  BY <1>1 DEF Deleted, Call
<1>4. Popping(p) /\ v \in heap /\ v \notin Range(cache) /\ IsInjective(cache)
  BY <1>2 DEF Popping, Placed, HeapInv
<1> HIDE DEF v, c
<1>5. Range(cache') = Range(cache) \ {v} /\ IsInjective(cache')
  BY <1>2, <1>4
<1>6. call[p].at \in Accessing /\ c.at \in Accessing /\ c.at \notin {"evict", "evicted"}
      /\ call[p].at # "loaded"
  BY <1>2, <1>3 DEF Accessing
<1> QED BY <1>2, <1>3, <1>4, <1>5, <1>6, DeletePlaced DEF v

LEMMA FailPlaced ==
  ASSUME TInv, Counts, Placed, ~raced, ~raced', NEW p \in Procs, device_read_fails(p)
  PROVE  Placed'
<1>1. call[p] \in Call /\ Shaped(call[p]) /\ SizeInv
  BY DEF TInv, TypeOK, Counts
<1> DEFINE v == call[p].e
<1>2. /\ call[p].at = "load" /\ bcache_entry_delete(v) /\ ~HeldBeside(p, v)
      /\ cache' = Without(cache, {v}) /\ Calls(p, Idle)
  BY <1>1, AccessCalls DEF device_read_fails, list_remove
<1>3. v \in heap
  <2>1. v \in Entries /\ v # NoEntry
    BY <1>1, <1>2, BlockCacheAssumption DEF Shaped, Accessing
  <2> QED BY <1>2, <2>1 DEF Placed, HeapInv
<1> HIDE DEF v
<1>4. Range(cache') = Range(cache) \ {v} /\ IsInjective(cache')
  BY <1>2, RemoveOne, TypesNow DEF Placed, HeapInv
<1>5. Idle.at = "idle" /\ ~Popping(p)
  BY <1>2 DEF Idle, Popping
<1> QED BY <1>2, <1>3, <1>4, <1>5, DeletePlaced

LEMMA PlacedStep ==
  ASSUME TInv, Counts, Placed, ~raced, ~raced', NEW p \in Procs, Access(p) \/ Flush(p)
  PROVE  Placed'
BY QuietSteps, CreatePlaced, TrimPlaced, EvictedPlaced, FailPlaced DEF Access
-----------------------------------------------------------------------------
\* What the cache keeps until two calls race.
Sound == TInv /\ Counts /\ (raced \/ Placed)

LEMMA SoundInvariant == Spec => []Sound
<1>1. Init => Sound
  BY InitCounts, InitPlaced DEF Sound
<1>2. Sound /\ [Next]_vars => Sound'
  <2> SUFFICES ASSUME Sound, [Next]_vars PROVE Sound'
    OBVIOUS
  <2>1. CASE Next
    <3>1. PICK p \in Procs : Access(p) \/ Flush(p)
      BY <2>1 DEF Next
    <3>2. ~raced /\ TInv /\ Counts /\ Placed
      BY <2>1 DEF Next, Sound
    <3>3. TInv' /\ Counts'
      BY <3>1, <3>2, CountsStep
    <3>4. raced' \/ Placed'
      BY <3>1, <3>2, PlacedStep
    <3> QED BY <3>3, <3>4 DEF Sound
  <2>2. CASE UNCHANGED vars
    BY <2>2 DEF vars, Sound, TInv, TypeOK, Counts, SizeInv, VersionInv, Trimming, Writing, Written,
                Placed, HeapInv, BlockInv, FillInv, Popping, Creating, Unfilled
  <2> QED BY <2>1, <2>2
<1> QED BY <1>1, <1>2, PTL DEF Spec

\* Every variable of the cache, every call and every entry has its type, whatever
\* the calls do to each other.
THEOREM TypeCorrect == Spec => []TypeOK
<1>1. Sound => TypeOK
  BY DEF Sound, TInv
<1> QED BY <1>1, SoundInvariant, PTL

\* The cache is no larger than it should be: size, which list_remove gets wrong,
\* is never less than the length of the list.
THEOREM BoundedHolds == Spec => []Bounded
<1>1. Sound => Bounded
  <2> SUFFICES ASSUME Sound PROVE Bounded
    OBVIOUS
  <2>1. /\ Len(cache) \in Nat /\ size \in Nat /\ max_cache_size \in Nat
        /\ Cardinality(Trimming) \in Nat
    <3>1. IsFiniteSet(Trimming)
      BY BlockCacheAssumption, FS_Subset DEF Trimming
    <3> QED BY <3>1, FS_CardinalityType, BlockCacheAssumption DEF Sound, TInv, TypeOK
  <2>2. Len(cache) <= size /\ size <= max_cache_size + Cardinality(Trimming)
    BY DEF Sound, Counts, SizeInv
  <2>3. Len(cache) <= max_cache_size + Cardinality(Trimming)
    BY <2>1, <2>2
  <2> QED BY <2>3 DEF Bounded, Trimming
<1> QED BY <1>1, SoundInvariant, PTL

\* Until two calls race, every entry in the list, every one popped and every one a
\* call works on is allocated.
THEOREM OnlyAllocatedHolds == Spec => []OnlyAllocated
<1>1. Sound => OnlyAllocated
  <2> SUFFICES ASSUME Sound, ~raced PROVE OnlyAllocated
    BY DEF OnlyAllocated
  <2>1. Placed
    BY DEF Sound
  <2>2. ASSUME NEW p \in Procs, call[p].at \notin {"idle", "miss", "walk"} PROVE call[p].e \in heap
    <3>1. Shaped(call[p]) /\ call[p] \in Call
      BY DEF Sound, TInv, TypeOK
    <3>2. call[p].at \in Accessing \cup {"clean", "cleaned"}
      BY <2>2, <3>1 DEF Accessing, Call
    <3>3. call[p].e # NoEntry
      BY <3>1, <3>2, BlockCacheAssumption DEF Shaped
    <3> QED BY <2>1, <2>2, <3>3 DEF Placed, HeapInv
  <2>3. \A p \in Procs : call[p].at \in {"evict", "evicted"} => call[p].victim \in heap \ Range(cache)
    BY <2>1 DEF Placed, HeapInv, Popping
  <2>4. Range(cache) \subseteq heap
    BY <2>1 DEF Placed, HeapInv
  <2> QED BY <2>2, <2>3, <2>4 DEF OnlyAllocated
<1> QED BY <1>1, SoundInvariant, PTL
-----------------------------------------------------------------------------
(* Where the last write to each block is.                                  *)

\* e is in the list and holds block b.
Has(e, b) == e \in Range(cache) /\ entry[e].block = b /\ ~Unfilled(e)

\* p has popped an entry of b and has yet to write it back.
Evicts(p, b) == call[p].at = "evict" /\ entry[call[p].victim].block = b

\* The disk has the last write to b, and nobody is about to overwrite it.
OnDisk(b) == disk[b] = latest[b] /\ \A p \in Procs : ~Evicts(p, b)

\* What p's flush promised of b has been kept, or is on its way to the disk in
\* another call, or in an entry the flush has not yet passed.
Covered(p, b) ==
  \/ disk[b] >= promise[p][b]
  \/ \E q \in Procs \ {p} : Evicts(q, b) /\ entry[call[q].victim].data >= promise[p][b]
  \/ \E e \in Entries : Behind(cache, call[p].e, e) /\ Has(e, b)

\* Of block b: what is cached is the last write, and if it is clean so is the disk;
\* if it is not cached, the last write is being evicted or on the disk.
Latest(b) ==
  /\ \A e \in Entries : Has(e, b) =>
       entry[e].data = latest[b] /\ (entry[e].dirty \/ OnDisk(b))
  /\ \/ \E e \in Entries : Has(e, b)
     \/ \E p \in Procs : Evicts(p, b) /\ entry[call[p].victim].data = latest[b]
     \/ OnDisk(b)
  /\ \A p \in Procs : call[p].at = "cleaned" /\ Has(call[p].e, b) => OnDisk(b)

\* Versions reach the disk in their order, and a flush misses none.
Ordered(b) ==
  /\ disk[b] \in Int /\ latest[b] \in Nat /\ disk[b] <= latest[b]
  /\ \A p \in Procs : Evicts(p, b) => /\ entry[call[p].victim].data \in Int
                                      /\ disk[b] <= entry[call[p].victim].data
                                      /\ entry[call[p].victim].data <= latest[b]
  /\ \A p \in Procs : promise[p][b] \in Int /\ promise[p][b] <= latest[b]
  /\ \A p \in Procs : call[p].op = "flush" => Covered(p, b)

Kept(b) == Latest(b) /\ Ordered(b)

LEMMA InitKept == Init => \A b \in Blocks : Kept(b)
<1> SUFFICES ASSUME Init, NEW b \in Blocks PROVE Kept(b)
  OBVIOUS
<1>1. /\ \A p \in Procs : call[p].at = "idle" /\ call[p].op = "none" /\ promise[p][b] = 0
      /\ disk[b] = 0 /\ latest[b] = 0
  BY DEF Init, Idle
<1>2. Range(cache) = {}
  BY DEF Init, Range
<1>3. OnDisk(b) /\ \A e : ~Has(e, b)
  BY <1>1, <1>2 DEF OnDisk, Evicts, Has
<1>4. Latest(b)
  BY <1>3 DEF Latest
<1>5. Ordered(b)
  BY <1>1 DEF Ordered, Evicts
<1> QED BY <1>4, <1>5 DEF Kept

\* A step that leaves the entries, the evictions and the disk of b as they are.
LEMMA SteadyKept ==
  ASSUME TInv, NEW p \in Procs, NEW c, Calls(p, c), NEW b \in Blocks, Kept(b),
         disk'[b] = disk[b], latest'[b] = latest[b],
         \A x \in Entries : /\ Has(x, b)' <=> Has(x, b)
                            /\ Has(x, b) => /\ entry'[x].data = entry[x].data
                                            /\ entry'[x].dirty <=> entry[x].dirty,
         \A q \in Procs : /\ Evicts(q, b)' <=> Evicts(q, b)
                          /\ Evicts(q, b) => entry'[call'[q].victim].data = entry[call[q].victim].data,
         c.at = "cleaned" => call[p].at = "cleaned" /\ c.e = call[p].e,
         \A q \in Procs \ {p} : promise'[q] = promise[q],
         \A q \in Procs \ {p}, x \in Entries :
           call[q].op = "flush" /\ Has(x, b) /\ Behind(cache, call[q].e, x) => Behind(cache', call[q].e, x),
         promise'[p][b] \in Int /\ promise'[p][b] <= latest[b],
         c.op = "flush" => Covered(p, b)'
  PROVE  Kept(b)'
<1>1. call'[p] = c /\ \A q \in Procs \ {p} : call'[q] = call[q]
  BY CallsSafe
<1>2. OnDisk(b)' <=> OnDisk(b)
  BY DEF OnDisk
<1>3. Latest(b)'
  <2>1. \A q \in Procs : call'[q].at = "cleaned" => call[q].at = "cleaned" /\ call'[q].e = call[q].e
    BY <1>1
  <2>2. \A q \in Procs : call'[q].at = "cleaned" => call[q].e \in Entries
    BY <2>1 DEF TInv, Shaped
  <2>3. (\A e \in Entries : Has(e, b) => entry[e].data = latest[b] /\ (entry[e].dirty \/ OnDisk(b)))'
    BY <1>2 DEF Kept, Latest
  <2>4. (\/ \E e \in Entries : Has(e, b)
         \/ \E q \in Procs : Evicts(q, b) /\ entry[call[q].victim].data = latest[b]
         \/ OnDisk(b))'
    BY <1>2 DEF Kept, Latest
  <2>5. (\A q \in Procs : call[q].at = "cleaned" /\ Has(call[q].e, b) => OnDisk(b))'
    <3> SUFFICES ASSUME NEW q \in Procs, call'[q].at = "cleaned", (Has(call[q].e, b))'
                 PROVE  OnDisk(b)'
      BY Zenon
    <3>1. Has(call[q].e, b)
      BY <2>1, <2>2 DEF Has, Unfilled
    <3> QED BY <1>2, <2>1, <3>1 DEF Kept, Latest
  <2> QED BY <2>3, <2>4, <2>5 DEF Latest
<1>4. \A q \in Procs \ {p} : call'[q].op = "flush" => Covered(q, b)'
  <2> SUFFICES ASSUME NEW q \in Procs \ {p}, call'[q].op = "flush" PROVE Covered(q, b)'
    OBVIOUS
  <2>1. Covered(q, b) /\ call[q].op = "flush" /\ promise'[q] = promise[q] /\ call'[q].e = call[q].e
    BY <1>1 DEF Kept, Ordered
  <2> QED BY <2>1 DEF Covered
<1>5. Ordered(b)'
  <2>1. (disk[b] \in Int /\ latest[b] \in Nat /\ disk[b] <= latest[b])'
    BY DEF Kept, Ordered
  <2>2. (\A q \in Procs : Evicts(q, b) => /\ entry[call[q].victim].data \in Int
                                          /\ disk[b] <= entry[call[q].victim].data
                                          /\ entry[call[q].victim].data <= latest[b])'
    BY DEF Kept, Ordered
  <2>3. (\A q \in Procs : promise[q][b] \in Int /\ promise[q][b] <= latest[b])'
    BY DEF Kept, Ordered
  <2>4. (\A q \in Procs : call[q].op = "flush" => Covered(q, b))'
    BY <1>1, <1>4
  <2> QED BY <2>1, <2>2, <2>3, <2>4 DEF Ordered
<1> QED BY <1>3, <1>5 DEF Kept

\* A call that is no nearer to filling an entry than it was.
FillPlaces == {"trim", "evict", "evicted", "load"}

LEMMA SameFilled ==
  ASSUME TInv, NEW p \in Procs, NEW c, Calls(p, c),
         c.at \in FillPlaces /\ ~c.hit <=> call[p].at \in FillPlaces /\ ~call[p].hit,
         c.at \in FillPlaces /\ ~c.hit => c.e = call[p].e
  PROVE  \A x : Unfilled(x)' <=> Unfilled(x)
<1>1. call'[p] = c /\ \A q \in Procs \ {p} : call'[q] = call[q]
  BY CallsSafe
<1>2. ASSUME NEW x, Unfilled(x) PROVE Unfilled(x)'
  <2>1. PICK q \in Procs : call[q].e = x /\ ~call[q].hit /\ call[q].at \in FillPlaces
    BY <1>2 DEF Unfilled, FillPlaces
  <2>2. call'[q].e = x /\ ~call'[q].hit /\ call'[q].at \in FillPlaces
    BY <1>1, <2>1
  <2> QED BY <2>2 DEF Unfilled, FillPlaces
<1>3. ASSUME NEW x, Unfilled(x)' PROVE Unfilled(x)
  <2>1. PICK q \in Procs : call'[q].e = x /\ ~call'[q].hit /\ call'[q].at \in FillPlaces
    BY <1>3 DEF Unfilled, FillPlaces
  <2>2. call[q].e = x /\ ~call[q].hit /\ call[q].at \in FillPlaces
    BY <1>1, <2>1
  <2> QED BY <2>2 DEF Unfilled, FillPlaces
<1> QED BY <1>2, <1>3

\* A step that changes nothing of the entries in the list and of those being evicted.
LEMMA QuietKept ==
  ASSUME TInv, NEW p \in Procs, NEW c, Calls(p, c), \A b \in Blocks : Kept(b),
         UNCHANGED <<cache, disk, latest>>,
         \A x \in Range(cache) : entry'[x] = entry[x],
         \A q \in Procs : call[q].at = "evict" => entry'[call[q].victim] = entry[call[q].victim],
         c.at = "evict" <=> call[p].at = "evict",
         c.at = "evict" => c.victim = call[p].victim,
         c.at \in FillPlaces /\ ~c.hit <=> call[p].at \in FillPlaces /\ ~call[p].hit,
         c.at \in FillPlaces /\ ~c.hit => c.e = call[p].e,
         c.at = "cleaned" => call[p].at = "cleaned" /\ c.e = call[p].e,
         \A q \in Procs \ {p} : promise'[q] = promise[q],
         \A b \in Blocks : promise'[p][b] \in Int /\ promise'[p][b] <= latest[b],
         \A b \in Blocks : c.op = "flush" => Covered(p, b)'
  PROVE  \A b \in Blocks : Kept(b)'
<1> SUFFICES ASSUME NEW b \in Blocks PROVE Kept(b)'
  OBVIOUS
<1>1. call'[p] = c /\ \A q \in Procs \ {p} : call'[q] = call[q]
  BY CallsSafe
<1>2. \A x : Unfilled(x)' <=> Unfilled(x)
  BY SameFilled
<1>3. \A x \in Entries : /\ Has(x, b)' <=> Has(x, b)
                         /\ Has(x, b) => /\ entry'[x].data = entry[x].data
                                         /\ entry'[x].dirty <=> entry[x].dirty
  BY <1>2 DEF Has
<1>4. \A q \in Procs : /\ Evicts(q, b)' <=> Evicts(q, b)
                       /\ Evicts(q, b) => entry'[call'[q].victim].data = entry[call[q].victim].data
  BY <1>1 DEF Evicts
<1> QED BY <1>3, <1>4, SteadyKept

\* Of what a block has, and what its flushes have promised.
LEMMA KeptNow ==
  ASSUME \A b \in Blocks : Kept(b), NEW p \in Procs
  PROVE  \A b \in Blocks : promise[p][b] \in Int /\ promise[p][b] <= latest[b]
BY DEF Kept, Ordered

LEMMA QuietKeptSteps ==
  ASSUME TInv, Counts, Placed, ~raced, ~raced', NEW p \in Procs, \A b \in Blocks : Kept(b),
         \/ \E op \in {"read", "write"}, b \in Blocks : start(p, op, b)
         \/ out_of_memory(p) \/ evict_delete(p) \/ read_hit(p) \/ read_miss(p) \/ read_loaded(p)
         \/ flush_return(p) \/ \E b \in Blocks : flush_block(p, b)
  PROVE  \A b \in Blocks : Kept(b)'
<1>1. /\ call[p] \in Call /\ Shaped(call[p]) /\ SizeInv /\ TypeOK
      /\ call \in [Procs -> Call] /\ entry \in [Entries -> Entry]
      /\ promise \in [Procs -> [Blocks -> Data]]
      /\ Range(cache) \subseteq heap /\ heap \subseteq Entries
  BY DEF TInv, TypeOK, Counts, Placed, HeapInv
<1>2. \A b \in Blocks : promise[p][b] \in Int /\ promise[p][b] <= latest[b]
  BY KeptNow
\* A call that returns.
<1>3. ASSUME Calls(p, Idle), UNCHANGED <<cache, disk, latest, entry, promise>>,
             call[p].at # "evict", ~(call[p].at \in FillPlaces /\ ~call[p].hit)
      PROVE  \A b \in Blocks : Kept(b)'
  <2>1. Idle.at = "idle" /\ Idle.op = "none"
    BY DEF Idle
  <2> QED BY <1>2, <1>3, <2>1, QuietKept DEF FillPlaces
<1>4. ASSUME NEW op \in {"read", "write"}, NEW b \in Blocks, start(p, op, b)
      PROVE  \A d \in Blocks : Kept(d)'
  <2> DEFINE c == Started(op, b)
  <2>1. Calls(p, c) /\ UNCHANGED <<cache, disk, latest, entry, promise>> /\ call[p].at = "idle"
    BY <1>1, <1>4, AccessCalls DEF start
  <2>2. c.at = "miss" \/ (c.at = "trim" /\ c.hit)
    BY DEF Started
  <2>3. c.op = op
    BY DEF Started
  <2> HIDE DEF c
  <2>4. c.at \in {"miss", "trim"} /\ c.op # "flush" /\ ~(c.at \in FillPlaces /\ ~c.hit)
    BY <2>2, <2>3 DEF FillPlaces
  <2> QED BY <1>2, <2>1, <2>4, QuietKept DEF FillPlaces
<1>5. CASE out_of_memory(p)
  BY <1>1, <1>3, <1>5, AccessCalls DEF out_of_memory, FillPlaces
<1>6. CASE evict_delete(p)
  <2> DEFINE v == call[p].victim
             c == Deleted(p)
  <2>1. /\ call[p].at = "evicted" /\ bcache_entry_delete(v) /\ ~HeldBeside(p, v)
        /\ UNCHANGED <<cache, disk, latest, promise>> /\ Calls(p, c)
    BY <1>1, <1>6, AccessCalls DEF evict_delete
  <2>2. c.at = "trim" /\ c.e = call[p].e /\ c.hit = call[p].hit /\ c.op = call[p].op
    BY <1>1 DEF Deleted, Call
  <2>3. call[p].op # "flush"
    BY <1>1, <2>1 DEF Shaped, Accessing
  <2> HIDE DEF c, v
  <2>4. v \in heap \ Range(cache)
    BY <2>1 DEF v, Placed, HeapInv, Popping
  <2>5. \A x \in heap : x # v => entry'[x] = entry[x]
    BY <1>1, <2>1 DEF bcache_entry_delete
  <2>6. \A q \in Procs : call[q].at = "evict" => call[q].victim \in heap /\ call[q].victim # v
    BY <2>1 DEF HeldBeside, PoppedBeside, Placed, HeapInv, Popping
  <2>7. \A x \in Range(cache) : entry'[x] = entry[x]
    BY <1>1, <2>4, <2>5
  <2>8. \A q \in Procs : call[q].at = "evict" => entry'[call[q].victim] = entry[call[q].victim]
    BY <2>5, <2>6
  <2> QED BY <1>2, <2>1, <2>2, <2>3, <2>7, <2>8, QuietKept DEF FillPlaces
<1>7. CASE read_hit(p)
  BY <1>1, <1>3, <1>7, AccessCalls DEF read_hit, Copy, Trimmed, FillPlaces
<1>8. CASE read_loaded(p)
  BY <1>1, <1>3, <1>8, AccessCalls DEF read_loaded, Copy, FillPlaces
<1>9. CASE read_miss(p)
  <2> DEFINE c == At(p, "load")
  <2>1. /\ call[p].at = "trim" /\ Calls(p, c) /\ UNCHANGED <<cache, disk, latest, entry, promise>>
        /\ call[p].op = "read"
    BY <1>1, <1>9, AccessCalls DEF read_miss, Trimmed
  <2>2. c.at = "load" /\ c.e = call[p].e /\ c.hit = call[p].hit /\ c.op = call[p].op
    BY <1>1 DEF At, Call
  <2> HIDE DEF c
  <2> QED BY <1>2, <2>1, <2>2, QuietKept DEF FillPlaces
<1>10. CASE flush_return(p)
  <2>1. /\ call[p].at = "walk" /\ Calls(p, Idle) /\ UNCHANGED <<cache, disk, latest, entry>>
        /\ promise' = [promise EXCEPT ![p] = [b \in Blocks |-> 0]]
    BY <1>1, <1>10, FlushCalls DEF flush_return
  <2>2. Idle.at = "idle" /\ Idle.op = "none"
    BY DEF Idle
  <2>3. \A q \in Procs \ {p} : promise'[q] = promise[q]
    BY <1>1, <2>1
  <2>4. \A b \in Blocks : promise'[p][b] \in Int /\ promise'[p][b] <= latest[b]
    <3>1. \A b \in Blocks : promise'[p][b] = 0
      BY <1>1, <2>1
    <3>2. \A b \in Blocks : latest[b] \in Nat
      BY DEF Counts, VersionInv
    <3> QED BY <3>1, <3>2
  <2> QED BY <2>1, <2>2, <2>3, <2>4, QuietKept DEF FillPlaces
<1>11. ASSUME NEW b \in Blocks, flush_block(p, b) PROVE \A d \in Blocks : Kept(d)'
  <2> DEFINE c == Cleaning(b)
  <2>1. Calls(p, c) /\ UNCHANGED <<cache, disk, latest, entry, promise>> /\ call[p].at = "idle"
    BY <1>1, <1>11, FlushCalls DEF flush_block
  <2>2. c.at = "clean" /\ c.op = "flush_block"
    BY DEF Cleaning
  <2> HIDE DEF c
  <2> QED BY <1>2, <2>1, <2>2, QuietKept DEF FillPlaces
<1> QED BY <1>4, <1>5, <1>6, <1>7, <1>8, <1>9, <1>10, <1>11

\* A block whose last write is on the disk and will stay there.
Settled(b) ==
  /\ OnDisk(b) /\ latest[b] \in Nat
  /\ \A x \in Entries : Has(x, b) => entry[x].data = latest[b]
  /\ \A q \in Procs : promise[q][b] \in Int /\ promise[q][b] <= latest[b]

LEMMA SettledKept == \A d \in Blocks : Settled(d) => Kept(d)
<1> SUFFICES ASSUME NEW b \in Blocks, Settled(b) PROVE Kept(b)
  OBVIOUS
<1>1. Latest(b)
  BY DEF Settled, Latest
<1>2. disk[b] = latest[b] /\ \A p \in Procs : ~Evicts(p, b)
  BY DEF Settled, OnDisk
<1>3. \A p \in Procs : Covered(p, b)
  BY <1>2 DEF Settled, Covered
<1>4. Ordered(b)
  BY <1>2, <1>3 DEF Settled, Ordered
<1> QED BY <1>1, <1>4 DEF Kept

\* A flush that moves on from e has still to come by everything behind it.
LEMMA AdvanceCovers ==
  ASSUME TInv, Placed, NEW p \in Procs, NEW b \in Blocks, Kept(b), call[p].op = "flush",
         Has(call[p].e, b) => OnDisk(b)
  PROVE  \/ disk[b] >= promise[p][b]
         \/ \E q \in Procs \ {p} : Evicts(q, b) /\ entry[call[q].victim].data >= promise[p][b]
         \/ \E e \in Entries : Behind(cache, Successor(call[p].e), e) /\ Has(e, b)
<1>1. Covered(p, b)
  BY DEF Kept, Ordered
<1>2. CASE \E e \in Entries : Behind(cache, call[p].e, e) /\ Has(e, b)
  <2>1. PICK e \in Entries : Behind(cache, call[p].e, e) /\ Has(e, b)
    BY <1>2
  <2>2. CASE e = call[p].e
    <3>1. disk[b] = latest[b]
      BY <2>1, <2>2 DEF OnDisk
    <3> QED BY <3>1 DEF Kept, Ordered
  <2>3. CASE e # call[p].e
    <3>1. Behind(cache, Successor(call[p].e), e)
      BY <2>1, <2>3, Walked DEF TInv, Placed, HeapInv
    <3> QED BY <2>1, <3>1
  <2> QED BY <2>2, <2>3
<1> QED BY <1>1, <1>2 DEF Covered

LEMMA FlushKept ==
  ASSUME TInv, Counts, Placed, ~raced, ~raced', NEW p \in Procs, \A b \in Blocks : Kept(b), flush(p)
  PROVE  \A b \in Blocks : Kept(b)'
<1>1. /\ call[p] \in Call /\ SizeInv /\ TypeOK
      /\ promise \in [Procs -> [Blocks -> Data]] /\ IsInjective(cache)
  BY DEF TInv, TypeOK, Counts, Placed, HeapInv
<1> DEFINE c == Flushing(p)
<1>2. /\ Calls(p, c) /\ UNCHANGED <<cache, disk, latest, entry>> /\ call[p].at = "idle"
      /\ promise' = [promise EXCEPT ![p] = latest]
  BY <1>1, FlushCalls DEF flush
<1>3. c.at = "walk" /\ c.op = "flush" /\ c.e = IF cache = <<>> THEN NoEntry ELSE cache[1]
  BY <1>1 DEF Flushing, Call
<1> HIDE DEF c
<1>4. call'[p] = c /\ \A q \in Procs \ {p} : call'[q] = call[q]
  BY <1>2, CallsSafe
<1>5. \A x : Unfilled(x)' <=> Unfilled(x)
  BY <1>2, <1>3, SameFilled DEF FillPlaces
<1>6. promise'[p] = latest /\ \A q \in Procs \ {p} : promise'[q] = promise[q]
  BY <1>1, <1>2
<1>7. \A b \in Blocks : latest[b] \in Nat
  BY DEF Counts, VersionInv
<1>8. ASSUME NEW b \in Blocks PROVE Covered(p, b)'
  <2>0. promise'[p][b] = latest[b] /\ disk'[b] = disk[b]
    BY <1>2, <1>6
  <2>1. CASE \E x \in Entries : Has(x, b)
    <3>1. PICK x \in Entries : Has(x, b)
      BY <2>1
    <3>2. cache # <<>> /\ Behind(cache, cache[1], x)
      BY <1>1, <3>1, Walked DEF Has
    <3>3. Behind(cache', call'[p].e, x) /\ Has(x, b)'
      BY <1>2, <1>3, <1>4, <1>5, <3>1, <3>2 DEF Has
    <3> QED BY <3>3 DEF Covered
  <2>2. CASE \E q \in Procs : Evicts(q, b) /\ entry[call[q].victim].data = latest[b]
    <3>1. PICK q \in Procs : Evicts(q, b) /\ entry[call[q].victim].data = latest[b]
      BY <2>2
    <3>2. q # p
      BY <1>2, <3>1 DEF Evicts
    <3>3. Evicts(q, b)' /\ entry'[call'[q].victim].data >= promise'[p][b]
      BY <1>2, <1>4, <1>7, <2>0, <3>1, <3>2 DEF Evicts
    <3> QED BY <3>2, <3>3 DEF Covered
  <2>3. CASE OnDisk(b)
    <3>1. disk'[b] >= promise'[p][b]
      BY <1>7, <2>0, <2>3 DEF OnDisk
    <3> QED BY <3>1 DEF Covered
  <2> QED BY <2>1, <2>2, <2>3 DEF Kept, Latest
<1>9. \A b \in Blocks : promise'[p][b] \in Int /\ promise'[p][b] <= latest[b]
  BY <1>6, <1>7
<1> QED BY <1>2, <1>3, <1>6, <1>8, <1>9, QuietKept DEF FillPlaces

LEMMA WalkKept ==
  ASSUME TInv, Counts, Placed, ~raced, ~raced', NEW p \in Procs, \A b \in Blocks : Kept(b), walk_clean(p)
  PROVE  \A b \in Blocks : Kept(b)'
<1>1. call[p] \in Call /\ Shaped(call[p]) /\ SizeInv
  BY DEF TInv, TypeOK, Counts
<1>2. /\ UNCHANGED <<cache, disk, latest, entry, promise>> /\ call[p].at = "walk" /\ call[p].op = "flush"
      /\ \/ entry[call[p].e].dirty /\ Calls(p, At(p, "clean"))
         \/ ~entry[call[p].e].dirty /\ Calls(p, Advanced(p))
  BY <1>1, FlushCalls DEF walk_clean, Shaped
<1>3. \A b \in Blocks : promise[p][b] \in Int /\ promise[p][b] <= latest[b]
  BY KeptNow
<1>4. ASSUME NEW c, Calls(p, c), c.at \in {"clean", "walk"},
             \A b \in Blocks :
               \/ disk[b] >= promise[p][b]
               \/ \E q \in Procs \ {p} : Evicts(q, b) /\ entry[call[q].victim].data >= promise[p][b]
               \/ \E e \in Entries : Behind(cache, c.e, e) /\ Has(e, b)
      PROVE  \A b \in Blocks : Kept(b)'
  <2>1. \A x : Unfilled(x)' <=> Unfilled(x)
    BY <1>2, <1>4, SameFilled DEF FillPlaces
  <2>2. call'[p] = c /\ \A q \in Procs \ {p} : call'[q] = call[q]
    BY <1>4, CallsSafe
  <2>3. \A b \in Blocks : Covered(p, b)'
    BY <1>2, <1>4, <2>1, <2>2 DEF Covered, Has, Evicts
  <2> QED BY <1>2, <1>3, <1>4, <2>3, QuietKept DEF FillPlaces
<1>5. CASE entry[call[p].e].dirty
  <2>1. At(p, "clean").at = "clean" /\ At(p, "clean").e = call[p].e
    BY <1>1 DEF At, Call
  <2>2. \A b \in Blocks : Covered(p, b)
    BY <1>2 DEF Kept, Ordered
  <2> QED BY <1>2, <1>4, <1>5, <2>1, <2>2 DEF Covered
<1>6. CASE ~entry[call[p].e].dirty
  <2>1. Advanced(p).at = "walk" /\ Advanced(p).e = Successor(call[p].e)
    BY <1>1 DEF Advanced, Call
  <2>2. \A b \in Blocks : Has(call[p].e, b) => OnDisk(b)
    <3> SUFFICES ASSUME NEW b \in Blocks, Has(call[p].e, b) PROVE OnDisk(b)
      OBVIOUS
    <3>1. call[p].e \in Entries
      BY DEF Has, TInv, TypeOK, Range
    <3> QED BY <1>6, <3>1 DEF Kept, Latest
  <2> QED BY <1>2, <1>4, <1>6, <2>1, <2>2, AdvanceCovers
<1> QED BY <1>5, <1>6

LEMMA DoneKept ==
  ASSUME TInv, Counts, Placed, ~raced, ~raced', NEW p \in Procs, \A b \in Blocks : Kept(b), clean_done(p)
  PROVE  \A b \in Blocks : Kept(b)'
<1>1. /\ call[p] \in Call /\ Shaped(call[p]) /\ SizeInv /\ entry \in [Entries -> Entry]
  BY DEF TInv, TypeOK, Counts
<1> DEFINE e == call[p].e
<1>2. /\ call[p].at = "cleaned" /\ UNCHANGED <<cache, disk, latest, promise>>
      /\ entry' = [entry EXCEPT ![e].dirty = FALSE]
      /\ \/ call[p].op = "flush" /\ Calls(p, Advanced(p))
         \/ call[p].op # "flush" /\ Calls(p, Idle)
  BY <1>1, FlushCalls DEF clean_done
<1>3. e \in Entries
  BY <1>1, <1>2 DEF Shaped
<1> HIDE DEF e
<1>4. \A x \in Entries : /\ entry'[x].block = entry[x].block /\ entry'[x].data = entry[x].data
                         /\ x # e => entry'[x] = entry[x]
  BY <1>1, <1>2 DEF Entry
<1>5. PICK c : /\ Calls(p, c) /\ c.at \in {"idle", "walk"}
               /\ c.op = "flush" => call[p].op = "flush" /\ c.e = Successor(e)
  <2>1. Idle.at = "idle" /\ Idle.op = "none"
    BY DEF Idle
  <2>2. Advanced(p).at = "walk" /\ Advanced(p).e = Successor(e) /\ Advanced(p).op = call[p].op
    BY <1>1 DEF Advanced, Call, e
  <2> QED BY <1>2, <2>1, <2>2
<1>6. call'[p] = c /\ \A q \in Procs \ {p} : call'[q] = call[q]
  BY <1>5, CallsSafe
<1>7. \A x : Unfilled(x)' <=> Unfilled(x)
  BY <1>2, <1>5, SameFilled DEF FillPlaces
<1> SUFFICES ASSUME NEW b \in Blocks PROVE Kept(b)'
  OBVIOUS
<1>8. \A x \in Entries : Has(x, b)' <=> Has(x, b)
  BY <1>2, <1>4, <1>7 DEF Has
<1>9. \A q \in Procs : /\ Evicts(q, b)' <=> Evicts(q, b)
                       /\ Evicts(q, b) => /\ entry'[call'[q].victim].data = entry[call[q].victim].data
  <2> SUFFICES ASSUME NEW q \in Procs
               PROVE  /\ Evicts(q, b)' <=> Evicts(q, b)
                      /\ Evicts(q, b) => entry'[call'[q].victim].data = entry[call[q].victim].data
    OBVIOUS
  <2>1. CASE q = p
    BY <1>2, <1>5, <1>6, <2>1 DEF Evicts
  <2>2. CASE q # p
    <3>1. call[q].at = "evict" => call[q].victim \in Entries
      BY DEF TInv, Shaped
    <3> QED BY <1>4, <1>6, <2>2, <3>1 DEF Evicts
  <2> QED BY <2>1, <2>2
<1>10. Has(e, b) => OnDisk(b)
  BY <1>2 DEF Kept, Latest, e
<1>11. \A q \in Procs : promise[q][b] \in Int /\ promise[q][b] <= latest[b]
  BY KeptNow
<1>12. CASE Has(e, b)
  <2>1. OnDisk(b)'
    BY <1>2, <1>9, <1>10, <1>12 DEF OnDisk
  <2>2. (latest[b] \in Nat)'
    BY <1>2 DEF Kept, Ordered
  <2>3. (\A x \in Entries : Has(x, b) => entry[x].data = latest[b])'
    BY <1>2, <1>4, <1>8 DEF Kept, Latest
  <2>4. (\A q \in Procs : promise[q][b] \in Int /\ promise[q][b] <= latest[b])'
    BY <1>2, <1>11
  <2>5. (\A d \in Blocks : Settled(d) => Kept(d))'
    BY SettledKept, PTL
  <2>6. Settled(b)'
    BY <2>1, <2>2, <2>3, <2>4 DEF Settled
  <2> QED BY <2>5, <2>6
<1>13. CASE ~Has(e, b)
  <2>1. \A x \in Entries : Has(x, b) => entry'[x] = entry[x]
    BY <1>4, <1>13
  <2>2. c.op = "flush" => Covered(p, b)'
    <3> SUFFICES ASSUME c.op = "flush" PROVE Covered(p, b)'
      OBVIOUS
    <3>1. \/ disk[b] >= promise[p][b]
          \/ \E q \in Procs \ {p} : Evicts(q, b) /\ entry[call[q].victim].data >= promise[p][b]
          \/ \E x \in Entries : Behind(cache, Successor(e), x) /\ Has(x, b)
      BY <1>5, <1>10, AdvanceCovers DEF e
    <3>2. call'[p].e = Successor(e) /\ cache' = cache /\ promise' = promise /\ disk' = disk
      BY <1>2, <1>5, <1>6
    <3> QED BY <1>8, <1>9, <3>1, <3>2 DEF Covered
  <2> QED BY <1>2, <1>5, <1>8, <1>9, <1>11, <2>1, <2>2, SteadyKept
<1> QED BY <1>12, <1>13

\* A new entry holds nothing yet.
LEMMA CreateKept ==
  ASSUME TInv, Counts, Placed, ~raced, ~raced', NEW p \in Procs, \A b \in Blocks : Kept(b), bcache_create(p)
  PROVE  \A b \in Blocks : Kept(b)'
<1>1. /\ call \in [Procs -> Call] /\ call[p] \in Call /\ Shaped(call[p])
      /\ heap \subseteq Entries /\ Range(cache) \subseteq heap
      /\ SizeInv /\ entry \in [Entries -> Entry]
  BY DEF TInv, TypeOK, Counts, Placed, HeapInv
<1>2. /\ call[p].at = "miss" /\ call[p].op \in {"read", "write"} /\ ~call[p].hit
      /\ UNCHANGED <<disk, latest, promise>>
  BY <1>1 DEF bcache_create, Shaped
<1>3. PICK e \in Entries \ heap, d \in BOOLEAN :
        /\ entry' = [entry EXCEPT ![e] = [block |-> call[p].block, dirty |-> d, data |-> Junk]]
        /\ cache' = <<e>> \o cache
        /\ call' = [call EXCEPT ![p] = Created(p, e)]
  <2>1. PICK e \in Entries \ heap, d \in BOOLEAN :
          /\ entry' = [entry EXCEPT ![e] = [block |-> call[p].block, dirty |-> d, data |-> Junk]]
          /\ cache' = <<e>> \o cache
          /\ call' = [call EXCEPT ![p].at = "trim", ![p].e = e]
    BY DEF bcache_create, list_push_head
  <2> QED BY <1>1, <2>1 DEF Created
<1> DEFINE c == Created(p, e)
<1>4. /\ c.at = "trim" /\ c.e = e /\ c.hit = call[p].hit /\ c.op = call[p].op
  BY <1>1 DEF Created, Call
<1>5. Calls(p, c)
  BY <1>1, <1>2, <1>3, AccessCalls DEF Calls
<1> HIDE DEF c
<1>6. call'[p] = c /\ \A q \in Procs \ {p} : call'[q] = call[q]
  BY <1>5, CallsSafe
<1>7. /\ Range(cache') = Range(cache) \cup {e}
      /\ \A x, y : Behind(cache, x, y) => Behind(cache', x, y)
  BY <1>3, PushHead, TypesNow
<1>8. \A x \in heap : entry'[x] = entry[x] /\ x # e /\ x \in Entries
  BY <1>1, <1>3
<1>9. \A x : x # e => (Unfilled(x)' <=> Unfilled(x))
  BY <1>2, <1>4, <1>6 DEF Unfilled
<1>10. Unfilled(e)'
  BY <1>2, <1>4, <1>6 DEF Unfilled
<1> SUFFICES ASSUME NEW b \in Blocks PROVE Kept(b)'
  OBVIOUS
<1>11. \A x \in Entries : /\ Has(x, b)' <=> Has(x, b)
                          /\ Has(x, b) => /\ entry'[x].data = entry[x].data
                                          /\ entry'[x].dirty <=> entry[x].dirty
  <2> SUFFICES ASSUME NEW x \in Entries
               PROVE  /\ Has(x, b)' <=> Has(x, b)
                      /\ Has(x, b) => /\ entry'[x].data = entry[x].data
                                      /\ entry'[x].dirty <=> entry[x].dirty
    OBVIOUS
  <2>1. CASE x = e
    BY <1>1, <1>10, <2>1 DEF Has
  <2>2. CASE x # e
    <3>1. x \in Range(cache') <=> x \in Range(cache)
      BY <1>7, <2>2
    <3>2. x \in Range(cache) => entry'[x] = entry[x]
      BY <1>1, <1>8
    <3> QED BY <1>9, <2>2, <3>1, <3>2 DEF Has
  <2> QED BY <2>1, <2>2
<1>12. \A q \in Procs : /\ Evicts(q, b)' <=> Evicts(q, b)
                        /\ Evicts(q, b) => entry'[call'[q].victim].data = entry[call[q].victim].data
  <2> SUFFICES ASSUME NEW q \in Procs
               PROVE  /\ Evicts(q, b)' <=> Evicts(q, b)
                      /\ Evicts(q, b) => entry'[call'[q].victim].data = entry[call[q].victim].data
    OBVIOUS
  <2>1. CASE q = p
    BY <1>2, <1>4, <1>6, <2>1 DEF Evicts
  <2>2. CASE q # p
    <3>1. call[q].at = "evict" => call[q].victim \in heap
      BY DEF Placed, HeapInv, Popping
    <3> QED BY <1>6, <1>8, <2>2, <3>1 DEF Evicts
  <2> QED BY <2>1, <2>2
<1>13. promise'[p][b] \in Int /\ promise'[p][b] <= latest[b]
  BY <1>2, KeptNow
<1>14. c.at # "cleaned" /\ c.op # "flush"
  BY <1>2, <1>4
<1> QED BY <1>2, <1>5, <1>7, <1>11, <1>12, <1>13, <1>14, SteadyKept

\* An entry whose read fails goes before it holds anything.
LEMMA FailKept ==
  ASSUME TInv, Counts, Placed, ~raced, ~raced', NEW p \in Procs, \A b \in Blocks : Kept(b),
         device_read_fails(p)
  PROVE  \A b \in Blocks : Kept(b)'
<1>1. /\ call[p] \in Call /\ Shaped(call[p])
      /\ heap \subseteq Entries /\ Range(cache) \subseteq heap
      /\ SizeInv /\ entry \in [Entries -> Entry]
  BY DEF TInv, TypeOK, Counts, Placed, HeapInv
<1> DEFINE e == call[p].e
<1>2. /\ call[p].at = "load" /\ bcache_entry_delete(e) /\ ~HeldBeside(p, e)
      /\ cache' = Without(cache, {e}) /\ Calls(p, Idle) /\ UNCHANGED <<disk, latest, promise>>
      /\ ~call[p].hit
  BY <1>1, AccessCalls DEF device_read_fails, list_remove, Shaped
<1>3. Unfilled(e)
  BY <1>2 DEF Unfilled
<1> HIDE DEF e
<1>4. /\ Range(cache') = Range(cache) \ {e}
      /\ \A x, y : Behind(cache, x, y) /\ x # e /\ y # e => Behind(cache', x, y)
  BY <1>2, RemoveOne, TypesNow DEF Placed, HeapInv
<1>5. Idle.at = "idle" /\ Idle.op = "none"
  BY DEF Idle
<1>6. call'[p] = Idle /\ \A q \in Procs \ {p} : call'[q] = call[q]
  BY <1>2, CallsSafe
<1>7. \A q \in Procs \ {p} : /\ call[q].at \notin {"idle", "miss"} => call[q].e # e
                             /\ call[q].at = "evict" => call[q].victim # e
  BY <1>2 DEF HeldBeside, PoppedBeside
<1>8. \A x \in Entries : x # e => entry'[x] = entry[x]
  BY <1>1, <1>2 DEF bcache_entry_delete
<1>9. \A x : x # e => (Unfilled(x)' <=> Unfilled(x))
  BY <1>2, <1>5, <1>6 DEF Unfilled, e
<1> SUFFICES ASSUME NEW b \in Blocks PROVE Kept(b)'
  OBVIOUS
<1>10. \A x \in Entries : /\ Has(x, b)' <=> Has(x, b)
                          /\ Has(x, b) => /\ x # e
                                          /\ entry'[x].data = entry[x].data
                                          /\ entry'[x].dirty <=> entry[x].dirty
  BY <1>3, <1>4, <1>8, <1>9 DEF Has
<1>11. \A q \in Procs : /\ Evicts(q, b)' <=> Evicts(q, b)
                        /\ Evicts(q, b) => entry'[call'[q].victim].data = entry[call[q].victim].data
  <2> SUFFICES ASSUME NEW q \in Procs
               PROVE  /\ Evicts(q, b)' <=> Evicts(q, b)
                      /\ Evicts(q, b) => entry'[call'[q].victim].data = entry[call[q].victim].data
    OBVIOUS
  <2>1. CASE q = p
    BY <1>2, <1>5, <1>6, <2>1 DEF Evicts
  <2>2. CASE q # p
    <3>1. call[q].at = "evict" => call[q].victim \in Entries
      BY DEF TInv, Shaped
    <3> QED BY <1>6, <1>7, <1>8, <2>2, <3>1 DEF Evicts
  <2> QED BY <2>1, <2>2
<1>12. \A q \in Procs \ {p}, x \in Entries :
         call[q].op = "flush" /\ Has(x, b) /\ Behind(cache, call[q].e, x) => Behind(cache', call[q].e, x)
  <2> SUFFICES ASSUME NEW q \in Procs \ {p}, NEW x \in Entries,
                      call[q].op = "flush", Has(x, b), Behind(cache, call[q].e, x)
               PROVE  Behind(cache', call[q].e, x)
    OBVIOUS
  <2>1. call[q].at \notin {"idle", "miss"}
    BY DEF TInv, Shaped, Idle
  <2> QED BY <1>4, <1>7, <1>10, <2>1
<1>13. promise'[p][b] \in Int /\ promise'[p][b] <= latest[b]
  BY <1>2, KeptNow
<1> QED BY <1>2, <1>5, <1>10, <1>11, <1>12, <1>13, SteadyKept

\* What bcache_trim pops is the last write to its block, and the block is then on
\* its way to the disk, or on the disk.
LEMMA TrimKept ==
  ASSUME TInv, Counts, Placed, ~raced, ~raced', NEW p \in Procs, \A b \in Blocks : Kept(b), bcache_trim(p)
  PROVE  \A b \in Blocks : Kept(b)'
<1>1. /\ call \in [Procs -> Call] /\ call[p] \in Call /\ Shaped(call[p])
      /\ heap \subseteq Entries /\ Range(cache) \subseteq heap /\ IsInjective(cache)
      /\ SizeInv /\ entry \in [Entries -> Entry] /\ TypeOK
  BY DEF TInv, TypeOK, Counts, Placed, HeapInv
<1> DEFINE v == cache[Len(cache)]
<1>2. /\ Full(p) /\ cache' = SubSeq(cache, 1, Len(cache) - 1) /\ call[p].at = "trim"
      /\ UNCHANGED <<disk, latest, promise>>
      /\ \/ /\ entry[v].dirty
            /\ call' = [call EXCEPT ![p].at = "evict", ![p].victim = v]
            /\ raced' = (raced \/ Unfilled(v))
            /\ UNCHANGED <<heap, entry>>
         \/ /\ ~entry[v].dirty
            /\ bcache_entry_delete(v)
            /\ raced' = (raced \/ HeldBeside(p, v) \/ call[p].e = v)
            /\ UNCHANGED call
  BY DEF bcache_trim, Full
<1>3. cache # <<>>
  BY <1>1, <1>2, FullHasTail
<1>4. /\ v \in Range(cache) /\ v \in heap /\ v \in Entries /\ Range(cache') = Range(cache) \ {v}
      /\ \A x, y : Behind(cache, x, y) /\ y # v => Behind(cache', x, y)
  BY <1>1, <1>2, <1>3, PopTail, TypesNow
<1>5. call[p].op \in {"read", "write"}
  BY <1>1, <1>2 DEF Shaped, Accessing
<1>6. PICK c : /\ Calls(p, c) /\ c.at \in {"trim", "evict"} /\ c.e = call[p].e /\ c.hit = call[p].hit
               /\ c.op = call[p].op
               /\ IF entry[v].dirty THEN c.at = "evict" /\ c.victim = v ELSE c = call[p]
  <2>1. CASE entry[v].dirty
    <3> DEFINE c == Popped(p, v)
    <3>1. call' = [call EXCEPT ![p] = c]
      BY <1>1, <1>2, <2>1 DEF Popped
    <3>2. Calls(p, c)
      BY <1>1, <1>2, <3>1, AccessCalls DEF Calls
    <3>3. /\ c.at = "evict" /\ c.victim = v /\ c.e = call[p].e /\ c.hit = call[p].hit
          /\ c.op = call[p].op
      BY <1>1 DEF Popped, Call
    <3> HIDE DEF c, v
    <3> QED BY <2>1, <3>2, <3>3
  <2>2. CASE ~entry[v].dirty
    <3>1. Calls(p, call[p])
      BY <1>1, <1>2, <2>2 DEF Calls
    <3> QED BY <1>2, <2>2, <3>1
  <2> QED BY <2>1, <2>2
<1>7. ~Unfilled(v)
  <2>1. CASE entry[v].dirty
    BY <1>2, <2>1
  <2>2. CASE ~entry[v].dirty
    <3>1. ~HeldBeside(p, v) /\ call[p].e # v
      BY <1>2, <2>2
    <3> QED BY <3>1 DEF HeldBeside, Unfilled
  <2> QED BY <2>1, <2>2
<1>8. /\ \A x \in Entries : x # v => entry'[x] = entry[x]
      /\ entry[v].dirty => entry' = entry
      /\ ~entry[v].dirty => \A q \in Procs : call[q].at = "evict" => call[q].victim # v
  BY <1>1, <1>2 DEF bcache_entry_delete, HeldBeside, PoppedBeside
<1> HIDE DEF v
<1>9. call'[p] = c /\ \A q \in Procs \ {p} : call'[q] = call[q]
  BY <1>6, CallsSafe
<1>10. \A x : Unfilled(x)' <=> Unfilled(x)
  BY <1>2, <1>6, SameFilled DEF FillPlaces
<1>11. \A q \in Procs \ {p}, b \in Blocks :
         /\ Evicts(q, b)' <=> Evicts(q, b)
         /\ Evicts(q, b) => entry'[call'[q].victim].data = entry[call[q].victim].data
  <2> SUFFICES ASSUME NEW q \in Procs \ {p}, NEW b \in Blocks
               PROVE  /\ Evicts(q, b)' <=> Evicts(q, b)
                      /\ Evicts(q, b) => entry'[call'[q].victim].data = entry[call[q].victim].data
    OBVIOUS
  <2>1. call[q].at = "evict" => call[q].victim \in Entries
    BY DEF TInv, Shaped
  <2>2. call[q].at = "evict" => entry'[call[q].victim] = entry[call[q].victim]
    BY <1>8, <2>1
  <2> QED BY <1>9, <2>2 DEF Evicts
<1>12. \A b \in Blocks : ~Evicts(p, b)
  BY <1>2 DEF Evicts
<1>13. \A b \in Blocks : Evicts(p, b)' <=> entry[v].dirty /\ entry[v].block = b
  BY <1>2, <1>6, <1>8, <1>9 DEF Evicts
<1> DEFINE B == entry[v].block
<1>14. \A b \in Blocks, x \in Entries :
         /\ Has(x, b)' <=> Has(x, b) /\ x # v
         /\ Has(x, b) /\ x # v => entry'[x] = entry[x]
  BY <1>4, <1>8, <1>10 DEF Has
<1>15. Has(v, B) /\ \A x \in Entries : Has(x, B) => x = v
  BY <1>4, <1>7 DEF Has, Placed, BlockInv
<1> SUFFICES ASSUME NEW b \in Blocks PROVE Kept(b)'
  OBVIOUS
<1>16. \A q \in Procs : promise[q][b] \in Int /\ promise[q][b] <= latest[b]
  BY KeptNow
<1>17. CASE b # B
  <2>1. ~Has(v, b)
    BY <1>17 DEF Has
  <2>2. \A x \in Entries : /\ Has(x, b)' <=> Has(x, b)
                           /\ Has(x, b) => /\ entry'[x].data = entry[x].data
                                           /\ entry'[x].dirty <=> entry[x].dirty
    BY <1>14, <2>1
  <2>3. \A q \in Procs : /\ Evicts(q, b)' <=> Evicts(q, b)
                         /\ Evicts(q, b) => entry'[call'[q].victim].data = entry[call[q].victim].data
    BY <1>11, <1>12, <1>13, <1>17
  <2>4. \A q \in Procs \ {p}, x \in Entries :
           call[q].op = "flush" /\ Has(x, b) /\ Behind(cache, call[q].e, x) => Behind(cache', call[q].e, x)
    BY <1>4, <2>1
  <2> QED BY <1>2, <1>5, <1>6, <1>16, <2>2, <2>3, <2>4, SteadyKept
<1>18. CASE b = B /\ ~entry[v].dirty
  <2>1. OnDisk(b)
    BY <1>4, <1>15, <1>18 DEF Kept, Latest
  <2>2. OnDisk(b)'
    BY <1>2, <1>11, <1>13, <1>18, <2>1 DEF OnDisk
  <2>3. Settled(b)'
    <3>1. (\A x \in Entries : ~Has(x, b))'
      BY <1>14, <1>15, <1>18
    <3>2. (\A q \in Procs : promise[q][b] \in Int /\ promise[q][b] <= latest[b])'
      BY <1>2, <1>16
    <3>3. (latest[b] \in Nat)'
      BY <1>2 DEF Kept, Ordered
    <3> QED BY <2>2, <3>1, <3>2, <3>3 DEF Settled
  <2>4. (\A d \in Blocks : Settled(d) => Kept(d))'
    BY SettledKept, PTL
  <2> QED BY <2>3, <2>4
<1>19. CASE b = B /\ entry[v].dirty
  <2>1. \A x \in Entries : ~Has(x, b)'
    BY <1>14, <1>15, <1>19
  <2>2. entry[v].data = latest[b]
    BY <1>4, <1>15, <1>19 DEF Kept, Latest
  <2>3. Evicts(p, b)' /\ entry'[call'[p].victim].data = latest'[b]
    BY <1>2, <1>6, <1>8, <1>9, <1>13, <1>19, <2>2
  <2>4. Latest(b)'
    <3>1. (\A q \in Procs : call[q].at = "cleaned" => ~Has(call[q].e, b))'
      <4> SUFFICES ASSUME NEW q \in Procs, call'[q].at = "cleaned" PROVE (~Has(call[q].e, b))'
        OBVIOUS
      <4>1. q # p
        BY <1>6, <1>9
      <4>2. call'[q].e \in Entries
        BY <1>9, <4>1 DEF TInv, Shaped
      <4> QED BY <2>1, <4>2 DEF Has, Unfilled
    <3> QED BY <2>1, <2>3, <3>1 DEF Latest
  <2>5. disk[b] \in Int /\ latest[b] \in Nat /\ disk[b] <= latest[b]
    BY DEF Kept, Ordered
  <2>6. (\A q \in Procs : call[q].op = "flush" => Covered(q, b))'
    <3> SUFFICES ASSUME NEW q \in Procs, call'[q].op = "flush" PROVE Covered(q, b)'
      OBVIOUS
    <3>1. q # p
      BY <1>5, <1>6, <1>9
    <3>2. entry'[call'[p].victim].data >= promise'[q][b]
      BY <1>2, <1>16, <2>3, <2>5
    <3> QED BY <2>3, <3>1, <3>2 DEF Covered
  <2>7. (\A q \in Procs : Evicts(q, b) => /\ entry[call[q].victim].data \in Int
                                          /\ disk[b] <= entry[call[q].victim].data
                                          /\ entry[call[q].victim].data <= latest[b])'
    <3> SUFFICES ASSUME NEW q \in Procs, Evicts(q, b)'
                 PROVE  /\ entry'[call'[q].victim].data \in Int
                        /\ disk'[b] <= entry'[call'[q].victim].data
                        /\ entry'[call'[q].victim].data <= latest'[b]
      OBVIOUS
    <3>1. CASE q = p
      BY <1>2, <2>3, <2>5, <3>1
    <3>2. CASE q # p
      BY <1>2, <1>11, <3>2 DEF Kept, Ordered
    <3> QED BY <3>1, <3>2
  <2>8. Ordered(b)'
    <3>1. (disk[b] \in Int /\ latest[b] \in Nat /\ disk[b] <= latest[b])'
      BY <1>2, <2>5
    <3>2. (\A q \in Procs : promise[q][b] \in Int /\ promise[q][b] <= latest[b])'
      BY <1>2, <1>16
    <3> QED BY <2>6, <2>7, <3>1, <3>2 DEF Ordered
  <2> QED BY <2>4, <2>8 DEF Kept
<1> QED BY <1>17, <1>18, <1>19

\* A write-back, if it does not fail, moves the block's data to the disk.
LEMMA DeviceWritten ==
  ASSUME TInv, NEW p \in Procs, NEW e \in Entries, device_write(p, e), ~raced', ~lost',
         entry[e].block \in Blocks
  PROVE  /\ disk'[entry[e].block] = entry[e].data
         /\ \A b \in Blocks : b # entry[e].block => disk'[b] = disk[b]
         /\ UNCHANGED <<cache, entry, latest, promise>>
         /\ \A q \in Procs \ {p} : ~Evicts(q, entry[e].block)
         /\ ~PoppedBeside(p, e)
<1>1. disk \in [Blocks -> Data]
  BY DEF TInv, TypeOK
<1>2. disk' = [disk EXCEPT ![entry[e].block] = entry[e].data]
  BY DEF device_write
<1> QED BY <1>1, <1>2 DEF device_write, EvictedBeside, Evicts

LEMMA EvictKept ==
  ASSUME TInv, Counts, Placed, ~raced, ~raced', ~lost', NEW p \in Procs, \A b \in Blocks : Kept(b),
         evict_write(p)
  PROVE  \A b \in Blocks : Kept(b)'
<1>1. call[p] \in Call /\ Shaped(call[p]) /\ SizeInv
  BY DEF TInv, TypeOK, Counts
<1> DEFINE v == call[p].victim
           c == At(p, "evicted")
           B == entry[v].block
<1>2. call[p].at = "evict" /\ device_write(p, v) /\ Calls(p, c) /\ call[p].op \in {"read", "write"}
  BY <1>1, AccessCalls DEF evict_write, Shaped, Accessing
<1>3. c.at = "evicted" /\ c.e = call[p].e /\ c.hit = call[p].hit /\ c.op = call[p].op
  BY <1>1 DEF At, Call
<1>4. v \in Entries /\ B \in Blocks
  <2>1. v \in heap
    BY <1>2 DEF Placed, HeapInv, Popping
  <2> QED BY <2>1 DEF Placed, BlockInv, TInv, TypeOK
<1>5. /\ disk'[B] = entry[v].data /\ \A b \in Blocks : b # B => disk'[b] = disk[b]
      /\ UNCHANGED <<cache, entry, latest, promise>>
      /\ \A q \in Procs \ {p} : ~Evicts(q, B)
  BY <1>2, <1>4, DeviceWritten
<1>6. Evicts(p, B) /\ \A b \in Blocks : Evicts(p, b) => b = B
  BY <1>2 DEF Evicts
<1>7. entry[call[p].victim].data = entry[v].data
  OBVIOUS
<1> HIDE DEF c, v
<1>8. call'[p] = c /\ \A q \in Procs \ {p} : call'[q] = call[q]
  BY <1>2, CallsSafe
<1>9. \A x : Unfilled(x)' <=> Unfilled(x)
  BY <1>2, <1>3, SameFilled DEF FillPlaces
<1>10. \A b \in Blocks, x \in Entries : Has(x, b)' <=> Has(x, b)
  BY <1>5, <1>9 DEF Has
<1>11. \A b \in Blocks, q \in Procs \ {p} :
         /\ Evicts(q, b)' <=> Evicts(q, b)
         /\ entry'[call'[q].victim].data = entry[call[q].victim].data
  BY <1>5, <1>8 DEF Evicts
<1>12. \A b \in Blocks : ~Evicts(p, b)'
  BY <1>3, <1>8 DEF Evicts
<1> SUFFICES ASSUME NEW b \in Blocks PROVE Kept(b)'
  OBVIOUS
<1>13. \A q \in Procs : promise[q][b] \in Int /\ promise[q][b] <= latest[b]
  BY KeptNow
<1>14. CASE b # B
  <2>1. \A x \in Entries : /\ Has(x, b)' <=> Has(x, b)
                           /\ Has(x, b) => /\ entry'[x].data = entry[x].data
                                           /\ entry'[x].dirty <=> entry[x].dirty
    BY <1>5, <1>10
  <2>2. \A q \in Procs : /\ Evicts(q, b)' <=> Evicts(q, b)
                         /\ Evicts(q, b) => entry'[call'[q].victim].data = entry[call[q].victim].data
    BY <1>6, <1>11, <1>12, <1>14
  <2>3. disk'[b] = disk[b] /\ latest'[b] = latest[b] /\ promise' = promise /\ cache' = cache
    BY <1>5, <1>14
  <2> QED BY <1>2, <1>3, <1>13, <2>1, <2>2, <2>3, SteadyKept
<1>15. CASE b = B
  <2>1. /\ disk[b] \in Int /\ latest[b] \in Nat /\ entry[v].data \in Int
        /\ disk[b] <= entry[v].data /\ entry[v].data <= latest[b]
    BY <1>6, <1>7, <1>15 DEF Kept, Ordered
  <2>2. ~OnDisk(b)
    BY <1>6, <1>15 DEF OnDisk
  <2>3. \A q \in Procs : ~Evicts(q, b)'
    BY <1>5, <1>11, <1>12, <1>15
  <2>4. Latest(b)'
    <3>1. (\A x \in Entries : Has(x, b) => entry[x].data = latest[b] /\ (entry[x].dirty \/ OnDisk(b)))'
      BY <1>5, <1>10, <2>2 DEF Kept, Latest
    <3>2. (\/ \E x \in Entries : Has(x, b)
           \/ \E q \in Procs : Evicts(q, b) /\ entry[call[q].victim].data = latest[b]
           \/ OnDisk(b))'
      <4>1. CASE \E x \in Entries : Has(x, b)
        BY <1>10, <4>1
      <4>2. CASE \E q \in Procs : Evicts(q, b) /\ entry[call[q].victim].data = latest[b]
        <5>1. entry[v].data = latest[b]
          BY <1>5, <1>7, <1>15, <4>2
        <5>2. OnDisk(b)'
          BY <1>5, <1>15, <2>3, <5>1 DEF OnDisk
        <5> QED BY <5>2
      <4> QED BY <2>2, <4>1, <4>2 DEF Kept, Latest
    <3>3. (\A q \in Procs : call[q].at = "cleaned" => ~Has(call[q].e, b))'
      <4> SUFFICES ASSUME NEW q \in Procs, call'[q].at = "cleaned" PROVE (~Has(call[q].e, b))'
        OBVIOUS
      <4>1. q # p /\ call'[q] = call[q]
        BY <1>3, <1>8
      <4>2. call[q].e \in Entries /\ ~Has(call[q].e, b)
        BY <2>2, <4>1 DEF TInv, Shaped, Kept, Latest
      <4> QED BY <1>10, <4>1, <4>2 DEF Has, Unfilled
    <3> QED BY <3>1, <3>2, <3>3 DEF Latest
  <2>5. Ordered(b)'
    <3>1. (disk[b] \in Int /\ latest[b] \in Nat /\ disk[b] <= latest[b])'
      BY <1>5, <1>15, <2>1
    <3>2. (\A q \in Procs : promise[q][b] \in Int /\ promise[q][b] <= latest[b])'
      BY <1>5, <1>13
    <3>3. (\A q \in Procs : call[q].op = "flush" => Covered(q, b))'
      <4> SUFFICES ASSUME NEW q \in Procs, call'[q].op = "flush" PROVE Covered(q, b)'
        OBVIOUS
      <4>1. q # p /\ call'[q] = call[q]
        BY <1>2, <1>3, <1>8
      <4>2. Covered(q, b)
        BY <4>1 DEF Kept, Ordered
      <4>3. CASE disk[b] >= promise[q][b]
        <5>1. disk'[b] >= promise'[q][b]
          BY <1>5, <1>13, <1>15, <2>1, <4>3
        <5> QED BY <5>1 DEF Covered
      <4>4. CASE \E r \in Procs \ {q} : Evicts(r, b) /\ entry[call[r].victim].data >= promise[q][b]
        <5>1. entry[v].data >= promise[q][b]
          BY <1>5, <1>7, <1>15, <4>4
        <5>2. disk'[b] >= promise'[q][b]
          BY <1>5, <1>15, <5>1
        <5> QED BY <5>2 DEF Covered
      <4>5. CASE \E x \in Entries : Behind(cache, call[q].e, x) /\ Has(x, b)
        BY <1>5, <1>10, <4>1, <4>5 DEF Covered
      <4> QED BY <4>2, <4>3, <4>4, <4>5 DEF Covered
    <3> QED BY <2>3, <3>1, <3>2, <3>3 DEF Ordered
  <2> QED BY <2>4, <2>5 DEF Kept
<1> QED BY <1>14, <1>15

\* An entry a call works on and nobody else has popped is in the list.
LEMMA StillCached ==
  ASSUME Placed, NEW p \in Procs, NEW e \in heap, ~Popping(p), ~PoppedBeside(p, e)
  PROVE  e \in Range(cache)
BY DEF Placed, HeapInv, PoppedBeside, Popping

LEMMA CleanKept ==
  ASSUME TInv, Counts, Placed, ~raced, ~raced', ~lost', NEW p \in Procs, \A b \in Blocks : Kept(b),
         clean_write(p)
  PROVE  \A b \in Blocks : Kept(b)'
<1>1. call[p] \in Call /\ Shaped(call[p]) /\ SizeInv
  BY DEF TInv, TypeOK, Counts
<1> DEFINE e == call[p].e
           c == At(p, "cleaned")
           B == entry[e].block
<1>2. call[p].at = "clean" /\ device_write(p, e) /\ Calls(p, c) /\ e \in Entries
  BY <1>1, FlushCalls, TypesNow DEF clean_write, Shaped
<1>3. c.at = "cleaned" /\ c.e = e /\ c.hit = call[p].hit /\ c.op = call[p].op
  BY <1>1 DEF At, Call
<1>4. e \in heap /\ B \in Blocks
  <2>1. e \in heap
    BY <1>2, BlockCacheAssumption DEF Placed, HeapInv
  <2> QED BY <2>1 DEF Placed, BlockInv
<1>5. /\ disk'[B] = entry[e].data /\ \A b \in Blocks : b # B => disk'[b] = disk[b]
      /\ UNCHANGED <<cache, entry, latest, promise>>
      /\ \A q \in Procs \ {p} : ~Evicts(q, B)
      /\ ~PoppedBeside(p, e)
  BY <1>2, <1>4, DeviceWritten
<1>6. ~Popping(p) /\ \A b \in Blocks : ~Evicts(p, b)
  BY <1>2 DEF Evicts, Popping
<1>7. Has(e, B)
  <2>1. ~Unfilled(e)
    BY <1>2 DEF Placed, FillInv
  <2> QED BY <1>4, <1>5, <1>6, <2>1, StillCached DEF Has
<1>8. c.e = call[p].e
  BY <1>3
<1> HIDE DEF c, e
<1>9. call'[p] = c /\ \A q \in Procs \ {p} : call'[q] = call[q]
  BY <1>2, CallsSafe
<1>10. \A x : Unfilled(x)' <=> Unfilled(x)
  BY <1>2, <1>3, SameFilled DEF FillPlaces
<1>11. \A b \in Blocks, x \in Entries : Has(x, b)' <=> Has(x, b)
  BY <1>5, <1>10 DEF Has
<1>12. \A b \in Blocks, q \in Procs :
         /\ Evicts(q, b)' <=> Evicts(q, b)
         /\ Evicts(q, b) => entry'[call'[q].victim].data = entry[call[q].victim].data
  <2> SUFFICES ASSUME NEW b \in Blocks, NEW q \in Procs
               PROVE  /\ Evicts(q, b)' <=> Evicts(q, b)
                      /\ Evicts(q, b) => entry'[call'[q].victim].data = entry[call[q].victim].data
    OBVIOUS
  <2>1. CASE q = p
    BY <1>3, <1>6, <1>9, <2>1 DEF Evicts
  <2>2. CASE q # p
    BY <1>5, <1>9, <2>2 DEF Evicts
  <2> QED BY <2>1, <2>2
<1> SUFFICES ASSUME NEW b \in Blocks PROVE Kept(b)'
  OBVIOUS
<1>13. \A q \in Procs : promise[q][b] \in Int /\ promise[q][b] <= latest[b]
  BY KeptNow
<1>14. CASE b = B
  <2>1. entry[e].data = latest[b]
    BY <1>2, <1>7, <1>14 DEF Kept, Latest
  <2>2. OnDisk(b)'
    BY <1>5, <1>6, <1>12, <1>14, <2>1 DEF OnDisk
  <2>3. Settled(b)'
    <3>1. (\A x \in Entries : Has(x, b) => entry[x].data = latest[b])'
      BY <1>5, <1>11 DEF Kept, Latest
    <3>2. (\A q \in Procs : promise[q][b] \in Int /\ promise[q][b] <= latest[b])'
      BY <1>5, <1>13
    <3>3. (latest[b] \in Nat)'
      BY <1>5 DEF Kept, Ordered
    <3> QED BY <2>2, <3>1, <3>2, <3>3 DEF Settled
  <2>4. (\A d \in Blocks : Settled(d) => Kept(d))'
    BY SettledKept, PTL
  <2> QED BY <2>3, <2>4
\* Block b is another, and e does not hold it.
<1>15. CASE b # B
  <2>1. disk'[b] = disk[b] /\ ~Has(e, b)
    BY <1>5, <1>15 DEF Has
  <2>2. OnDisk(b)' <=> OnDisk(b)
    BY <1>5, <1>12, <2>1 DEF OnDisk
  <2>3. Latest(b)'
    <3>1. (\A x \in Entries : Has(x, b) => entry[x].data = latest[b] /\ (entry[x].dirty \/ OnDisk(b)))'
      BY <1>5, <1>11, <2>2 DEF Kept, Latest
    <3>2. (\/ \E x \in Entries : Has(x, b)
           \/ \E q \in Procs : Evicts(q, b) /\ entry[call[q].victim].data = latest[b]
           \/ OnDisk(b))'
      BY <1>5, <1>11, <1>12, <2>2 DEF Kept, Latest
    <3>3. (\A q \in Procs : call[q].at = "cleaned" /\ Has(call[q].e, b) => OnDisk(b))'
      <4> SUFFICES ASSUME NEW q \in Procs, call'[q].at = "cleaned", (Has(call[q].e, b))'
                   PROVE  OnDisk(b)'
        BY Zenon
      <4>1. CASE q = p
        <5>1. PICK x \in Entries : x = call'[q].e /\ x = e
          BY <1>2, <1>3, <1>9, <4>1
        <5>2. Has(x, b)'
          BY <5>1 DEF Has, Unfilled
        <5> QED BY <1>11, <2>1, <5>1, <5>2
      <4>2. CASE q # p
        <5>1. call'[q] = call[q] /\ call[q].e \in Entries
          BY <1>9, <4>2 DEF TInv, Shaped
        <5>2. Has(call[q].e, b)
          BY <1>5, <1>10, <5>1 DEF Has, Unfilled
        <5> QED BY <2>2, <5>1, <5>2 DEF Kept, Latest
      <4> QED BY <4>1, <4>2
    <3> QED BY <3>1, <3>2, <3>3 DEF Latest
  <2>4. Ordered(b)'
    <3>1. (disk[b] \in Int /\ latest[b] \in Nat /\ disk[b] <= latest[b])'
      BY <1>5, <2>1 DEF Kept, Ordered
    <3>2. (\A q \in Procs : promise[q][b] \in Int /\ promise[q][b] <= latest[b])'
      BY <1>5, <1>13
    <3>3. (\A q \in Procs : Evicts(q, b) => /\ entry[call[q].victim].data \in Int
                                            /\ disk[b] <= entry[call[q].victim].data
                                            /\ entry[call[q].victim].data <= latest[b])'
      BY <1>5, <1>12, <2>1 DEF Kept, Ordered
    <3>4. (\A q \in Procs : call[q].op = "flush" => Covered(q, b))'
      <4> SUFFICES ASSUME NEW q \in Procs, call'[q].op = "flush" PROVE Covered(q, b)'
        OBVIOUS
      <4>1. call[q].op = "flush" /\ call'[q].e = call[q].e
        BY <1>3, <1>8, <1>9
      <4>2. Covered(q, b)
        BY <4>1 DEF Kept, Ordered
      <4> QED BY <1>5, <1>11, <1>12, <2>1, <4>1, <4>2 DEF Covered
    <3> QED BY <3>1, <3>2, <3>3, <3>4 DEF Ordered
  <2> QED BY <2>3, <2>4 DEF Kept
<1> QED BY <1>14, <1>15

\* A read fills its entry with what the disk has, and nothing newer is on its way.
LEMMA ReadKept ==
  ASSUME TInv, Counts, Placed, ~raced, ~raced', NEW p \in Procs, \A b \in Blocks : Kept(b),
         device_read(p)
  PROVE  \A b \in Blocks : Kept(b)'
<1>1. call[p] \in Call /\ Shaped(call[p]) /\ SizeInv /\ entry \in [Entries -> Entry]
  BY DEF TInv, TypeOK, Counts
<1> DEFINE e == call[p].e
           B == call[p].block
           c == At(p, "loaded")
<1>2. /\ call[p].at = "load" /\ entry' = [entry EXCEPT ![e].data = disk[B]]
      /\ Calls(p, c) /\ ~EvictedBeside(p, B) /\ call[p].op = "read" /\ ~call[p].hit
      /\ e \in Entries /\ B \in Blocks
      /\ UNCHANGED <<cache, disk, latest, promise>>
  BY <1>1, AccessCalls DEF device_read, Shaped, Accessing
<1>3. c.at = "loaded" /\ c.e = e /\ c.hit = call[p].hit /\ c.op = call[p].op
  BY <1>1 DEF At, Call
<1>4. Creating(p) /\ entry[e].block = B /\ Unfilled(e)
  BY <1>2 DEF Creating, Accessing, Placed, BlockInv, Unfilled
<1>5. \A q \in Procs : call[q].at = "evict" => call[q].victim # e /\ call[q].victim \in Entries
  BY <1>4 DEF Placed, FillInv, Popping, TInv, Shaped
<1>6. \A q \in Procs \ {p} : Creating(q) => call[q].e # e
  BY <1>4 DEF Placed, FillInv
<1> HIDE DEF c, e, B
<1>7. call'[p] = c /\ \A q \in Procs \ {p} : call'[q] = call[q]
  BY <1>2, CallsSafe
<1>8. \A x \in Entries : /\ entry'[x].block = entry[x].block /\ (entry'[x].dirty <=> entry[x].dirty)
                         /\ x # e => entry'[x] = entry[x]
                         /\ x = e => entry'[x].data = disk[B]
  BY <1>1, <1>2 DEF Entry
<1>9. \A x : x # e => (Unfilled(x)' <=> Unfilled(x))
  BY <1>2, <1>3, <1>7 DEF Unfilled, e
<1>10. \A b \in Blocks, x \in Entries : x # e => (Has(x, b)' <=> Has(x, b))
  BY <1>2, <1>8, <1>9 DEF Has
<1>11. \A b \in Blocks : ~Has(e, b)
  BY <1>4 DEF Has
<1>12. \A b \in Blocks, q \in Procs :
         /\ Evicts(q, b)' <=> Evicts(q, b)
         /\ Evicts(q, b) => entry'[call'[q].victim].data = entry[call[q].victim].data
  <2> SUFFICES ASSUME NEW b \in Blocks, NEW q \in Procs
               PROVE  /\ Evicts(q, b)' <=> Evicts(q, b)
                      /\ Evicts(q, b) => entry'[call'[q].victim].data = entry[call[q].victim].data
    OBVIOUS
  <2>1. CASE q = p
    BY <1>2, <1>3, <1>7, <2>1 DEF Evicts
  <2>2. CASE q # p
    BY <1>5, <1>7, <1>8, <2>2 DEF Evicts
  <2> QED BY <2>1, <2>2
<1> SUFFICES ASSUME NEW b \in Blocks PROVE Kept(b)'
  OBVIOUS
<1>13. \A q \in Procs : promise[q][b] \in Int /\ promise[q][b] <= latest[b]
  BY KeptNow
<1>14. CASE b # B
  <2>1. \A x \in Entries : /\ Has(x, b)' <=> Has(x, b)
                           /\ Has(x, b) => /\ entry'[x].data = entry[x].data
                                           /\ entry'[x].dirty <=> entry[x].dirty
    <3> SUFFICES ASSUME NEW x \in Entries
                 PROVE  /\ Has(x, b)' <=> Has(x, b)
                        /\ Has(x, b) => /\ entry'[x].data = entry[x].data
                                        /\ entry'[x].dirty <=> entry[x].dirty
      OBVIOUS
    <3>1. CASE x = e
      <4>1. entry'[x].block # b /\ entry[x].block # b
        BY <1>4, <1>8, <1>14, <3>1
      <4> QED BY <4>1 DEF Has
    <3>2. CASE x # e
      BY <1>8, <1>10, <3>2
    <3> QED BY <3>1, <3>2
  <2>2. c.at # "cleaned" /\ c.op # "flush"
    BY <1>2, <1>3
  <2> QED BY <1>2, <1>12, <1>13, <2>1, <2>2, SteadyKept
<1>15. CASE b = B
  <2>1. e \in Range(cache)
    <3>1. e \in heap
      BY <1>2, BlockCacheAssumption DEF Placed, HeapInv, e
    <3>2. \A q \in Procs : Popping(q) => call[q].victim # e
      BY <1>4 DEF Placed, FillInv
    <3> QED BY <3>1, <3>2 DEF Placed, HeapInv
  <2>2. \A x \in Entries : ~Has(x, b)
    BY <1>4, <1>11, <1>15, <2>1 DEF Has, Placed, BlockInv
  <2>3. OnDisk(b)
    <3>1. \A q \in Procs : ~Evicts(q, b)
      BY <1>2, <1>15 DEF EvictedBeside, Evicts
    <3> QED BY <2>2, <3>1 DEF Kept, Latest
  <2>4. OnDisk(b)'
    BY <1>2, <1>12, <2>3 DEF OnDisk
  <2>5. Settled(b)'
    <3>1. (\A x \in Entries : Has(x, b) => entry[x].data = latest[b])'
      BY <1>2, <1>8, <1>10, <1>15, <2>2, <2>3 DEF OnDisk
    <3>2. (\A q \in Procs : promise[q][b] \in Int /\ promise[q][b] <= latest[b])'
      BY <1>2, <1>13
    <3>3. (latest[b] \in Nat)'
      BY <1>2 DEF Kept, Ordered
    <3> QED BY <2>4, <3>1, <3>2, <3>3 DEF Settled
  <2>6. (\A d \in Blocks : Settled(d) => Kept(d))'
    BY SettledKept, PTL
  <2> QED BY <2>5, <2>6
<1> QED BY <1>14, <1>15

\* A write makes the entry the newest, and nobody is cleaning or evicting it.
LEMMA WriteKept ==
  ASSUME TInv, Counts, Placed, ~raced, ~raced', NEW p \in Procs, \A b \in Blocks : Kept(b),
         write_block(p)
  PROVE  \A b \in Blocks : Kept(b)'
<1>1. /\ call[p] \in Call /\ Shaped(call[p]) /\ SizeInv /\ entry \in [Entries -> Entry]
      /\ latest \in [Blocks -> Data]
  BY DEF TInv, TypeOK, Counts
<1> DEFINE e == call[p].e
           B == call[p].block
           d == Written + 1
<1>2. /\ call[p].at = "trim" /\ Calls(p, Idle) /\ call[p].op = "write"
      /\ e \in Entries /\ B \in Blocks
      /\ UNCHANGED <<cache, disk, promise>>
      /\ ~CleanedBeside(p, e)
  BY <1>1, AccessCalls DEF write_block, Trimmed, Shaped, Accessing
<1>3. /\ entry' = [entry EXCEPT ![e].data = d, ![e].dirty = TRUE]
      /\ latest' = [latest EXCEPT ![B] = d]
  BY DEF write_block, Fill
<1>4. \A b \in Blocks : latest[b] \in Nat /\ latest[b] <= d /\ d \in Nat
  <2>1. (\A b \in Blocks : latest[b] \in Nat /\ latest[b] <= Written) /\ Written \in Nat
    BY WrittenMost DEF Counts, VersionInv, TInv
  <2> QED BY <2>1
<1>5. entry[e].block = B /\ ~Popping(p)
  BY <1>2 DEF Accessing, Placed, BlockInv, Popping
<1>6. e \in Range(cache)
  <2>1. e \in heap
    BY <1>2, BlockCacheAssumption DEF Placed, HeapInv
  <2>2. ~PoppedBeside(p, e)
    BY <1>2 DEF CleanedBeside
  <2> QED BY <1>5, <2>1, <2>2, StillCached
<1>7. \A q \in Procs \ {p} : call[q].at = "evict" => call[q].victim # e /\ call[q].victim \in Entries
  BY <1>2 DEF CleanedBeside, PoppedBeside, TInv, Shaped
<1>8. \A q \in Procs \ {p} : Filling(q) => call[q].e # e
  <2> SUFFICES ASSUME NEW q \in Procs \ {p}, Filling(q), call[q].e = e PROVE FALSE
    OBVIOUS
  <2>1. Unfilled(e)
    BY DEF Filling, Creating, Accessing, Unfilled
  <2>2. ~call[p].hit /\ call[p].at \in Accessing
    BY <1>2, <2>1 DEF Placed, FillInv, Accessing
  <2> QED BY <2>2 DEF Placed, FillInv, Filling, Creating
<1>9. Idle.at = "idle" /\ Idle.op = "none"
  BY DEF Idle
<1> HIDE DEF e, B, d
<1>10. call'[p] = Idle /\ \A q \in Procs \ {p} : call'[q] = call[q]
  BY <1>2, CallsSafe
<1>11. \A x \in Entries : /\ entry'[x].block = entry[x].block
                          /\ x # e => entry'[x] = entry[x]
                          /\ x = e => entry'[x].data = d /\ entry'[x].dirty
  BY <1>1, <1>2, <1>3 DEF Entry
<1>12. latest'[B] = d /\ \A b \in Blocks : b # B => latest'[b] = latest[b]
  BY <1>1, <1>2, <1>3
<1>13. \A x : x # e => (Unfilled(x)' <=> Unfilled(x))
  BY <1>2, <1>9, <1>10 DEF Unfilled, e
<1>14. \A x : x = e => ~Unfilled(x)'
  BY <1>8, <1>9, <1>10 DEF Unfilled, Filling, Creating, Accessing
<1>15. \A b \in Blocks, x \in Entries : x # e => (Has(x, b)' <=> Has(x, b))
  BY <1>2, <1>11, <1>13 DEF Has
<1>16. \A b \in Blocks, q \in Procs :
         /\ Evicts(q, b)' <=> Evicts(q, b)
         /\ Evicts(q, b) => entry'[call'[q].victim].data = entry[call[q].victim].data
  <2> SUFFICES ASSUME NEW b \in Blocks, NEW q \in Procs
               PROVE  /\ Evicts(q, b)' <=> Evicts(q, b)
                      /\ Evicts(q, b) => entry'[call'[q].victim].data = entry[call[q].victim].data
    OBVIOUS
  <2>1. CASE q = p
    BY <1>2, <1>9, <1>10, <2>1 DEF Evicts
  <2>2. CASE q # p
    BY <1>7, <1>10, <1>11, <2>2 DEF Evicts
  <2> QED BY <2>1, <2>2
<1> SUFFICES ASSUME NEW b \in Blocks PROVE Kept(b)'
  OBVIOUS
<1>17. \A q \in Procs : promise[q][b] \in Int /\ promise[q][b] <= latest[b]
  BY KeptNow
<1>18. CASE b # B
  <2>1. \A x \in Entries : /\ Has(x, b)' <=> Has(x, b)
                           /\ Has(x, b) => /\ entry'[x].data = entry[x].data
                                           /\ entry'[x].dirty <=> entry[x].dirty
    <3> SUFFICES ASSUME NEW x \in Entries
                 PROVE  /\ Has(x, b)' <=> Has(x, b)
                        /\ Has(x, b) => /\ entry'[x].data = entry[x].data
                                        /\ entry'[x].dirty <=> entry[x].dirty
      OBVIOUS
    <3>1. CASE x = e
      <4>1. entry'[x].block # b /\ entry[x].block # b
        BY <1>5, <1>11, <1>18, <3>1
      <4> QED BY <4>1 DEF Has
    <3>2. CASE x # e
      BY <1>11, <1>15, <3>2
    <3> QED BY <3>1, <3>2
  <2>2. latest'[b] = latest[b]
    BY <1>12, <1>18
  <2> QED BY <1>2, <1>9, <1>16, <1>17, <2>1, <2>2, SteadyKept
<1>19. CASE b = B
  <2>1. \A x \in Entries : Has(x, b)' <=> x = e
    <3>1. \A x \in Entries : x # e => ~Has(x, b)
      BY <1>5, <1>6, <1>19 DEF Has, Placed, BlockInv
    <3>2. \A x \in Entries : x = e => Has(x, b)'
      BY <1>2, <1>5, <1>6, <1>11, <1>14, <1>19 DEF Has
    <3> QED BY <1>15, <3>1, <3>2
  <2>2. Latest(b)'
    <3>1. (\A x \in Entries : Has(x, b) => entry[x].data = latest[b] /\ (entry[x].dirty \/ OnDisk(b)))'
      BY <1>11, <1>12, <1>19, <2>1
    <3>2. (\E x \in Entries : Has(x, b))'
      BY <1>2, <2>1
    <3>3. (\A q \in Procs : call[q].at = "cleaned" => ~Has(call[q].e, b))'
      <4> SUFFICES ASSUME NEW q \in Procs, call'[q].at = "cleaned" PROVE (~Has(call[q].e, b))'
        OBVIOUS
      <4>1. q # p /\ call'[q] = call[q]
        BY <1>9, <1>10
      <4>2. call[q].e \in Entries /\ call[q].e # e
        BY <1>2, <4>1 DEF TInv, Shaped, CleanedBeside
      <4> QED BY <2>1, <4>1, <4>2 DEF Has, Unfilled
    <3> QED BY <3>1, <3>2, <3>3 DEF Latest
  <2>3. Ordered(b)'
    <3>0. disk[b] \in Int /\ latest[b] \in Nat /\ disk[b] <= latest[b] /\ latest[b] <= d /\ d \in Nat
      BY <1>4 DEF Kept, Ordered
    <3>1. (disk[b] \in Int /\ latest[b] \in Nat /\ disk[b] <= latest[b])'
      BY <1>2, <1>12, <1>19, <3>0
    <3>2. (\A q \in Procs : promise[q][b] \in Int /\ promise[q][b] <= latest[b])'
      BY <1>2, <1>12, <1>17, <1>19, <3>0
    <3>3. (\A q \in Procs : Evicts(q, b) => /\ entry[call[q].victim].data \in Int
                                            /\ disk[b] <= entry[call[q].victim].data
                                            /\ entry[call[q].victim].data <= latest[b])'
      <4> SUFFICES ASSUME NEW q \in Procs, Evicts(q, b)'
                   PROVE  /\ entry'[call'[q].victim].data \in Int
                          /\ disk'[b] <= entry'[call'[q].victim].data
                          /\ entry'[call'[q].victim].data <= latest'[b]
        OBVIOUS
      <4>1. /\ entry[call[q].victim].data \in Int /\ disk[b] <= entry[call[q].victim].data
            /\ entry[call[q].victim].data <= latest[b]
        BY <1>16 DEF Kept, Ordered
      <4> QED BY <1>2, <1>12, <1>16, <1>19, <3>0, <4>1
    <3>4. (\A q \in Procs : call[q].op = "flush" => Covered(q, b))'
      <4> SUFFICES ASSUME NEW q \in Procs, call'[q].op = "flush" PROVE Covered(q, b)'
        OBVIOUS
      <4>1. call[q].op = "flush" /\ call'[q].e = call[q].e
        BY <1>9, <1>10
      <4>2. Covered(q, b)
        BY <4>1 DEF Kept, Ordered
      <4>3. \A x \in Entries : Has(x, b) => Has(x, b)'
        BY <1>5, <1>6, <1>19, <2>1 DEF Has, Placed, BlockInv
      <4> QED BY <1>2, <1>16, <4>1, <4>2, <4>3 DEF Covered
    <3> QED BY <3>1, <3>2, <3>3, <3>4 DEF Ordered
  <2> QED BY <2>2, <2>3 DEF Kept
<1> QED BY <1>18, <1>19

LEMMA KeptStep ==
  ASSUME TInv, Counts, Placed, ~raced, ~raced', ~lost', NEW p \in Procs, \A b \in Blocks : Kept(b),
         Access(p) \/ Flush(p)
  PROVE  \A b \in Blocks : Kept(b)'
BY QuietKeptSteps, FlushKept, WalkKept, DoneKept, CreateKept, FailKept, TrimKept, EvictKept, CleanKept,
   ReadKept, WriteKept DEF Access, Flush

LEMMA LostStays ==
  ASSUME NEW p \in Procs, Access(p) \/ Flush(p), ~lost'
  PROVE  ~lost
BY DEF Access, Flush, start, out_of_memory, bcache_create, bcache_trim, evict_write, evict_delete,
       read_hit, read_miss, device_read, device_read_fails, read_loaded, write_block, flush,
       walk_clean, clean_write, clean_done, flush_return, flush_block, device_write, Copy
-----------------------------------------------------------------------------
\* What the cache keeps until two calls race or a write-back fails.
Durable == Sound /\ (raced \/ lost \/ \A b \in Blocks : Kept(b))

LEMMA DurableInvariant == Spec => []Durable
<1>1. Init => \A b \in Blocks : Kept(b)
  BY InitKept
<1>2. Sound /\ (raced \/ lost \/ \A b \in Blocks : Kept(b)) /\ [Next]_vars
        => (raced \/ lost \/ \A b \in Blocks : Kept(b))'
  <2> SUFFICES ASSUME Sound, raced \/ lost \/ \A b \in Blocks : Kept(b), [Next]_vars, ~raced', ~lost'
               PROVE  (\A b \in Blocks : Kept(b))'
    OBVIOUS
  <2>1. CASE Next
    <3>1. PICK p \in Procs : Access(p) \/ Flush(p)
      BY <2>1 DEF Next
    <3>2. ~raced /\ TInv /\ Counts /\ Placed
      BY <2>1 DEF Next, Sound
    <3>3. ~lost
      BY <3>1, LostStays
    <3>4. \A b \in Blocks : Kept(b)
      BY <3>2, <3>3
    <3> QED BY <3>1, <3>2, <3>4, KeptStep
  <2>2. CASE UNCHANGED vars
    <3> SUFFICES ASSUME NEW b \in Blocks PROVE Kept(b)'
      OBVIOUS
    <3>1. UNCHANGED <<cache, entry, disk, call, latest, promise>> /\ Kept(b)
      BY <2>2 DEF vars
    <3>2. Latest(b)'
      BY <3>1 DEF Kept, Latest, OnDisk, Has, Evicts, Unfilled
    <3>3. \A q \in Procs : Covered(q, b)' <=> Covered(q, b)
      BY <3>1 DEF Covered, Has, Evicts, Unfilled
    <3>4. Ordered(b)'
      BY <3>1, <3>3 DEF Kept, Ordered, Evicts
    <3> QED BY <3>2, <3>4 DEF Kept
  <2> QED BY <2>1, <2>2
<1> QED BY <1>1, <1>2, SoundInvariant, PTL DEF Spec, Durable

\* A filled entry of b in the list, in the words of the invariant.
LEMMA FilledHas ==
  ASSUME Sound, NEW b \in Blocks
  PROVE  \A e : e \in Filled(b) <=> e \in Entries /\ Has(e, b)
<1>1. Range(cache) \subseteq Entries
  BY DEF Sound, TInv, TypeOK, Range
<1> QED BY <1>1 DEF Filled, Cached, Has

\* The last write to a block is in its entry, or being evicted, or on the disk.
THEOREM CoherentHolds == Spec => []Coherent
<1>1. Durable => Coherent
  <2> SUFFICES ASSUME Durable, ~raced, ~lost, NEW b \in Blocks
               PROVE  IF Filled(b) # {} THEN \A e \in Filled(b) : entry[e].data = latest[b]
                      ELSE IF Evicting(b) # {} THEN \E e \in Evicting(b) : entry[e].data = latest[b]
                      ELSE disk[b] = latest[b]
    BY DEF Coherent
  <2>1. Sound /\ Latest(b)
    BY DEF Durable, Kept
  <2>2. CASE Filled(b) # {}
    BY <2>1, <2>2, FilledHas DEF Latest
  <2>3. CASE Filled(b) = {}
    <3>1. ~\E e \in Entries : Has(e, b)
      BY <2>1, <2>3, FilledHas
    <3>2. \A p \in Procs : Evicts(p, b) => call[p].victim \in Evicting(b)
      BY DEF Evicts, Evicting
    <3>3. Evicting(b) # {} => \E p \in Procs : Evicts(p, b)
      BY DEF Evicts, Evicting
    <3> QED BY <2>1, <2>3, <3>1, <3>2, <3>3 DEF Latest, OnDisk
  <2> QED BY <2>2, <2>3
<1> QED BY <1>1, DurableInvariant, PTL

\* An entry that is thrown away without being written back held what the disk has.
THEOREM CleanIsOnDiskHolds == Spec => []CleanIsOnDisk
<1>1. Durable => CleanIsOnDisk
  <2> SUFFICES ASSUME Durable, ~raced, ~lost, NEW b \in Blocks, NEW e \in Filled(b), ~entry[e].dirty
               PROVE  disk[b] = entry[e].data
    BY DEF CleanIsOnDisk
  <2>1. Sound /\ Latest(b)
    BY DEF Durable, Kept
  <2> QED BY <2>1, FilledHas DEF Latest, OnDisk
<1> QED BY <1>1, DurableInvariant, PTL

\* What had been written when a flush began is on the disk when it returns, or is
\* being written there by a call that evicts it.
THEOREM FlushedIsDurableHolds == Spec => []FlushedIsDurable
<1>1. Durable => FlushedIsDurable
  <2> SUFFICES ASSUME Durable, ~raced, ~lost, NEW p \in Procs, call[p].at = "walk",
                      call[p].op = "flush", call[p].e = NoEntry, NEW b \in Blocks
               PROVE  disk[b] >= promise[p][b] \/ EvictedBeside(p, b)
    BY DEF FlushedIsDurable
  <2>1. Covered(p, b)
    BY DEF Durable, Kept, Ordered
  <2>2. \A x : ~Behind(cache, call[p].e, x)
    <3>1. Range(cache) \subseteq Entries /\ NoEntry \notin Entries
      BY BlockCacheAssumption DEF Durable, Sound, TInv, TypeOK, Range
    <3> QED BY <3>1 DEF Behind, Range
  <2> QED BY <2>1, <2>2 DEF Covered, Evicts, EvictedBeside
<1> QED BY <1>1, DurableInvariant, PTL
-----------------------------------------------------------------------------
(* To its callers the cache is the disk.                                   *)

\* What a call copies out of an entry is the last write to its block.
LEMMA CopiesLatest ==
  ASSUME Durable, ~raced, ~raced', ~lost, NEW p \in Procs, read_hit(p) \/ read_loaded(p)
  PROVE  call[p].block \in Blocks /\ entry[call[p].e].data = latest[call[p].block]
<1>1. Shaped(call[p]) /\ Placed /\ TInv
  BY DEF Durable, Sound, TInv
<1>2. /\ call[p].at \in {"trim", "loaded"} /\ ~PoppedBeside(p, call[p].e)
      /\ call[p].at = "trim" => call[p].hit
  BY DEF read_hit, read_loaded, Trimmed, Copy
<1>3. /\ call[p].at \in Accessing /\ call[p].block \in Blocks /\ call[p].e \in Entries /\ ~Popping(p)
      /\ call[p].at = "loaded" => ~call[p].hit
  BY <1>1, <1>2 DEF Shaped, Accessing, Popping
<1>4. call[p].e \in heap /\ entry[call[p].e].block = call[p].block
  BY <1>1, <1>2, <1>3, BlockCacheAssumption DEF Placed, HeapInv, BlockInv
<1>5. call[p].e \in Range(cache)
  BY <1>1, <1>2, <1>3, <1>4, StillCached
<1>6. ~Unfilled(call[p].e)
  <2>1. CASE call[p].at = "trim"
    BY <1>1, <1>2, <1>3, <2>1 DEF Placed, FillInv
  <2>2. CASE call[p].at = "loaded"
    <3> SUFFICES ASSUME NEW q \in Procs, call[q].e = call[p].e, ~call[q].hit,
                        call[q].at \in {"trim", "evict", "evicted", "load"}
                 PROVE  FALSE
      BY DEF Unfilled
    <3>1. Creating(q) /\ Creating(p)
      BY <1>3, <2>2 DEF Creating, Accessing
    <3>2. q = p
      BY <1>1, <3>1 DEF Placed, FillInv
    <3> QED BY <2>2, <3>2
  <2> QED BY <1>2, <2>1, <2>2
<1>7. Has(call[p].e, call[p].block)
  BY <1>4, <1>5, <1>6 DEF Has
<1> QED BY <1>3, <1>7 DEF Durable, Kept, Latest

\* Every other step leaves what the blocks hold and what has been read as it was.
LEMMA OthersStutter ==
  ASSUME NEW p \in Procs, Access(p) \/ Flush(p), ~read_hit(p), ~read_loaded(p), ~write_block(p)
  PROVE  UNCHANGED <<latest, answer>>
BY DEF Access, Flush, start, out_of_memory, bcache_create, bcache_trim, evict_write, evict_delete,
       read_miss, device_read, device_read_fails, flush, walk_clean, clean_write, clean_done,
       flush_return, flush_block, device_write

\* Reads answer what was written last, and nothing but a write changes what a block
\* holds: the cache implements BlockStore.
THEOREM IsStoreHolds == Spec => IsStore
<1>1. Init => Store!Init
  <2> SUFFICES ASSUME Init PROVE Store!Init
    OBVIOUS
  <2>1. 0 \in Data
    BY BlockCacheAssumption DEF Data, Junk
  <2>2. latest = [b \in Blocks |-> 0] /\ answer = [p \in Procs |-> 0] /\ ~raced /\ ~lost
    BY DEF Init
  <2> QED BY <2>1, <2>2 DEF Store!Init
<1>2. Durable /\ TypeOK' /\ [Next]_vars => [Store!Next]_(Store!vars)
  <2> SUFFICES ASSUME Durable, TypeOK', [Next]_vars PROVE [Store!Next]_(Store!vars)
    OBVIOUS
  <2>1. CASE raced' \/ lost'
    BY <2>1 DEF Store!Next, Store!Break
  <2>2. CASE ~raced' /\ ~lost' /\ Next
    <3>1. PICK p \in Procs : Access(p) \/ Flush(p)
      BY <2>2 DEF Next
    <3>2. ~raced /\ ~lost
      BY <2>2, <3>1, LostStays DEF Next
    <3>3. (raced' \/ lost') = (raced \/ lost)
      BY <2>2, <3>2
    <3>4. CASE read_hit(p) \/ read_loaded(p)
      <4>1. Copy(p)
        BY <3>4 DEF read_hit, read_loaded
      <4>2. call[p].block \in Blocks /\ entry[call[p].e].data = latest[call[p].block]
        BY <2>2, <3>2, <3>4, CopiesLatest
      <4>3. answer' = [answer EXCEPT ![p] = latest[call[p].block]] /\ UNCHANGED latest
        BY <4>1, <4>2 DEF Copy
      <4>4. Store!Read(p, call[p].block)
        BY <3>3, <4>3 DEF Store!Read
      <4> QED BY <4>2, <4>4 DEF Store!Next
    <3>5. CASE write_block(p)
      <4>1. call[p].block \in Blocks
        BY <3>5 DEF write_block, Trimmed, Durable, Sound, TInv, Shaped, Accessing
      <4>2. latest' = [latest EXCEPT ![call[p].block] = Written + 1] /\ UNCHANGED answer
        BY <3>5 DEF write_block
      <4>3. Written + 1 \in Data
        <5> DEFINE d == Written + 1
        <5>1. latest \in [Blocks -> Data] /\ latest' \in [Blocks -> Data]
          BY DEF Durable, Sound, TInv, TypeOK
        <5>2. latest' = [latest EXCEPT ![call[p].block] = d]
          BY <4>2
        <5> HIDE DEF d, Data
        <5>3. latest'[call[p].block] = d /\ latest'[call[p].block] \in Data
          BY <4>1, <5>1, <5>2
        <5> QED BY <5>3 DEF d
      <4>4. Store!Write(call[p].block, Written + 1)
        BY <3>3, <4>2 DEF Store!Write
      <4> QED BY <4>1, <4>3, <4>4 DEF Store!Next
    <3>6. CASE ~read_hit(p) /\ ~read_loaded(p) /\ ~write_block(p)
      <4>1. UNCHANGED <<latest, answer>>
        BY <3>1, <3>6, OthersStutter
      <4> QED BY <3>3, <4>1 DEF Store!vars
    <3> QED BY <3>4, <3>5, <3>6
  <2>3. CASE UNCHANGED vars
    BY <2>3 DEF vars, Store!vars
  <2> QED BY <2>1, <2>2, <2>3
<1> QED BY <1>1, <1>2, DurableInvariant, TypeCorrect, PTL DEF Spec, IsStore, Store!Spec
=============================================================================

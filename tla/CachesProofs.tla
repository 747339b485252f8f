---------------------------- MODULE CachesProofs -----------------------------
(***************************************************************************)
(* Proofs about what is computed from the data in the caches, and about the  *)
(* run of these components together (MCCaches).                              *)
(*                                                                         *)
(* Of the RAM cache and the assemblers, for any keys, sizes, pin counts and  *)
(* budget and any row of bricks: bytesUsed_ is the bytes of the entries      *)
(* whatever is pinned, replaced and evicted; of two bricks assembled side by *)
(* side only one misses the other's border.  Of the shell mask, for any      *)
(* grids, surfaces and tasks: a finished mask has the whole shell, and each  *)
(* level the bricks that build() takes it to lie in.  Of the manifest and    *)
(* the plans made from it, for any volume, views and scan workers: a plan    *)
(* that is not cut off lists every brick in view that could show and is not  *)
(* resident, whatever the scan could not read.                               *)
(*                                                                         *)
(* What recursive functions compute (BytesOf, evictLocked, PresenceOf,       *)
(* MakePlan) is shown along their steps, by UpTo of DataLemmas.  Between two *)
(* operations the cache holds each key once (LruInv); BudgetKept then says   *)
(* what eviction may leave.  OneSidedSeams needs that an assembler has       *)
(* looked for a neighbour or still will (NeverBoth), MaskIsWhole that a      *)
(* swept band is whole (BandsSwept), and PlanLosesNothing that a row of the  *)
(* manifest is computed, in a worker's hands or not yet taken                *)
(* (RowsAccounted), and that the walk keeps below its stack all it has still *)
(* to visit (Exploring).                                                     *)
(***************************************************************************)
EXTENDS MCCaches, GpuBrickCacheProofs, DataLemmas, FiniteSetTheorems

-----------------------------------------------------------------------------
(* The RAM cache: its entries and their bytes.                               *)

Distinct(l) == \A i, j \in DOMAIN l : l[i].key = l[j].key => i = j

(* What defines the sums of the bytes of the first entries of l.             *)
Summing(l, g) == [i \in 0 .. Len(l) |-> IF i = 0 THEN 0 ELSE g[i - 1] + l[i].bytes]

Sum(l) == CHOOSE g : g = Summing(l, g)

(* An entry has natural bytes.                                               *)
LEMMA EntryTyped ==
  ASSUME NEW l \in Seq(LruEntry)
  PROVE  /\ Len(l) \in Nat
         /\ DOMAIN l = 1 .. Len(l)
         /\ \A i \in 1 .. Len(l) : /\ l[i] \in LruEntry
                                   /\ l[i].bytes \in Nat
                                   /\ l[i].key \in RamKeys
                                   /\ l[i].pinCount \in Nat
<1>1. Len(l) \in Nat /\ DOMAIN l = 1 .. Len(l)
  BY LenProperties
<1>2. ASSUME NEW i \in 1 .. Len(l)
      PROVE  l[i] \in LruEntry /\ l[i].key \in RamKeys /\ l[i].bytes \in Nat
             /\ l[i].pinCount \in Nat
  <2>1. l[i] \in LruEntry
    BY <1>2, ElementOfSeq, Zenon
  <2>2. l[i].key \in RamKeys /\ l[i].bytes \in Sizes /\ l[i].pinCount \in 0 .. MaxPins
    BY <2>1 DEF LruEntry
  <2>3. Sizes \subseteq Nat /\ 0 .. MaxPins \subseteq Nat
    BY LruAssumption DEF LruAssumption
  <2>. QED  BY <2>1, <2>2, <2>3
<1>. QED  BY <1>1, <1>2

(* The sums, entry by entry.                                                 *)
LEMMA SumIs ==
  ASSUME NEW l \in Seq(LruEntry)
  PROVE  /\ BytesOf(l) = Sum(l)[Len(l)]
         /\ Sum(l)[0] = 0
         /\ \A i \in 1 .. Len(l) : Sum(l)[i] = Sum(l)[i - 1] + l[i].bytes
         /\ \A i \in 0 .. Len(l) : Sum(l)[i] \in Nat
<1> DEFINE N == Len(l)
           step == [i \in 1 .. N |-> [x \in Nat |-> x + l[i].bytes]]
<1>1. N \in Nat /\ \A i \in 1 .. N : l[i].bytes \in Nat
  BY EntryTyped
<1>2. step \in [1 .. N -> [Nat -> Nat]]
  BY <1>1
<1>3. \A i \in 1 .. N, x \in Nat : step[i][x] = x + l[i].bytes
  OBVIOUS
<1>4. BytesOf(l) = Sum(l)[N]
  BY Zenon DEF BytesOf, Sum, Summing
<1> HIDE DEF N, step
<1>5. PICK g \in [0 .. N -> Nat] :
        /\ g[0] = 0
        /\ \A i \in 1 .. N : g[i] = step[i][g[i - 1]]
  <2>1. N \in Nat /\ 0 \in Nat
    BY <1>1
  <2>2. \E g : GoesOn(g, N, Nat, 0, step)
    BY <1>2, <2>1, Recursion, Zenon
  <2>. QED  BY <2>2 DEF GoesOn
<1>6. \A i \in 1 .. N : i - 1 \in 0 .. N /\ i \in 0 .. N
  BY <1>1
<1>7. \A i \in 1 .. N : g[i] = g[i - 1] + l[i].bytes
  BY <1>3, <1>5, <1>6
<1>8. g = Summing(l, g)
  <2>1. \A i \in 0 .. N : g[i] = IF i = 0 THEN 0 ELSE g[i - 1] + l[i].bytes
    BY <1>1, <1>5, <1>7
  <2>. QED  BY <1>5, <2>1 DEF Summing, N
<1>9. Sum(l) = Summing(l, Sum(l))
  BY <1>8, Zenon DEF Sum
<1>10. Sum(l)[0] = 0 /\ \A i \in 1 .. N : Sum(l)[i] = Sum(l)[i - 1] + l[i].bytes
  <2>1. \A i \in 0 .. N : Sum(l)[i] = IF i = 0 THEN 0 ELSE Sum(l)[i - 1] + l[i].bytes
    BY <1>9 DEF Summing, N
  <2>. QED  BY <1>1, <1>6, <2>1
<1> DEFINE T == {i \in 0 .. N : Sum(l)[i] \in Nat}
<1>11. 0 \in T
  BY <1>1, <1>10
<1>12. \A i \in 1 .. N : i - 1 \in T => i \in T
  <2>1. ASSUME NEW i \in 1 .. N, Sum(l)[i - 1] \in Nat PROVE Sum(l)[i] \in Nat
    <3>1. Sum(l)[i] = Sum(l)[i - 1] + l[i].bytes /\ l[i].bytes \in Nat
      BY <1>1, <1>10
    <3>. QED  BY <2>1, <3>1
  <2>. QED  BY <1>6, <2>1
<1> HIDE DEF T
<1>13. \A i \in 0 .. N : i \in T
  BY <1>1, <1>11, <1>12, UpTo
<1>. QED  BY <1>4, <1>10, <1>13 DEF T, N

(* Whatever adds up the same is the sum.                                     *)
LEMMA SumUnique ==
  ASSUME NEW l \in Seq(LruEntry), NEW h, h[0] = 0,
         \A i \in 1 .. Len(l) : h[i] = h[i - 1] + l[i].bytes
  PROVE  BytesOf(l) = h[Len(l)]
<1> DEFINE T == {i \in 0 .. Len(l) : h[i] = Sum(l)[i]}
<1>1. Len(l) \in Nat
  BY EntryTyped
<1>2. 0 \in T
  BY <1>1, SumIs
<1>3. \A i \in 1 .. Len(l) : i - 1 \in T => i \in T
  BY <1>1, SumIs
<1> HIDE DEF T
<1>4. \A i \in 0 .. Len(l) : i \in T
  BY <1>1, <1>2, <1>3, UpTo
<1>5. Len(l) \in T
  BY <1>1, <1>4
<1>. QED  BY <1>5, SumIs DEF T

(* The bytes of the entries are a number, never negative: BytesOf is what *)
(* insert() and evictLocked() count by hand.                              *)
LEMMA BytesNatural ==
  ASSUME NEW l \in Seq(LruEntry)
  PROVE  BytesOf(l) \in Nat
<1>1. Len(l) \in 0 .. Len(l)
  BY EntryTyped
<1>. QED  BY <1>1, SumIs

(* Typed and with one entry per key. *)
Entries(l) == l \in Seq(LruEntry) /\ Distinct(l)

(* One more entry in front. *)
LEMMA InFront ==
  ASSUME NEW e \in LruEntry, NEW s \in Seq(LruEntry)
  PROVE  /\ <<e>> \o s \in Seq(LruEntry)
         /\ Len(<<e>> \o s) = Len(s) + 1
         /\ (<<e>> \o s)[1] = e
         /\ \A i \in 1 .. Len(s) : (<<e>> \o s)[i + 1] = s[i]
         /\ \A i \in 2 .. Len(s) + 1 : (<<e>> \o s)[i] = s[i - 1]
         /\ KeysOf(<<e>> \o s) = {e.key} \cup KeysOf(s)
         /\ BytesOf(<<e>> \o s) = e.bytes + BytesOf(s)
         /\ Distinct(s) /\ e.key \notin KeysOf(s) => Distinct(<<e>> \o s)
<1> DEFINE t == <<e>> \o s
           N == Len(s)
<1>1. <<e>> \in Seq(LruEntry) /\ Len(<<e>>) = 1 /\ <<e>>[1] = e
  OBVIOUS
<1>2. /\ N \in Nat
      /\ DOMAIN s = 1 .. N
      /\ \A i \in 1 .. N : s[i].bytes \in Nat
  BY EntryTyped
<1>3. /\ t \in Seq(LruEntry)
      /\ Len(t) = 1 + N
      /\ \A i \in 1 .. 1 + N : t[i] = IF i <= 1 THEN <<e>>[i] ELSE s[i - 1]
  BY <1>1, ConcatProperties
<1>4. t[1] = e /\ \A i \in 2 .. N + 1 : t[i] = s[i - 1]
  BY <1>1, <1>2, <1>3
<1>5. \A i \in 1 .. N : i + 1 \in 2 .. N + 1 /\ i + 1 - 1 = i
  BY <1>2
<1>6. \A i \in 1 .. N : t[i + 1] = s[i]
  BY <1>4, <1>5
<1>7. DOMAIN t = 1 .. N + 1
  BY <1>2, <1>3, EntryTyped
<1>8. \A i \in 1 .. N + 1 : i = 1 \/ (i \in 2 .. N + 1 /\ i - 1 \in 1 .. N)
  BY <1>2
<1> HIDE DEF t, N
<1>9. KeysOf(t) = {e.key} \cup KeysOf(s)
  <2>1. ASSUME NEW x \in KeysOf(t) PROVE x = e.key \/ x \in KeysOf(s)
    <3>1. PICK i \in 1 .. N + 1 : x = t[i].key
      BY <1>7, <2>1, Zenon DEF KeysOf
    <3>2. CASE i = 1
      BY <1>4, <3>1, <3>2, Zenon
    <3>3. CASE i \in 2 .. N + 1 /\ i - 1 \in 1 .. N
      <4>1. x = s[i - 1].key /\ i - 1 \in DOMAIN s
        BY <1>2, <1>4, <3>1, <3>3, Zenon
      <4>. QED  BY <4>1, Zenon DEF KeysOf
    <3>. QED  BY <1>8, <3>2, <3>3
  <2>2. e.key \in KeysOf(t)
    <3>1. 1 \in DOMAIN t
      BY <1>2, <1>7
    <3>. QED  BY <1>4, <3>1 DEF KeysOf
  <2>3. ASSUME NEW x \in KeysOf(s) PROVE x \in KeysOf(t)
    <3>1. PICK i \in 1 .. N : x = s[i].key
      BY <1>2, <2>3 DEF KeysOf
    <3>2. i + 1 \in DOMAIN t /\ t[i + 1].key = x
      BY <1>2, <1>6, <1>7, <3>1
    <3>. QED  BY <3>2 DEF KeysOf
  <2>. QED  BY <2>1, <2>2, <2>3
<1>10. BytesOf(t) = e.bytes + BytesOf(s)
  <2> DEFINE h == [i \in 0 .. N + 1 |-> IF i = 0 THEN 0 ELSE e.bytes + Sum(s)[i - 1]]
  <2>1. h[0] = 0
    BY <1>2
  <2>2. \A i \in 1 .. N + 1 : h[i] = e.bytes + Sum(s)[i - 1]
    BY <1>2
  <2> HIDE DEF h
  <2>3. /\ BytesOf(s) = Sum(s)[N]
        /\ Sum(s)[0] = 0
        /\ \A i \in 1 .. N : Sum(s)[i] = Sum(s)[i - 1] + s[i].bytes
        /\ \A i \in 0 .. N : Sum(s)[i] \in Nat
    BY SumIs DEF N
  <2>4. e.bytes \in Nat
    BY LruAssumption DEF LruEntry, LruAssumption
  <2>5. ASSUME NEW i \in 1 .. N + 1 PROVE h[i] = h[i - 1] + t[i].bytes
    <3>1. CASE i = 1
      <4>1. h[1] = e.bytes + Sum(s)[0] /\ t[1].bytes = e.bytes
        BY <1>2, <1>4, <2>2
      <4>. QED  BY <2>1, <2>3, <2>4, <3>1, <4>1
    <3>2. CASE i \in 2 .. N + 1 /\ i - 1 \in 1 .. N
      <4>1. h[i] = e.bytes + Sum(s)[i - 1] /\ h[i - 1] = e.bytes + Sum(s)[i - 1 - 1]
        BY <1>2, <2>2, <3>2
      <4>2. Sum(s)[i - 1] = Sum(s)[i - 1 - 1] + s[i - 1].bytes /\ t[i] = s[i - 1]
        BY <1>4, <2>3, <3>2
      <4>3. s[i - 1].bytes \in Nat /\ Sum(s)[i - 1 - 1] \in Nat
        BY <1>2, <2>3, <3>2
      <4>. QED  BY <2>4, <4>1, <4>2, <4>3
    <3>. QED  BY <1>8, <3>1, <3>2
  <2>6. Len(t) = N + 1
    BY <1>2, <1>3 DEF t
  <2>7. BytesOf(t) = h[N + 1]
    BY <1>3, <2>1, <2>5, <2>6, SumUnique
  <2>. QED  BY <1>2, <2>2, <2>3, <2>7
<1>11. ASSUME Distinct(s), e.key \notin KeysOf(s) PROVE Distinct(t)
  <2>1. \A i \in 1 .. N : s[i].key # e.key
    BY <1>2, <1>11 DEF KeysOf
  <2>2. ASSUME NEW i \in 1 .. N + 1, NEW j \in 1 .. N + 1, t[i].key = t[j].key PROVE i = j
    <3>1. CASE i = 1 \/ j = 1
      BY <1>4, <1>8, <2>1, <2>2, <3>1
    <3>2. CASE i # 1 /\ j # 1
      <4>1. s[i - 1].key = s[j - 1].key /\ i - 1 \in 1 .. N /\ j - 1 \in 1 .. N
        BY <1>4, <1>8, <2>2, <3>2
      <4>2. i - 1 = j - 1
        BY <1>2, <1>11, <4>1 DEF Distinct
      <4>. QED  BY <1>2, <4>2
    <3>. QED  BY <3>1, <3>2
  <2>. QED  BY <1>7, <2>2 DEF Distinct
<1>. QED  BY <1>2, <1>3, <1>4, <1>6, <1>9, <1>10, <1>11 DEF t, N

(* The position of a key. *)
LEMMA PositionIs ==
  ASSUME NEW l \in Seq(LruEntry), NEW k \in KeysOf(l)
  PROVE  /\ Position(l, k) \in 1 .. Len(l)
         /\ l[Position(l, k)].key = k
<1>1. \E i \in DOMAIN l : l[i].key = k
  BY DEF KeysOf
<1>2. Position(l, k) \in DOMAIN l /\ l[Position(l, k)].key = k
  BY <1>1, Zenon DEF Position
<1>. QED  BY <1>2, EntryTyped

(* One entry less. *)
LEMMA WithoutIs ==
  ASSUME NEW l, Entries(l), NEW k \in KeysOf(l)
  PROVE  /\ Entries(Without(l, k))
         /\ KeysOf(Without(l, k)) = KeysOf(l) \ {k}
         /\ BytesOf(Without(l, k)) = BytesOf(l) - l[Position(l, k)].bytes
         /\ Len(Without(l, k)) = Len(l) - 1
         /\ \A i \in 1 .. Len(l) - 1 :
              Without(l, k)[i] = IF i < Position(l, k) THEN l[i] ELSE l[i + 1]
<1> DEFINE p == Position(l, k)
           w == Without(l, k)
           N == Len(l)
           a == SubSeq(l, 1, p - 1)
           b == SubSeq(l, p + 1, N)
<1>1. /\ l \in Seq(LruEntry)
      /\ N \in Nat
      /\ DOMAIN l = 1 .. N
      /\ \A i \in 1 .. N : l[i] \in LruEntry /\ l[i].bytes \in Nat
  BY EntryTyped DEF Entries
<1>2. p \in 1 .. N /\ l[p].key = k
  BY <1>1, PositionIs
<1>3. \A i, j \in 1 .. N : l[i].key = l[j].key => i = j
  BY <1>1 DEF Entries, Distinct
<1>4. w = a \o b
  BY DEF Without, RemoveAt
<1> HIDE DEF p, w, N
<1>5. p \in Int /\ 1 \in Int /\ p - 1 \in Int /\ p + 1 \in Int /\ N \in Int
  BY <1>1, <1>2
<1>6. /\ a \in Seq(LruEntry)
      /\ Len(a) = p - 1
      /\ \A i \in 1 .. p - 1 : a[i] = l[i]
  <2>1. \A i \in 1 .. p - 1 : l[i] \in LruEntry
    BY <1>1, <1>2
  <2>2. /\ a \in Seq(LruEntry)
        /\ Len(a) = IF 1 <= p - 1 THEN p - 1 - 1 + 1 ELSE 0
        /\ \A i \in 1 .. p - 1 - 1 + 1 : a[i] = l[1 + i - 1]
    BY <1>5, <2>1, SubSeqProperties
  <2> HIDE DEF a
  <2>3. \A i \in 1 .. p - 1 : a[i] = l[i]
    <3>1. ASSUME NEW i \in 1 .. p - 1 PROVE i \in 1 .. p - 1 - 1 + 1 /\ 1 + i - 1 = i
      BY <1>5, <3>1
    <3>. QED  BY <2>2, <3>1
  <2>. QED  BY <1>1, <1>2, <2>2, <2>3
<1>7. /\ b \in Seq(LruEntry)
      /\ Len(b) = N - p
      /\ \A i \in 1 .. N - p : b[i] = l[p + i]
  <2>1. \A i \in p + 1 .. N : l[i] \in LruEntry
    BY <1>1, <1>2
  <2>2. /\ b \in Seq(LruEntry)
        /\ Len(b) = IF p + 1 <= N THEN N - (p + 1) + 1 ELSE 0
        /\ \A i \in 1 .. N - (p + 1) + 1 : b[i] = l[p + 1 + i - 1]
    BY <1>5, <2>1, SubSeqProperties
  <2> HIDE DEF b
  <2>3. \A i \in 1 .. N - p : b[i] = l[p + i]
    <3>1. ASSUME NEW i \in 1 .. N - p PROVE i \in 1 .. N - (p + 1) + 1 /\ p + 1 + i - 1 = p + i
      BY <1>5, <3>1
    <3>. QED  BY <2>2, <3>1
  <2>. QED  BY <1>1, <1>2, <2>2, <2>3
<1> HIDE DEF a, b
<1>8. /\ w \in Seq(LruEntry)
      /\ Len(w) = N - 1
      /\ \A i \in 1 .. N - 1 : w[i] = IF i <= p - 1 THEN a[i] ELSE b[i - (p - 1)]
  <2>1. /\ w \in Seq(LruEntry)
        /\ Len(w) = Len(a) + Len(b)
        /\ \A i \in 1 .. Len(a) + Len(b) : w[i] = IF i <= Len(a) THEN a[i] ELSE b[i - Len(a)]
    BY <1>4, <1>6, <1>7, ConcatProperties
  <2>2. Len(a) + Len(b) = N - 1
    BY <1>5, <1>6, <1>7
  <2>. QED  BY <1>6, <2>1, <2>2
<1>9. \A i \in 1 .. N - 1 : w[i] = IF i < p THEN l[i] ELSE l[i + 1]
  <2>1. ASSUME NEW i \in 1 .. N - 1, i < p PROVE w[i] = l[i]
    BY <1>2, <1>5, <1>6, <1>8, <2>1
  <2>2. ASSUME NEW i \in 1 .. N - 1, ~(i < p) PROVE w[i] = l[i + 1]
    <3>1. i - (p - 1) \in 1 .. N - p /\ p + (i - (p - 1)) = i + 1 /\ ~(i <= p - 1)
      BY <1>1, <1>2, <1>5, <2>2
    <3>. QED  BY <1>7, <1>8, <2>2, <3>1
  <2>. QED  BY <2>1, <2>2
<1>10. DOMAIN w = 1 .. N - 1
  BY <1>8, EntryTyped
<1>11. Distinct(w)
  <2>1. ASSUME NEW i \in 1 .. N - 1, NEW j \in 1 .. N - 1, w[i].key = w[j].key PROVE i = j
    <3>1. /\ i \in 1 .. N /\ i + 1 \in 1 .. N /\ j \in 1 .. N /\ j + 1 \in 1 .. N
      BY <1>1
    <3>. QED  BY <1>1, <1>2, <1>3, <1>9, <2>1, <3>1
  <2>. QED  BY <1>10, <2>1 DEF Distinct
<1>12. KeysOf(w) = KeysOf(l) \ {k}
  <2>1. ASSUME NEW x \in KeysOf(w) PROVE x \in KeysOf(l) /\ x # k
    <3>1. PICK i \in 1 .. N - 1 : x = w[i].key
      BY <1>10, <2>1 DEF KeysOf
    <3>2. PICK j \in 1 .. N : j # p /\ w[i] = l[j]
      <4>1. i \in 1 .. N /\ i + 1 \in 1 .. N
        BY <1>1, <1>2
      <4>. QED  BY <1>1, <1>2, <1>9, <4>1
    <3>. QED  BY <1>1, <1>2, <1>3, <3>1, <3>2 DEF KeysOf
  <2>2. ASSUME NEW x \in KeysOf(l), x # k PROVE x \in KeysOf(w)
    <3>1. PICK j \in 1 .. N : x = l[j].key
      BY <1>1, <2>2 DEF KeysOf
    <3>2. j # p
      BY <1>2, <2>2, <3>1
    <3>3. CASE j < p
      <4>1. j \in 1 .. N - 1 /\ w[j] = l[j]
        BY <1>1, <1>2, <1>9, <3>3
      <4>. QED  BY <1>10, <3>1, <4>1 DEF KeysOf
    <3>4. CASE j > p
      <4>1. j - 1 \in 1 .. N - 1 /\ ~(j - 1 < p) /\ j - 1 + 1 = j
        BY <1>1, <1>2, <3>4
      <4>2. w[j - 1] = l[j]
        BY <1>9, <4>1
      <4>. QED  BY <1>10, <3>1, <4>1, <4>2 DEF KeysOf
    <3>. QED  BY <1>1, <1>2, <3>2, <3>3, <3>4
  <2>. QED  BY <2>1, <2>2
<1>13. BytesOf(w) = BytesOf(l) - l[p].bytes
  <2> DEFINE h == [i \in 0 .. N - 1 |->
                     IF i < p THEN Sum(l)[i] ELSE Sum(l)[i + 1] - l[p].bytes]
  <2>1. /\ BytesOf(l) = Sum(l)[N]
        /\ Sum(l)[0] = 0
        /\ \A i \in 1 .. N : Sum(l)[i] = Sum(l)[i - 1] + l[i].bytes
        /\ \A i \in 0 .. N : Sum(l)[i] \in Nat
    BY <1>1, SumIs DEF N
  <2>2. \A i \in 0 .. N - 1 :
          h[i] = IF i < p THEN Sum(l)[i] ELSE Sum(l)[i + 1] - l[p].bytes
    OBVIOUS
  <2> HIDE DEF h
  <2>3. l[p].bytes \in Nat
    BY <1>1, <1>2
  <2>4. h[0] = 0
    BY <1>1, <1>2, <2>1, <2>2
  <2>5. ASSUME NEW i \in 1 .. N - 1 PROVE h[i] = h[i - 1] + w[i].bytes
    <3>1. /\ i \in 1 .. N /\ i - 1 \in 0 .. N - 1 /\ i \in 0 .. N - 1
          /\ i + 1 \in 1 .. N /\ i + 1 - 1 = i /\ i - 1 \in 0 .. N /\ i \in 0 .. N
      BY <1>1
    <3>2. /\ Sum(l)[i] = Sum(l)[i - 1] + l[i].bytes
          /\ Sum(l)[i + 1] = Sum(l)[i] + l[i + 1].bytes
          /\ Sum(l)[i - 1] \in Nat /\ Sum(l)[i] \in Nat
          /\ l[i].bytes \in Nat /\ l[i + 1].bytes \in Nat
      <4>1. Sum(l)[i] = Sum(l)[i - 1] + l[i].bytes
        BY <2>1, <3>1
      <4>2. Sum(l)[i + 1] = Sum(l)[i] + l[i + 1].bytes
        <5>1. Sum(l)[i + 1] = Sum(l)[i + 1 - 1] + l[i + 1].bytes
          BY <2>1, <3>1
        <5>. QED  BY <3>1, <5>1
      <4>3. Sum(l)[i - 1] \in Nat /\ Sum(l)[i] \in Nat
        BY <2>1, <3>1
      <4>4. l[i].bytes \in Nat /\ l[i + 1].bytes \in Nat
        BY <1>1, <3>1
      <4>. QED  BY <4>1, <4>2, <4>3, <4>4
    <3>3. CASE i < p
      <4>1. h[i] = Sum(l)[i] /\ h[i - 1] = Sum(l)[i - 1] /\ w[i] = l[i]
        BY <1>2, <1>9, <2>2, <3>1, <3>3
      <4>. QED  BY <3>2, <4>1
    <3>4. CASE i = p
      <4>1. h[i] = Sum(l)[i + 1] - l[p].bytes /\ h[i - 1] = Sum(l)[i - 1] /\ w[i] = l[i + 1]
        BY <1>2, <1>9, <2>2, <3>1, <3>4
      <4>. QED  BY <2>3, <3>2, <3>4, <4>1
    <3>5. CASE i > p
      <4>1. i - 1 + 1 = i /\ ~(i - 1 < p) /\ ~(i < p)
        BY <1>2, <3>5
      <4>2. h[i] = Sum(l)[i + 1] - l[p].bytes /\ h[i - 1] = Sum(l)[i] - l[p].bytes
            /\ w[i] = l[i + 1]
        BY <1>9, <2>2, <3>1, <4>1
      <4>. QED  BY <2>3, <3>2, <4>2
    <3>. QED  BY <1>2, <3>3, <3>4, <3>5
  <2>6. BytesOf(w) = h[N - 1]
    BY <1>8, <2>4, <2>5, SumUnique
  <2>7. h[N - 1] = Sum(l)[N] - l[p].bytes
    <3>1. N - 1 \in 0 .. N - 1 /\ N - 1 + 1 = N
      BY <1>1, <1>2
    <3>2. CASE p = N
      <4>1. Sum(l)[N] = Sum(l)[N - 1] + l[N].bytes /\ Sum(l)[N - 1] \in Nat
        BY <1>1, <1>2, <2>1
      <4>2. h[N - 1] = Sum(l)[N - 1]
        BY <1>1, <2>2, <3>1, <3>2
      <4>. QED  BY <2>3, <3>2, <4>1, <4>2
    <3>3. CASE p # N
      <4>1. ~(N - 1 < p)
        BY <1>1, <1>2, <3>3
      <4>. QED  BY <2>2, <3>1, <4>1
    <3>. QED  BY <3>2, <3>3
  <2>. QED  BY <2>1, <2>6, <2>7
<1>. QED  BY <1>8, <1>9, <1>11, <1>12, <1>13 DEF Entries, w, p, N

-----------------------------------------------------------------------------
(* evictLocked(). *)

(* What defines the walk w over l: what is kept, and the bytes left, from i  *)
(* to the end.                                                               *)
Walking(l, bytes, w) ==
  [i \in 1 .. Len(l) + 1 |->
     IF i > Len(l) THEN [kept |-> <<>>, bytes |-> bytes]
     ELSE LET behind == w[i + 1] IN
          IF behind.bytes > RamBudget /\ l[i].pinCount = 0
          THEN [kept |-> behind.kept, bytes |-> behind.bytes - l[i].bytes]
          ELSE [kept |-> <<l[i]>> \o behind.kept, bytes |-> behind.bytes]]

Walk(l, bytes) == CHOOSE w : w = Walking(l, bytes, w)

Left == [kept : Seq(LruEntry), bytes : Int]

(* One step of the walk. *)
Leaves(e, x) ==
  IF x.bytes > RamBudget /\ e.pinCount = 0
  THEN [kept |-> x.kept, bytes |-> x.bytes - e.bytes]
  ELSE [kept |-> <<e>> \o x.kept, bytes |-> x.bytes]

(* One step of the walk of evictLocked() leaves entries and a number of *)
(* bytes.                                                               *)
LEMMA LeavesTyped ==
  ASSUME NEW e \in LruEntry, NEW x \in Left
  PROVE  Leaves(e, x) \in Left
<1>1. x.kept \in Seq(LruEntry) /\ x.bytes \in Int
  BY DEF Left
<1>2. e.bytes \in Int
  <2>1. e.bytes \in Sizes
    BY DEF LruEntry
  <2>2. Sizes \subseteq Nat
    BY LruAssumption DEF LruAssumption
  <2>3. e.bytes \in Nat
    BY <2>1, <2>2, Zenon
  <2>. QED  BY <2>3
<1>3. <<e>> \o x.kept \in Seq(LruEntry)
  BY <1>1, InFront
<1>. QED  BY <1>1, <1>2, <1>3 DEF Leaves, Left

(* The walk goes from the end to the front. *)
LEMMA WalkIs ==
  ASSUME NEW l \in Seq(LruEntry), NEW bytes \in Int
  PROVE  /\ evictLocked(l, bytes) = Walk(l, bytes)[1]
         /\ Walk(l, bytes)[Len(l) + 1] = [kept |-> <<>>, bytes |-> bytes]
         /\ \A i \in 1 .. Len(l) : Walk(l, bytes)[i] = Leaves(l[i], Walk(l, bytes)[i + 1])
<1> DEFINE N == Len(l)
           last == [kept |-> <<>>, bytes |-> bytes]
           step == [j \in 1 .. N |-> [x \in Left |-> Leaves(l[N + 1 - j], x)]]
<1>1. N \in Nat /\ \A i \in 1 .. N : l[i] \in LruEntry
  BY EntryTyped
<1>2. \A j \in 1 .. N : N + 1 - j \in 1 .. N
  BY <1>1
<1>3. last \in Left
  BY DEF Left
<1>4. step \in [1 .. N -> [Left -> Left]]
  <2>1. ASSUME NEW j \in 1 .. N PROVE [x \in Left |-> Leaves(l[N + 1 - j], x)] \in [Left -> Left]
    BY <1>1, <1>2, LeavesTyped
  <2>. QED  BY <2>1
<1>5. \A j \in 1 .. N, x \in Left : step[j][x] = Leaves(l[N + 1 - j], x)
  OBVIOUS
<1>6. evictLocked(l, bytes) = Walk(l, bytes)[1]
  BY Zenon DEF evictLocked, Walk, Walking
<1> HIDE DEF N, step, last
<1>7. PICK g : GoesOn(g, N, Left, last, step)
  BY <1>1, <1>3, <1>4, Recursion, Zenon
<1>8. /\ g \in [0 .. N -> Left]
      /\ g[0] = last
      /\ \A j \in 1 .. N : g[j] = Leaves(l[N + 1 - j], g[j - 1])
  <2>1. /\ g \in [0 .. N -> Left] /\ g[0] = last
        /\ \A j \in 1 .. N : g[j] = step[j][g[j - 1]]
    BY <1>7 DEF GoesOn
  <2>2. \A j \in 1 .. N : g[j - 1] \in Left
    BY <1>1, <2>1
  <2>. QED  BY <1>5, <2>1, <2>2
<1> DEFINE w == [i \in 1 .. N + 1 |-> g[N + 1 - i]]
<1>9. /\ w[N + 1] = last
      /\ \A i \in 1 .. N : w[i] = Leaves(l[i], w[i + 1])
  <2>1. N + 1 \in 1 .. N + 1 /\ N + 1 - (N + 1) = 0
    BY <1>1
  <2>2. ASSUME NEW i \in 1 .. N PROVE w[i] = Leaves(l[i], w[i + 1])
    <3>1. /\ N + 1 - i \in 1 .. N /\ N + 1 - (N + 1 - i) = i
          /\ N + 1 - (i + 1) = N + 1 - i - 1 /\ i + 1 \in 1 .. N + 1 /\ i \in 1 .. N + 1
      BY <1>1
    <3>2. w[i] = g[N + 1 - i] /\ w[i + 1] = g[N + 1 - i - 1]
      BY <3>1
    <3> HIDE DEF w
    <3>3. g[N + 1 - i] = Leaves(l[i], g[N + 1 - i - 1])
      <4>1. PICK j \in 1 .. N : j = N + 1 - i
        BY <3>1
      <4>2. g[j] = Leaves(l[N + 1 - j], g[j - 1])
        BY <1>8
      <4>3. N + 1 - j = i /\ N + 1 - i - 1 = j - 1
        BY <1>1, <4>1
      <4>. QED  BY <4>1, <4>2, <4>3, Zenon
    <3>. QED  BY <3>2, <3>3
  <2>. QED  BY <1>8, <2>1, <2>2
<1>10. w = Walking(l, bytes, w)
  <2> DEFINE v == Walking(l, bytes, w)
  <2>1. DOMAIN w = 1 .. N + 1
    OBVIOUS
  <2>2. ASSUME NEW i \in 1 .. N + 1 PROVE w[i] = v[i]
    <3> HIDE DEF w
    <3>1. CASE i = N + 1
      <4>1. i > N
        BY <1>1, <3>1
      <4>. QED  BY <1>9, <2>2, <3>1, <4>1 DEF Walking, N, last
    <3>2. CASE i \in 1 .. N
      <4>1. ~(i > N)
        BY <1>1, <3>2
      <4>. QED  BY <1>9, <2>2, <3>2, <4>1 DEF Walking, N, Leaves
    <3>. QED  BY <1>1, <3>1, <3>2
  <2>3. w = [i \in 1 .. N + 1 |-> v[i]]
    <3>1. w = [i \in 1 .. N + 1 |-> w[i]]
      OBVIOUS
    <3> HIDE DEF w, v
    <3>. QED  BY <2>2, <3>1
  <2>4. v = [i \in 1 .. N + 1 |-> v[i]]
    <3> HIDE DEF w
    <3>. QED  BY DEF Walking, N
  <2> HIDE DEF w, v
  <2>5. w = v
    BY <2>3, <2>4
  <2>. QED  BY <2>5 DEF v
<1>11. Walk(l, bytes) = Walking(l, bytes, Walk(l, bytes))
  <2> HIDE DEF w
  <2>. QED  BY <1>10, Zenon DEF Walk
<1> DEFINE u == Walk(l, bytes)
<1> HIDE DEF u, w
<1>12. \A i \in 1 .. N + 1 : u[i] = Walking(l, bytes, u)[i]
  BY <1>11 DEF u
<1>13. u[N + 1] = last
  <2>1. N + 1 \in 1 .. N + 1 /\ N + 1 > N
    BY <1>1
  <2>. QED  BY <1>12, <2>1 DEF Walking, N, last
<1>14. ASSUME NEW i \in 1 .. N PROVE u[i] = Leaves(l[i], u[i + 1])
  <2>1. i \in 1 .. N + 1 /\ ~(i > N)
    BY <1>1
  <2>. QED  BY <1>12, <2>1 DEF Walking, N, Leaves
<1>. QED  BY <1>6, <1>13, <1>14 DEF u, N, last

(* What evictLocked() leaves of l when it starts with bytes: entries of l in *)
(* their order; pinned ones all, and with an unpinned one all that are       *)
(* hotter; so many that the cache is in its budget unless all are pinned.    *)
Evicts(l, bytes, left) ==
  /\ Entries(left.kept)
  /\ left.bytes \in Int
  /\ bytes - left.bytes = BytesOf(l) - BytesOf(left.kept)
  /\ left.bytes > RamBudget => \A i \in DOMAIN left.kept : left.kept[i].pinCount > 0
  /\ \A i \in DOMAIN left.kept : \E j \in DOMAIN l : left.kept[i] = l[j]
  /\ \A j \in DOMAIN l : l[j].key \notin KeysOf(left.kept) =>
       /\ l[j].pinCount = 0
       /\ \A h \in DOMAIN l : h > j /\ l[h].pinCount = 0 => l[h].key \notin KeysOf(left.kept)
  /\ l # <<>> /\ l[1].key \in KeysOf(left.kept) => left.kept # <<>> /\ left.kept[1] = l[1]

(* What evictLocked() leaves, by induction over its walk from the end:      *)
(* entries of the list, each once, and the bytes of exactly those; over     *)
(* budget only if all of them are pinned; the pinned ones all stay, and the *)
(* first one is the list's if it is left at all.                            *)
LEMMA EvictIs ==
  ASSUME NEW l, Entries(l), NEW bytes \in Int
  PROVE  Evicts(l, bytes, evictLocked(l, bytes))
<1> DEFINE N == Len(l)
           w == Walk(l, bytes)
           Kept(i) == w[i].kept
           Good(i) ==
             /\ w[i] \in Left
             /\ Entries(Kept(i))
             /\ bytes - w[i].bytes = BytesOf(l) - Sum(l)[i - 1] - BytesOf(Kept(i))
             /\ w[i].bytes > RamBudget => \A m \in DOMAIN Kept(i) : Kept(i)[m].pinCount > 0
             /\ \A m \in DOMAIN Kept(i) : \E j \in i .. N : Kept(i)[m] = l[j]
             /\ \A j \in i .. N : l[j].key \notin KeysOf(Kept(i)) =>
                  /\ l[j].pinCount = 0
                  /\ \A h \in j + 1 .. N : l[h].pinCount = 0 => l[h].key \notin KeysOf(Kept(i))
             /\ i <= N /\ l[i].key \in KeysOf(Kept(i)) => Kept(i) # <<>> /\ Kept(i)[1] = l[i]
<1>1. /\ l \in Seq(LruEntry)
      /\ N \in Nat
      /\ DOMAIN l = 1 .. N
      /\ \A i \in 1 .. N : l[i] \in LruEntry /\ l[i].bytes \in Nat /\ l[i].pinCount \in Nat
      /\ \A i, j \in 1 .. N : l[i].key = l[j].key => i = j
  BY EntryTyped DEF Entries, Distinct
<1>2. /\ BytesOf(l) = Sum(l)[N]
      /\ Sum(l)[0] = 0
      /\ \A i \in 1 .. N : Sum(l)[i] = Sum(l)[i - 1] + l[i].bytes
      /\ \A i \in 0 .. N : Sum(l)[i] \in Nat
  BY <1>1, SumIs
<1>3. /\ evictLocked(l, bytes) = w[1]
      /\ w[N + 1] = [kept |-> <<>>, bytes |-> bytes]
      /\ \A i \in 1 .. N : w[i] = Leaves(l[i], w[i + 1])
  <2>1. l \in Seq(LruEntry) /\ bytes \in Int
    BY <1>1
  <2>2. evictLocked(l, bytes) = w[1]
    BY <2>1, WalkIs
  <2>3. w[N + 1] = [kept |-> <<>>, bytes |-> bytes]
    BY <2>1, WalkIs
  <2>4. \A i \in 1 .. N : w[i] = Leaves(l[i], w[i + 1])
    BY <2>1, WalkIs
  <2>. QED  BY <2>2, <2>3, <2>4, Zenon
<1> HIDE DEF w
<1>4. Good(N + 1)
  <2>1. Kept(N + 1) = <<>> /\ w[N + 1].bytes = bytes /\ w[N + 1] \in Left
    BY <1>3 DEF Left
  <2>2. DOMAIN <<>> = {} /\ KeysOf(<<>>) = {} /\ <<>> \in Seq(LruEntry)
    BY DEF KeysOf
  <2>3. BytesOf(<<>>) = 0
    <3>1. Len(<<>>) = 0
      OBVIOUS
    <3>2. BytesOf(<<>>) = Sum(<<>>)[0] /\ Sum(<<>>)[0] = 0
      BY <2>2, <3>1, SumIs
    <3>. QED  BY <3>2
  <2>4. N + 1 - 1 = N /\ ~(N + 1 <= N) /\ N + 1 .. N = {}
    BY <1>1
  <2>5. Entries(Kept(N + 1))
    BY <2>1, <2>2 DEF Entries, Distinct
  <2>6. bytes - w[N + 1].bytes = BytesOf(l) - Sum(l)[N + 1 - 1] - BytesOf(Kept(N + 1))
    <3>1. Sum(l)[N] \in Nat
      BY <1>1, <1>2
    <3>. QED  BY <1>2, <2>1, <2>3, <2>4, <3>1
  <2>. QED  BY <2>1, <2>2, <2>4, <2>5, <2>6
<1>5. ASSUME NEW i \in 1 .. N, Good(i + 1) PROVE Good(i)
  <2> DEFINE K == Kept(i + 1)
             b == w[i + 1].bytes
             goes == b > RamBudget /\ l[i].pinCount = 0
  <2>0. RamBudget \in Nat
    BY LruAssumption DEF LruAssumption
  <2>1. /\ K \in Seq(LruEntry) /\ Distinct(K)
        /\ b \in Int
        /\ bytes - b = BytesOf(l) - Sum(l)[i] - BytesOf(K)
        /\ b > RamBudget => \A m \in DOMAIN K : K[m].pinCount > 0
        /\ \A m \in DOMAIN K : \E j \in i + 1 .. N : K[m] = l[j]
        /\ \A j \in i + 1 .. N : l[j].key \notin KeysOf(K) =>
             /\ l[j].pinCount = 0
             /\ \A h \in j + 1 .. N : l[h].pinCount = 0 => l[h].key \notin KeysOf(K)
    <3>1. i + 1 - 1 = i
      OBVIOUS
    <3>. QED  BY <1>5, <3>1 DEF Left, Entries
  <2>2. w[i] = Leaves(l[i], w[i + 1])
    BY <1>3
  <2>3. l[i].key \notin KeysOf(K)
    <3>1. ASSUME l[i].key \in KeysOf(K) PROVE FALSE
      <4>1. PICK m \in DOMAIN K : K[m].key = l[i].key
        BY <3>1 DEF KeysOf
      <4>2. PICK j \in i + 1 .. N : K[m] = l[j]
        BY <2>1, <4>1
      <4>3. j \in 1 .. N /\ j # i
        BY <1>1
      <4>. QED  BY <1>1, <4>1, <4>2, <4>3
    <3>. QED  BY <3>1
  <2>4. \A h \in i + 1 .. N : b > RamBudget /\ l[h].pinCount = 0 => l[h].key \notin KeysOf(K)
    <3>1. ASSUME NEW h \in i + 1 .. N, b > RamBudget, l[h].pinCount = 0, l[h].key \in KeysOf(K)
          PROVE  FALSE
      <4>1. PICK m \in DOMAIN K : K[m].key = l[h].key
        BY <3>1 DEF KeysOf
      <4>2. PICK j \in i + 1 .. N : K[m] = l[j]
        BY <2>1, <4>1
      <4>3. j \in 1 .. N /\ h \in 1 .. N
        BY <1>1
      <4>4. j = h
        BY <1>1, <4>1, <4>2, <4>3
      <4>5. K[m].pinCount > 0 /\ K[m].pinCount = 0
        BY <2>1, <3>1, <4>1, <4>2, <4>4
      <4>. QED  BY <4>5
    <3>. QED  BY <3>1
  <2>5. BytesOf(l) \in Nat /\ BytesOf(K) \in Nat /\ l[i].bytes \in Nat
        /\ Sum(l)[i] = Sum(l)[i - 1] + l[i].bytes /\ Sum(l)[i - 1] \in Nat
    <3>1. i - 1 \in 0 .. N
      BY <1>1
    <3>. QED  BY <1>1, <1>2, <2>1, <3>1, BytesNatural
  <2>6. i .. N = {i} \cup (i + 1 .. N)
    BY <1>1
  <2>7. CASE goes
    <3>1. Kept(i) = K /\ w[i].bytes = b - l[i].bytes
      BY <2>2, <2>7 DEF Leaves
    <3>2. w[i] \in Left
      BY <1>1, <1>5, <2>2, LeavesTyped
    <3>3. bytes - w[i].bytes = BytesOf(l) - Sum(l)[i - 1] - BytesOf(Kept(i))
      <4>1. BytesOf(Kept(i)) = BytesOf(K) /\ w[i].bytes = b - l[i].bytes
        BY <3>1
      <4>2. b \in Int /\ bytes - b = BytesOf(l) - Sum(l)[i] - BytesOf(K)
        BY <2>1
      <4> HIDE DEF Kept, K, b
      <4>3. PICK x \in Int, c \in Int : x = l[i].bytes /\ c = b
        BY <2>5, <4>2
      <4>4. PICK L \in Int, S \in Int, T \in Int, k \in Int :
              L = BytesOf(l) /\ S = Sum(l)[i] /\ T = Sum(l)[i - 1] /\ k = BytesOf(K)
        BY <2>5
      <4>5. bytes - c = L - S - k /\ S = T + x
        BY <2>5, <4>2, <4>3, <4>4, Zenon
      <4>6. bytes - (c - x) = L - T - k
        BY <4>5
      <4>. QED  BY <4>1, <4>3, <4>4, <4>6, Zenon
    <3>4. w[i].bytes > RamBudget => \A m \in DOMAIN Kept(i) : Kept(i)[m].pinCount > 0
      BY <2>1, <2>7, <3>1
    <3>5. \A m \in DOMAIN Kept(i) : \E j \in i .. N : Kept(i)[m] = l[j]
      BY <2>1, <2>6, <3>1
    <3>6. ASSUME NEW j \in i .. N, l[j].key \notin KeysOf(K)
          PROVE  /\ l[j].pinCount = 0
                 /\ \A h \in j + 1 .. N : l[h].pinCount = 0 => l[h].key \notin KeysOf(K)
      <4>1. CASE j = i
        BY <2>4, <2>7, <4>1
      <4>2. CASE j \in i + 1 .. N
        BY <2>1, <3>6, <4>2
      <4>. QED  BY <2>6, <4>1, <4>2
    <3>. QED  BY <2>1, <2>3, <3>1, <3>2, <3>3, <3>4, <3>5, <3>6 DEF Entries
  <2>8. CASE ~goes
    <3>1. Kept(i) = <<l[i]>> \o K /\ w[i].bytes = b
      BY <2>2, <2>8 DEF Leaves
    <3>2. w[i] \in Left
      BY <1>1, <1>5, <2>2, LeavesTyped
    <3>3. /\ Kept(i) \in Seq(LruEntry)
          /\ Len(Kept(i)) = Len(K) + 1
          /\ Kept(i)[1] = l[i]
          /\ \A n \in 2 .. Len(K) + 1 : Kept(i)[n] = K[n - 1]
          /\ KeysOf(Kept(i)) = {l[i].key} \cup KeysOf(K)
          /\ BytesOf(Kept(i)) = l[i].bytes + BytesOf(K)
          /\ Distinct(Kept(i))
      BY <1>1, <2>1, <2>3, <3>1, InFront
    <3>4. /\ Len(K) \in Nat
          /\ DOMAIN K = 1 .. Len(K)
          /\ DOMAIN Kept(i) = 1 .. Len(K) + 1
      BY <2>1, <3>3, EntryTyped
    <3>5. \A m \in 1 .. Len(K) + 1 : m = 1 \/ (m \in 2 .. Len(K) + 1 /\ m - 1 \in 1 .. Len(K))
      BY <3>4
    <3>6. \A m \in DOMAIN Kept(i) : Kept(i)[m] = l[i] \/ \E n \in DOMAIN K : Kept(i)[m] = K[n]
      BY <3>3, <3>4, <3>5
    <3> HIDE DEF Kept
    <3>7. w[i].bytes > RamBudget => \A m \in DOMAIN Kept(i) : Kept(i)[m].pinCount > 0
      <4>1. b > RamBudget => l[i].pinCount > 0
        BY <1>1, <2>8
      <4>. QED  BY <2>1, <3>1, <3>6, <4>1
    <3>8. \A m \in DOMAIN Kept(i) : \E j \in i .. N : Kept(i)[m] = l[j]
      BY <2>1, <2>6, <3>6
    <3>9. bytes - w[i].bytes = BytesOf(l) - Sum(l)[i - 1] - BytesOf(Kept(i))
      <4>1. BytesOf(Kept(i)) = l[i].bytes + BytesOf(K)
        BY <3>3
      <4> HIDE DEF K, b
      <4>. QED  BY <2>1, <2>5, <3>1, <4>1
    <3>10. ASSUME NEW j \in i .. N, l[j].key \notin KeysOf(Kept(i))
           PROVE  /\ l[j].pinCount = 0
                  /\ \A h \in j + 1 .. N : l[h].pinCount = 0 => l[h].key \notin KeysOf(Kept(i))
      <4>1. j \in i + 1 .. N /\ l[j].key \notin KeysOf(K)
        BY <2>6, <3>3, <3>10
      <4>2. ASSUME NEW h \in j + 1 .. N, l[h].pinCount = 0 PROVE l[h].key \notin KeysOf(Kept(i))
        <5>1. l[h].key \notin KeysOf(K)
          BY <2>1, <4>1, <4>2
        <5>2. h \in 1 .. N /\ h # i
          BY <1>1, <4>1
        <5>. QED  BY <1>1, <3>3, <5>1, <5>2
      <4>. QED  BY <2>1, <4>1, <4>2
    <3>11. Kept(i) # <<>>
      BY <3>3, <3>4
    <3>. QED  BY <3>2, <3>3, <3>7, <3>8, <3>9, <3>10, <3>11 DEF Entries
  <2>. QED  BY <2>7, <2>8
<1> DEFINE T == {j \in 0 .. N : Good(N + 1 - j)}
<1> HIDE DEF Good
<1>6. 0 \in T
  BY <1>1, <1>4
<1>7. ASSUME NEW j \in 1 .. N, j - 1 \in T PROVE j \in T
  <2>1. /\ N + 1 - j \in 1 .. N /\ j \in 0 .. N
        /\ N + 1 - (j - 1) = N + 1 - j + 1
    BY <1>1
  <2>2. Good(N + 1 - j + 1)
    BY <1>7, <2>1
  <2>. QED  BY <1>5, <2>1, <2>2
<1> HIDE DEF T
<1>8. N \in T
  <2>1. \A j \in 0 .. N : j \in T
    BY <1>1, <1>6, <1>7, UpTo
  <2>. QED  BY <1>1, <2>1
<1>9. Good(1)
  <2>1. N + 1 - N = 1
    BY <1>1
  <2>. QED  BY <1>8, <2>1 DEF T
<1> DEFINE left == evictLocked(l, bytes)
           kept == left.kept
<1>10. /\ left \in Left
       /\ Entries(kept)
       /\ bytes - left.bytes = BytesOf(l) - Sum(l)[1 - 1] - BytesOf(kept)
       /\ left.bytes > RamBudget => \A m \in DOMAIN kept : kept[m].pinCount > 0
       /\ \A m \in DOMAIN kept : \E j \in 1 .. N : kept[m] = l[j]
       /\ \A j \in 1 .. N : l[j].key \notin KeysOf(kept) =>
            /\ l[j].pinCount = 0
            /\ \A h \in j + 1 .. N : l[h].pinCount = 0 => l[h].key \notin KeysOf(kept)
       /\ 1 <= N /\ l[1].key \in KeysOf(kept) => kept # <<>> /\ kept[1] = l[1]
  BY <1>3, <1>9 DEF Good
<1> HIDE DEF left
<1>11. left.bytes \in Int /\ bytes - left.bytes = BytesOf(l) - BytesOf(kept)
  <2>1. left.bytes \in Int
    BY <1>10 DEF Left
  <2>2. Sum(l)[1 - 1] = 0 /\ BytesOf(l) \in Nat /\ BytesOf(kept) \in Nat
    BY <1>1, <1>2, <1>10, BytesNatural DEF Entries
  <2> HIDE DEF kept
  <2>. QED  BY <1>10, <2>1, <2>2
<1>12. \A j, h \in 1 .. N : h > j => h \in j + 1 .. N
  BY <1>1
<1>13. l # <<>> => 1 <= N
  BY <1>1, EmptySeq
<1> HIDE DEF N
<1>14. Evicts(l, bytes, left)
  BY <1>1, <1>10, <1>11, <1>12, <1>13 DEF Evicts
<1>. QED
  BY <1>14 DEF left

-----------------------------------------------------------------------------
(* The operations. *)

LruInv ==
  /\ LruTypeOK
  /\ Distinct(lru)
  /\ bytesUsed = BytesOf(lru)

(* The list evictLocked() works on. *)
Full(k, size, pins) ==
  <<[key |-> k, bytes |-> size, pinCount |-> pins]>> \o Without(lru, k)

(* Where the others are in it: in their order, after the first.              *)
Follows(full, k) ==
  \A i \in DOMAIN lru : lru[i].key # k =>
    \E j \in DOMAIN full :
      /\ j > 1
      /\ full[j] = lru[i]
      /\ \A n \in DOMAIN lru : n > i /\ lru[n].key # k =>
           \E h \in DOMAIN full : h > j /\ full[h] = lru[n]

(* The list insert() hands to evictLocked(), the new entry in front of the *)
(* others without its key: each key once, and its bytes are those insert() *)
(* has counted.                                                            *)
LEMMA FullIs ==
  ASSUME LruInv, NEW k \in RamKeys, NEW size \in Sizes, NEW pins \in Pins
  PROVE  LET full == Full(k, size, pins) IN
         /\ Entries(full)
         /\ BytesOf(full) = Replaced(k) + size
         /\ full # <<>> /\ full[1] = [key |-> k, bytes |-> size, pinCount |-> pins]
         /\ Follows(full, k)
<1> DEFINE e == [key |-> k, bytes |-> size, pinCount |-> pins]
           w == Without(lru, k)
           full == Full(k, size, pins)
           p == Position(lru, k)
<1>1. e \in LruEntry
  BY LruAssumption DEF LruAssumption, LruEntry
<1>2. /\ Entries(lru) /\ lru \in Seq(LruEntry) /\ Distinct(lru)
      /\ Len(lru) \in Nat /\ DOMAIN lru = 1 .. Len(lru)
      /\ bytesUsed = BytesOf(lru) /\ BytesOf(lru) \in Nat
  BY EntryTyped, BytesNatural DEF LruInv, LruTypeOK, Entries
<1>3. k \in KeysOf(lru) => /\ p \in 1 .. Len(lru) /\ lru[p].key = k /\ lru[p].bytes \in Nat
  BY <1>2, PositionIs, EntryTyped
<1>4. /\ Entries(w) /\ w \in Seq(LruEntry) /\ Distinct(w)
      /\ k \notin KeysOf(w)
      /\ BytesOf(w) = Replaced(k)
  <2>1. CASE k \in KeysOf(lru)
    <3>1. /\ Entries(w)
          /\ KeysOf(w) = KeysOf(lru) \ {k}
          /\ BytesOf(w) = BytesOf(lru) - lru[p].bytes
      BY <1>2, <2>1, WithoutIs
    <3>. QED  BY <1>2, <2>1, <3>1 DEF Replaced, Entries
  <2>2. CASE k \notin KeysOf(lru)
    <3>1. w = lru
      BY <2>2 DEF Without
    <3> HIDE DEF w
    <3>. QED  BY <1>2, <2>2, <3>1 DEF Replaced
  <2>. QED  BY <2>1, <2>2
<1>5. \A i \in 1 .. Len(lru) : lru[i].key # k =>
        \E j \in 1 .. Len(w) :
          /\ w[j] = lru[i]
          /\ \A n \in 1 .. Len(lru) : n > i /\ lru[n].key # k =>
               \E h \in 1 .. Len(w) : h > j /\ w[h] = lru[n]
  <2>1. CASE k \in KeysOf(lru)
    <3>1. /\ Len(w) = Len(lru) - 1
          /\ \A i \in 1 .. Len(lru) - 1 : w[i] = IF i < p THEN lru[i] ELSE lru[i + 1]
      BY <1>2, <2>1, WithoutIs
    <3> DEFINE at(i) == IF i < p THEN i ELSE i - 1
    <3>2. ASSUME NEW i \in 1 .. Len(lru), lru[i].key # k
          PROVE  at(i) \in 1 .. Len(w) /\ w[at(i)] = lru[i]
      <4>1. i # p
        BY <1>3, <2>1, <3>2
      <4>2. CASE i < p
        BY <1>2, <1>3, <2>1, <3>1, <4>2
      <4>3. CASE i > p
        <5>1. ~(i < p) /\ i - 1 \in 1 .. Len(lru) - 1 /\ ~(i - 1 < p) /\ i - 1 + 1 = i
          BY <1>2, <1>3, <2>1, <4>3
        <5>. QED  BY <3>1, <5>1
      <4>. QED  BY <1>2, <1>3, <2>1, <4>1, <4>2, <4>3
    <3>3. \A i, n \in 1 .. Len(lru) : n > i /\ i # p /\ n # p => at(n) > at(i)
      BY <1>2, <1>3, <2>1
    <3>4. \A i \in 1 .. Len(lru) : lru[i].key # k => i # p
      BY <1>3, <2>1
    <3> HIDE DEF at, w
    <3>. QED  BY <3>2, <3>3, <3>4
  <2>2. CASE k \notin KeysOf(lru)
    <3>1. w = lru
      BY <2>2 DEF Without
    <3> HIDE DEF w
    <3>. QED  BY <3>1
  <2>. QED  BY <2>1, <2>2
<1> HIDE DEF w
<1>6. /\ full \in Seq(LruEntry)
      /\ Len(full) = Len(w) + 1
      /\ full[1] = e
      /\ \A i \in 1 .. Len(w) : full[i + 1] = w[i]
      /\ BytesOf(full) = e.bytes + BytesOf(w)
      /\ Distinct(full)
  BY <1>1, <1>4, InFront DEF Full, w
<1> HIDE DEF full
<1>7. Len(w) \in Nat /\ DOMAIN full = 1 .. Len(w) + 1
  BY <1>4, <1>6, EntryTyped
<1>8. BytesOf(full) = Replaced(k) + size
  <2>1. BytesOf(w) \in Nat /\ size \in Nat
    BY <1>4, BytesNatural, LruAssumption DEF LruAssumption
  <2>. QED  BY <1>4, <1>6, <2>1
<1>9. full # <<>>
  BY <1>7
<1>10. Follows(full, k)
  <2>1. \A j \in 1 .. Len(w) : j + 1 \in DOMAIN full /\ j + 1 > 1
    BY <1>7
  <2>2. \A j, h \in 1 .. Len(w) : h > j => h + 1 > j + 1
    BY <1>7
  <2>3. ASSUME NEW i \in 1 .. Len(lru), lru[i].key # k
        PROVE  \E j \in DOMAIN full :
                 /\ j > 1
                 /\ full[j] = lru[i]
                 /\ \A n \in 1 .. Len(lru) : n > i /\ lru[n].key # k =>
                      \E h \in DOMAIN full : h > j /\ full[h] = lru[n]
    <3>1. PICK j \in 1 .. Len(w) :
            /\ w[j] = lru[i]
            /\ \A n \in 1 .. Len(lru) : n > i /\ lru[n].key # k =>
                 \E h \in 1 .. Len(w) : h > j /\ w[h] = lru[n]
      BY <1>5, <2>3
    <3>2. ASSUME NEW n \in 1 .. Len(lru), n > i, lru[n].key # k
          PROVE  \E h \in DOMAIN full : h > j + 1 /\ full[h] = lru[n]
      <4>1. PICK h \in 1 .. Len(w) : h > j /\ w[h] = lru[n]
        BY <3>1, <3>2
      <4>2. h + 1 \in DOMAIN full /\ h + 1 > j + 1 /\ full[h + 1] = lru[n]
        BY <1>6, <2>1, <2>2, <4>1
      <4>. QED  BY <4>2
    <3>3. j + 1 \in DOMAIN full /\ j + 1 > 1 /\ full[j + 1] = lru[i]
      BY <1>6, <2>1, <3>1
    <3>. QED  BY <3>2, <3>3
  <2>. QED  BY <1>2, <2>3 DEF Follows
<1>. QED  BY <1>6, <1>8, <1>9, <1>10 DEF Entries, full

(* get() moves an entry to the front. *)
LEMMA GetIs ==
  ASSUME LruInv, NEW k \in RamKeys, Get(k)
  PROVE  LruInv' /\ KeysOf(lru') = KeysOf(lru)
<1> DEFINE p == Position(lru, k)
           w == Without(lru, k)
<1>1. Entries(lru) /\ lru \in Seq(LruEntry) /\ k \in KeysOf(lru)
  BY DEF LruInv, LruTypeOK, Entries, Get
<1>2. /\ p \in 1 .. Len(lru) /\ lru[p].key = k
      /\ lru[p] \in LruEntry /\ lru[p].bytes \in Nat /\ BytesOf(lru) \in Nat
  BY <1>1, PositionIs, EntryTyped, BytesNatural
<1>3. /\ w \in Seq(LruEntry) /\ Distinct(w)
      /\ KeysOf(w) = KeysOf(lru) \ {k}
      /\ BytesOf(w) = BytesOf(lru) - lru[p].bytes
  BY <1>1, WithoutIs DEF Entries
<1>4. lru' = <<lru[p]>> \o w /\ bytesUsed' = bytesUsed
  BY DEF Get
<1> HIDE DEF p, w
<1>5. /\ lru' \in Seq(LruEntry)
      /\ KeysOf(lru') = {lru[p].key} \cup KeysOf(w)
      /\ BytesOf(lru') = lru[p].bytes + BytesOf(w)
      /\ Distinct(lru')
  BY <1>2, <1>3, <1>4, InFront
<1>6. BytesOf(lru') = BytesOf(lru)
  BY <1>2, <1>3, <1>5
<1>. QED  BY <1>1, <1>2, <1>3, <1>4, <1>5, <1>6 DEF LruInv, LruTypeOK

(* pin() and unpin() change a pin count. *)
PinsTo(k, n) == lru' = [lru EXCEPT ![Position(lru, k)].pinCount = n]

(* Writing a pin count, as pin() and unpin() do, changes neither the keys *)
(* nor the bytes counted.                                                 *)
LEMMA PinsToIs ==
  ASSUME LruInv, NEW k \in KeysOf(lru), NEW n \in 0 .. MaxPins, PinsTo(k, n),
         bytesUsed' = bytesUsed
  PROVE  LruInv' /\ KeysOf(lru') = KeysOf(lru)
<1> DEFINE p == Position(lru, k)
           e == [lru[p] EXCEPT !.pinCount = n]
<1>1. /\ lru \in Seq(LruEntry) /\ Distinct(lru)
      /\ bytesUsed \in Nat /\ bytesUsed = BytesOf(lru)
      /\ Len(lru) \in Nat /\ DOMAIN lru = 1 .. Len(lru)
  BY EntryTyped DEF LruInv, LruTypeOK
<1>2. p \in 1 .. Len(lru) /\ lru[p] \in LruEntry
  BY <1>1, PositionIs, EntryTyped
<1>3. e \in LruEntry /\ e.key = lru[p].key /\ e.bytes = lru[p].bytes
  BY <1>2 DEF LruEntry
<1>4. lru' = [lru EXCEPT ![p] = e]
  BY DEF PinsTo
<1> HIDE DEF p, e
<1>5. /\ lru' \in Seq(LruEntry)
      /\ Len(lru') = Len(lru)
      /\ \A i \in 1 .. Len(lru) : lru'[i] = IF i = p THEN e ELSE lru[i]
  BY <1>1, <1>2, <1>3, <1>4, ExceptSeq
<1>6. \A i \in 1 .. Len(lru) : lru'[i].key = lru[i].key /\ lru'[i].bytes = lru[i].bytes
  BY <1>3, <1>5
<1>7. DOMAIN lru' = 1 .. Len(lru)
  BY <1>5, EntryTyped
<1>8. BytesOf(lru') = BytesOf(lru)
  <2>1. /\ Sum(lru)[0] = 0
        /\ \A i \in 1 .. Len(lru) : Sum(lru)[i] = Sum(lru)[i - 1] + lru[i].bytes
        /\ BytesOf(lru) = Sum(lru)[Len(lru)]
    BY <1>1, SumIs
  <2>2. \A i \in 1 .. Len(lru') : Sum(lru)[i] = Sum(lru)[i - 1] + lru'[i].bytes
    BY <1>5, <1>6, <2>1
  <2>3. BytesOf(lru') = Sum(lru)[Len(lru')]
    BY <1>5, <2>1, <2>2, SumUnique
  <2>. QED  BY <1>5, <2>1, <2>3
<1>9. KeysOf(lru') = KeysOf(lru)
  BY <1>1, <1>6, <1>7 DEF KeysOf
<1>10. Distinct(lru')
  BY <1>1, <1>6, <1>7 DEF Distinct
<1>. QED  BY <1>1, <1>5, <1>8, <1>9, <1>10 DEF LruInv, LruTypeOK

(* What BudgetKept says of a step. *)
StepKeepsBudget ==
  /\ bytesUsed' = BytesOf(lru')
  /\ \A i, j \in DOMAIN lru' : lru'[i].key = lru'[j].key => i = j
  /\ bytesUsed' # bytesUsed /\ bytesUsed' > RamBudget =>
       \A i \in DOMAIN lru' : lru'[i].pinCount > 0
  /\ \E k \in RamKeys : \A i \in Gone :
       \/ /\ lru[i].pinCount = 0
          /\ \A j \in i + 1 .. Len(lru) :
               lru[j].pinCount = 0 => j \in Gone \/ lru[j].key = lru'[1].key
       \/ lru[i].key = k /\ \A j \in DOMAIN lru' : lru'[j].pinCount > 0

(* insert() evicts from the end, unless it replaces and evicts its own entry.*)
LEMMA InsertIs ==
  ASSUME LruInv, NEW k \in RamKeys, NEW size \in Sizes, NEW pins \in Pins, Insert(k, size, pins)
  PROVE  LruInv' /\ StepKeepsBudget
<1> DEFINE full == Full(k, size, pins)
           left == evictLocked(full, Replaced(k) + size)
<1>1. /\ lru \in Seq(LruEntry) /\ Distinct(lru)
      /\ Len(lru) \in Nat /\ DOMAIN lru = 1 .. Len(lru)
  BY EntryTyped DEF LruInv, LruTypeOK
<1>2. /\ Entries(full)
      /\ BytesOf(full) = Replaced(k) + size
      /\ full # <<>> /\ full[1].key = k
      /\ Follows(full, k)
  <2>1. /\ Entries(full)
        /\ BytesOf(full) = Replaced(k) + size
        /\ full # <<>> /\ full[1] = [key |-> k, bytes |-> size, pinCount |-> pins]
        /\ Follows(full, k)
    BY FullIs, Zenon
  <2> HIDE DEF full
  <2>. QED  BY <2>1
<1>3. BytesOf(full) \in Nat
  BY <1>2, BytesNatural DEF Entries
<1>4. lru' = left.kept /\ bytesUsed' = left.bytes
  BY DEF Insert, Full
<1>5. Evicts(full, BytesOf(full), left)
  <2>1. Evicts(full, BytesOf(full), evictLocked(full, BytesOf(full)))
    <3> HIDE DEF full
    <3>. QED  BY <1>2, <1>3, EvictIs
  <2>. QED  BY <1>2, <2>1
<1> HIDE DEF full, left
<1>6. /\ Entries(lru')
      /\ bytesUsed' \in Int
      /\ BytesOf(full) - bytesUsed' = BytesOf(full) - BytesOf(lru')
      /\ bytesUsed' > RamBudget => \A i \in DOMAIN lru' : lru'[i].pinCount > 0
      /\ \A i \in DOMAIN lru' : \E j \in DOMAIN full : lru'[i] = full[j]
      /\ \A j \in DOMAIN full : full[j].key \notin KeysOf(lru') =>
           /\ full[j].pinCount = 0
           /\ \A h \in DOMAIN full : h > j /\ full[h].pinCount = 0 =>
                full[h].key \notin KeysOf(lru')
      /\ full # <<>> /\ full[1].key \in KeysOf(lru') => lru' # <<>> /\ lru'[1] = full[1]
  BY <1>4, <1>5 DEF Evicts
<1>7. /\ lru' \in Seq(LruEntry) /\ Distinct(lru')
      /\ BytesOf(lru') \in Nat /\ bytesUsed' = BytesOf(lru')
      /\ Len(full) \in Nat /\ DOMAIN full = 1 .. Len(full)
      /\ DOMAIN lru' = 1 .. Len(lru')
      /\ \A j \in DOMAIN full : full[j].pinCount \in Nat
  <2>1. lru' \in Seq(LruEntry) /\ Distinct(lru') /\ full \in Seq(LruEntry)
    BY <1>2, <1>6 DEF Entries
  <2>2. BytesOf(lru') \in Nat
    BY <2>1, BytesNatural
  <2>3. bytesUsed' = BytesOf(lru')
    BY <1>3, <1>6, <2>2
  <2>. QED  BY <2>1, <2>2, <2>3, EntryTyped
<1>8. LruInv'
  BY <1>7 DEF LruInv, LruTypeOK
<1>9. ASSUME NEW i \in Gone, lru[i].key # k
      PROVE  /\ lru[i].pinCount = 0
             /\ \A j \in i + 1 .. Len(lru) :
                  lru[j].pinCount = 0 => j \in Gone \/ lru[j].key = lru'[1].key
  <2>1. i \in 1 .. Len(lru) /\ lru[i].key \notin KeysOf(lru')
    BY <1>1 DEF Gone
  <2>2. PICK j \in DOMAIN full :
          /\ full[j] = lru[i]
          /\ \A n \in DOMAIN lru : n > i /\ lru[n].key # k =>
               \E h \in DOMAIN full : h > j /\ full[h] = lru[n]
    BY <1>1, <1>2, <1>9, <2>1 DEF Follows
  <2>3. /\ lru[i].pinCount = 0
        /\ \A h \in DOMAIN full : h > j /\ full[h].pinCount = 0 => full[h].key \notin KeysOf(lru')
    BY <1>6, <2>1, <2>2
  <2>4. ASSUME NEW n \in i + 1 .. Len(lru), lru[n].pinCount = 0, n \notin Gone
        PROVE  lru[n].key = lru'[1].key
    <3>1. n \in 1 .. Len(lru) /\ n > i /\ lru[n].key \in KeysOf(lru')
      BY <1>1, <2>1, <2>4 DEF Gone
    <3>2. lru[n].key = k
      <4>1. ASSUME lru[n].key # k PROVE FALSE
        <5>1. PICK h \in DOMAIN full : h > j /\ full[h] = lru[n]
          BY <1>1, <2>2, <3>1, <4>1
        <5>. QED  BY <2>3, <2>4, <3>1, <5>1
      <4>. QED  BY <4>1
    <3>. QED  BY <1>2, <1>6, <3>1, <3>2
  <2>. QED  BY <2>3, <2>4
<1>10. ASSUME NEW i \in Gone, lru[i].key = k
       PROVE  \A j \in DOMAIN lru' : lru'[j].pinCount > 0
  <2>1. k \notin KeysOf(lru')
    BY <1>10 DEF Gone
  <2>2. 1 \in DOMAIN full
    BY <1>2, <1>7, EmptySeq DEF Entries
  <2>3. \A h \in DOMAIN full : h > 1 /\ full[h].pinCount = 0 => full[h].key \notin KeysOf(lru')
    BY <1>2, <1>6, <2>1, <2>2
  <2>4. ASSUME NEW m \in DOMAIN lru' PROVE lru'[m].pinCount > 0
    <3>1. PICK h \in DOMAIN full : lru'[m] = full[h]
      BY <1>6
    <3>2. lru'[m].key \in KeysOf(lru')
      BY DEF KeysOf
    <3>3. h # 1
      BY <1>2, <2>1, <3>1, <3>2
    <3>4. full[h].pinCount # 0
      BY <1>7, <2>3, <3>1, <3>2, <3>3
    <3>. QED  BY <1>7, <3>1, <3>4
  <2>. QED  BY <2>4
<1>11. \A i \in Gone :
         \/ /\ lru[i].pinCount = 0
            /\ \A j \in i + 1 .. Len(lru) :
                 lru[j].pinCount = 0 => j \in Gone \/ lru[j].key = lru'[1].key
         \/ lru[i].key = k /\ \A j \in DOMAIN lru' : lru'[j].pinCount > 0
  BY <1>9, <1>10
<1>12. \A i, j \in DOMAIN lru' : lru'[i].key = lru'[j].key => i = j
  BY <1>7 DEF Distinct
<1>. QED  BY <1>6, <1>7, <1>8, <1>11, <1>12 DEF StepKeepsBudget

(* The other operations lose nothing. *)
LEMMA KeysStay ==
  ASSUME LruInv, LruInv', KeysOf(lru') = KeysOf(lru), bytesUsed' = bytesUsed, NEW k \in RamKeys
  PROVE  StepKeepsBudget
<1>1. Gone = {}
  BY DEF Gone, KeysOf
<1>2. bytesUsed' = BytesOf(lru')
  BY DEF LruInv
<1>3. \A i, j \in DOMAIN lru' : lru'[i].key = lru'[j].key => i = j
  BY DEF LruInv, Distinct
<1>. QED  BY <1>1, <1>2, <1>3 DEF StepKeepsBudget

(* pin() and unpin() keep the cache's invariant, its keys and its bytes. *)
LEMMA PinningIs ==
  ASSUME LruInv, NEW k \in RamKeys, Pin(k) \/ Unpin(k)
  PROVE  LruInv' /\ KeysOf(lru') = KeysOf(lru) /\ bytesUsed' = bytesUsed
<1> DEFINE n == lru[Position(lru, k)].pinCount
<1>1. k \in KeysOf(lru) /\ bytesUsed' = bytesUsed
  BY DEF Pin, Unpin
<1>2. n \in 0 .. MaxPins /\ MaxPins \in Nat
  <2>1. /\ Position(lru, k) \in 1 .. Len(lru)
        /\ \A i \in 1 .. Len(lru) : lru[i] \in LruEntry
    BY <1>1, PositionIs, EntryTyped DEF LruInv, LruTypeOK
  <2>2. lru[Position(lru, k)] \in LruEntry
    BY <2>1
  <2>. QED  BY <2>2, LruAssumption DEF LruEntry, LruAssumption
<1>3. CASE Pin(k)
  <2>1. n + 1 \in 0 .. MaxPins
    BY <1>2, <1>3 DEF Pin
  <2>2. PinsTo(k, n + 1)
    BY <1>3 DEF Pin, PinsTo
  <2>. QED  BY <1>1, <2>1, <2>2, PinsToIs
<1>4. CASE Unpin(k)
  <2>1. n - 1 \in 0 .. MaxPins
    BY <1>2, <1>4 DEF Unpin
  <2>2. PinsTo(k, n - 1)
    BY <1>4 DEF Unpin, PinsTo
  <2>. QED  BY <1>1, <2>1, <2>2, PinsToIs
<1>. QED  BY <1>3, <1>4

(* Every operation of the cache keeps its invariant, and the budget. *)
LEMMA LruSteps ==
  ASSUME LruInv, LruNext
  PROVE  LruInv' /\ StepKeepsBudget
<1>1. PICK k \in RamKeys : Get(k) \/ InsertAny(k) \/ Pin(k) \/ Unpin(k)
  BY DEF LruNext
<1>2. CASE Get(k)
  BY <1>2, GetIs, KeysStay DEF Get
<1>3. CASE InsertAny(k)
  BY <1>3, InsertIs DEF InsertAny
<1>4. CASE Pin(k) \/ Unpin(k)
  BY <1>4, PinningIs, KeysStay
<1>. QED  BY <1>1, <1>2, <1>3, <1>4

(* So does a step that leaves the cache alone. *)
LEMMA LruStutters ==
  ASSUME LruInv, UNCHANGED lruVars
  PROVE  LruInv'
BY DEF lruVars, LruInv, LruTypeOK, Distinct, BytesOf

(* An empty cache has the invariant. *)
LEMMA LruStarts ==
  ASSUME LruInit
  PROVE  LruInv
<1>1. lru = <<>> /\ bytesUsed = 0 /\ <<>> \in Seq(LruEntry) /\ Len(<<>>) = 0
  BY DEF LruInit
<1>2. BytesOf(<<>>) = 0
  <2>1. BytesOf(<<>>) = Sum(<<>>)[0] /\ Sum(<<>>)[0] = 0
    BY <1>1, SumIs
  <2>. QED  BY <2>1
<1>3. Distinct(<<>>)
  BY DEF Distinct
<1>. QED  BY <1>1, <1>2, <1>3 DEF LruInv, LruTypeOK

(* Whoever calls the cache: each key is held once and bytesUsed_ is the sum *)
(* of the entries' bytes.                                                   *)
THEOREM LruInvariant == LruSpec => []LruInv
<1>1. LruInit => LruInv
  BY LruStarts
<1>2. LruInv /\ [LruNext]_lruVars => LruInv'
  BY LruStutters, LruSteps
<1>. QED  BY <1>1, <1>2, PTL DEF LruSpec

(* The cache holds entries with sizes and pin counts as they were asked for, *)
(* and bytesUsed_, an unsigned number in the code, never goes below zero.    *)
THEOREM LruTyped == LruSpec => []LruTypeOK
<1>1. LruInv => LruTypeOK
  BY DEF LruInv
<1>. QED  BY <1>1, LruInvariant, PTL

(* insert() and evictLocked() keep bytesUsed_ the sum of the entries' bytes, *)
(* and leave the cache over its budget only if nothing unpinned is left to   *)
(* evict; pinned entries stay and no unpinned one goes before a colder one;  *)
(* only a replaced value loses its pins.                                     *)
THEOREM BudgetHolds == LruSpec => BudgetKept
<1>1. LruInv /\ [LruNext]_lruVars => [StepKeepsBudget]_lruVars
  BY LruSteps
<1>2. LruSpec => [][StepKeepsBudget]_lruVars
  BY <1>1, LruInvariant, PTL DEF LruSpec
<1>3. [][StepKeepsBudget]_lruVars => BudgetKept
  BY PTL DEF BudgetKept, StepKeepsBudget
<1>. QED  BY <1>2, <1>3

-----------------------------------------------------------------------------
(* Borders. *)

(* Who is to be assembled, is being assembled or was, came through the cache.*)
Handled(k) ==
  \/ k \in waiting
  \/ \E a \in Assemblers : assembly[a].key = k
  \/ border[k].made

CameThroughCache == \A k \in RowBricks : Handled(k) => k \in KeysOf(lru) \cup dropped

(* k's border is, or will be, without the voxels of n.                       *)
Misses(k, n) ==
  \/ \E a \in Assemblers : assembly[a].key = k /\ n \notin assembly[a].left \cup assembly[a].held
  \/ border[k].made /\ n \notin border[k].of

NeverBoth ==
  \A k \in RowBricks : \A n \in Beside(k) :
    {k, n} \cap dropped = {} => ~Misses(k, n) \/ ~Misses(n, k)

SeamInv == LruInv /\ AssemblyTypeOK /\ CameThroughCache /\ NeverBoth

(* Being beside each other in the row is mutual, and no brick is beside *)
(* itself.                                                              *)
LEMMA BesideIs ==
  ASSUME NEW k \in RowBricks, NEW n \in Beside(k)
  PROVE  n \in RowBricks /\ k \in Beside(n) /\ k # n
<1>1. k \in Int /\ n \in Int /\ n \in RowBricks /\ (n = k - 1 \/ n = k + 1)
  BY AssemblyAssumption DEF AssemblyAssumption, Beside
<1>. QED  BY <1>1 DEF Beside

(* A step after which nobody misses more than before, and nobody is handled  *)
(* who is not in the cache, keeps the invariant.                             *)
LEMMA SeamsKept ==
  ASSUME SeamInv, LruInv', AssemblyTypeOK',
         KeysOf(lru) \cup dropped \subseteq KeysOf(lru') \cup dropped',
         dropped \subseteq dropped',
         \A k \in RowBricks : Handled(k)' => Handled(k) \/ k \in KeysOf(lru'),
         \A k \in RowBricks : \A n \in Beside(k) : Misses(k, n)' => Misses(k, n)
  PROVE  SeamInv'
<1>1. CameThroughCache'
  BY DEF SeamInv, CameThroughCache
<1>2. ASSUME NEW k \in RowBricks, NEW n \in Beside(k), {k, n} \cap dropped' = {},
             Misses(k, n)', Misses(n, k)'
      PROVE  FALSE
  <2>1. n \in RowBricks /\ k \in Beside(n)
    BY BesideIs
  <2>2. Misses(k, n) /\ Misses(n, k)
    BY <1>2, <2>1
  <2>3. {k, n} \cap dropped = {}
    BY <1>2
  <2>. QED  BY <2>2, <2>3 DEF SeamInv, NeverBoth
<1>3. NeverBoth'
  BY <1>2 DEF NeverBoth
<1>. QED  BY <1>1, <1>3 DEF SeamInv

(* Every step of an assembler, and of others in the RAM cache, keeps that *)
(* two neighbours never both miss each other.                             *)
LEMMA SeamSteps ==
  ASSUME SeamInv, [AssemblyNext]_assemblyVars
  PROVE  SeamInv'
<1>1. LruInv /\ AssemblyTypeOK
  BY DEF SeamInv
<1>2. RowBricks \subseteq RamKeys /\ BrickBytes \in Sizes /\ 1 \in Pins /\ NoKey \notin RowBricks
  BY AssemblyAssumption DEF AssemblyAssumption
<1>3. ASSUME NEW k \in RowBricks, Decode(k) PROVE SeamInv'
  <2>1. LruInv'
    BY <1>1, <1>2, <1>3, InsertIs DEF Decode
  <2>3. dropped' = dropped \cup (KeysOf(lru) \ KeysOf(lru'))
    BY <1>3 DEF Decode, Dropping
  <2>2. AssemblyTypeOK'
    <3>1. KeysOf(lru) \subseteq RamKeys
      <4>1. lru \in Seq(LruEntry)
        BY <1>1 DEF LruInv, LruTypeOK
      <4>2. \A i \in DOMAIN lru : lru[i] \in LruEntry
        BY <4>1, ElementOfSeq, LenProperties
      <4>. QED  BY <4>2 DEF KeysOf, LruEntry
    <3>. QED  BY <1>1, <1>3, <2>3, <3>1 DEF Decode, AssemblyTypeOK
  <2>4. \A j \in RowBricks : Handled(j)' => Handled(j)
    BY <1>3 DEF Decode, Handled
  <2>5. \A j, n \in RowBricks : Misses(j, n)' => Misses(j, n)
    BY <1>3 DEF Decode, Misses
  <2>. QED  BY <2>1, <2>2, <2>3, <2>4, <2>5, BesideIs, SeamsKept
<1>4. ASSUME NEW k \in RowBricks, k \in KeysOf(lru), waiting' = waiting \cup {k},
             LruInv', KeysOf(lru') = KeysOf(lru), UNCHANGED <<assembly, border, dropped>>
      PROVE  SeamInv'
  <2>1. AssemblyTypeOK'
    BY <1>1, <1>4 DEF AssemblyTypeOK
  <2>2. \A j \in RowBricks : Handled(j)' => Handled(j) \/ j \in KeysOf(lru')
    BY <1>4 DEF Handled
  <2>3. \A j, n \in RowBricks : Misses(j, n)' => Misses(j, n)
    BY <1>4 DEF Misses
  <2>. QED  BY <1>4, <2>1, <2>2, <2>3, BesideIs, SeamsKept
<1>5. ASSUME NEW k \in RowBricks, HandOver(k) PROVE SeamInv'
  <2>1. k \in KeysOf(lru) /\ Unpin(k)
    BY <1>5 DEF HandOver, MayHandOver, Pinned
  <2>2. LruInv' /\ KeysOf(lru') = KeysOf(lru)
    BY <1>1, <1>2, <2>1, PinningIs
  <2>. QED  BY <1>4, <1>5, <2>1, <2>2 DEF HandOver
<1>6. ASSUME NEW k \in RowBricks, RamHit(k) PROVE SeamInv'
  <2>1. k \in KeysOf(lru) /\ LruInv' /\ KeysOf(lru') = KeysOf(lru)
    BY <1>1, <1>2, <1>6, GetIs DEF RamHit, Get
  <2>. QED  BY <1>4, <1>6, <2>1 DEF RamHit
<1>7. ASSUME NEW a \in Assemblers, NEW k \in RowBricks, BeginAssembly(a, k) PROVE SeamInv'
  <2>1. /\ k \in waiting
        /\ waiting' = waiting \ {k}
        /\ assembly' = [assembly EXCEPT ![a] = [key |-> k, left |-> Beside(k), held |-> {}]]
        /\ UNCHANGED <<lruVars, border, dropped>>
    BY <1>7 DEF BeginAssembly
  <2>2. Beside(k) \subseteq RowBricks
    BY BesideIs
  <2>3. AssemblyTypeOK'
    <3>1. assembly'[a].key = k /\ assembly'[a].left = Beside(k)
          /\ \A b \in Assemblers : b # a => assembly'[b] = assembly[b]
      BY <1>1, <2>1 DEF AssemblyTypeOK
    <3>2. \A b \in Assemblers : assembly'[b].left \subseteq Beside(assembly'[b].key)
      BY <1>1, <3>1 DEF AssemblyTypeOK
    <3>. QED  BY <1>1, <2>1, <2>2, <3>2 DEF AssemblyTypeOK
  <2>4. LruInv' /\ lru' = lru
    BY <1>1, <2>1, LruStutters DEF lruVars
  <2>5. assembly'[a] = [key |-> k, left |-> Beside(k), held |-> {}]
        /\ \A b \in Assemblers : b # a => assembly'[b] = assembly[b]
    BY <1>1, <2>1 DEF AssemblyTypeOK
  <2>6. \A j \in RowBricks : Handled(j)' => Handled(j)
    BY <2>1, <2>5 DEF Handled
  <2>7. ASSUME NEW j \in RowBricks, NEW n \in Beside(j), Misses(j, n)' PROVE Misses(j, n)
    <3>1. CASE \E b \in Assemblers : assembly'[b].key = j
                 /\ n \notin assembly'[b].left \cup assembly'[b].held
      <4>1. PICK b \in Assemblers : assembly'[b].key = j
                 /\ n \notin assembly'[b].left \cup assembly'[b].held
        BY <3>1
      <4>2. b # a
        BY <2>5, <4>1
      <4>. QED  BY <2>5, <4>1, <4>2 DEF Misses
    <3>2. CASE border'[j].made /\ n \notin border'[j].of
      BY <2>1, <3>2 DEF Misses
    <3>. QED  BY <2>7, <3>1, <3>2 DEF Misses
  <2>. QED  BY <2>1, <2>3, <2>4, <2>6, <2>7, SeamsKept
<1>8. ASSUME NEW a \in Assemblers, EndAssembly(a) PROVE SeamInv'
  <2> DEFINE k == assembly[a].key
  <2>1. /\ k \in RowBricks
        /\ assembly[a].left = {}
        /\ border' = [border EXCEPT ![k] = [made |-> TRUE, of |-> assembly[a].held]]
        /\ assembly' = [assembly EXCEPT ![a] = Resting]
        /\ UNCHANGED <<lruVars, waiting, dropped>>
    BY <1>1, <1>8 DEF EndAssembly, AssemblyTypeOK
  <2>2. AssemblyTypeOK'
    <3>1. assembly'[a].left = {}
          /\ \A b \in Assemblers : b # a => assembly'[b] = assembly[b]
      BY <1>1, <2>1 DEF AssemblyTypeOK, Resting
    <3>2. \A b \in Assemblers : assembly'[b].left \subseteq Beside(assembly'[b].key)
      BY <1>1, <3>1 DEF AssemblyTypeOK
    <3>. QED  BY <1>1, <2>1, <3>2 DEF AssemblyTypeOK, Resting
  <2>3. LruInv' /\ lru' = lru
    BY <1>1, <2>1, LruStutters DEF lruVars
  <2>4. /\ assembly'[a].key = NoKey
        /\ \A b \in Assemblers : b # a => assembly'[b] = assembly[b]
        /\ border'[k] = [made |-> TRUE, of |-> assembly[a].held]
        /\ \A j \in RowBricks : j # k => border'[j] = border[j]
    BY <1>1, <2>1 DEF AssemblyTypeOK, Resting
  <2> HIDE DEF k
  <2>5. assembly[a].key = k
    BY DEF k
  <2>6. \A j \in RowBricks : Handled(j)' => Handled(j)
    BY <1>2, <2>1, <2>4, <2>5 DEF Handled
  <2>7. ASSUME NEW j \in RowBricks, NEW n \in Beside(j), Misses(j, n)' PROVE Misses(j, n)
    <3>1. CASE \E b \in Assemblers : assembly'[b].key = j
                 /\ n \notin assembly'[b].left \cup assembly'[b].held
      <4>1. PICK b \in Assemblers : assembly'[b].key = j
                 /\ n \notin assembly'[b].left \cup assembly'[b].held
        BY <3>1
      <4>2. b # a
        BY <1>2, <2>4, <4>1
      <4>. QED  BY <2>4, <4>1, <4>2 DEF Misses
    <3>2. CASE border'[j].made /\ n \notin border'[j].of
      <4>1. CASE j = k
        BY <2>1, <2>4, <2>5, <3>2, <4>1 DEF Misses
      <4>2. CASE j # k
        BY <2>4, <3>2, <4>2 DEF Misses
      <4>. QED  BY <4>1, <4>2
    <3>. QED  BY <2>7, <3>1, <3>2 DEF Misses
  <2>. QED  BY <2>1, <2>2, <2>3, <2>6, <2>7, SeamsKept
<1>9. ASSUME NEW a \in Assemblers, LookUp(a) PROVE SeamInv'
  <2> DEFINE n == CHOOSE m \in assembly[a].left : \A l \in assembly[a].left : m <= l
             k == assembly[a].key
             found == IF n \in KeysOf(lru) THEN assembly[a].held \cup {n} ELSE assembly[a].held
  <2>1. /\ assembly[a].left # {}
        /\ IF n \in KeysOf(lru) THEN Get(n) ELSE UNCHANGED lruVars
        /\ assembly' = [assembly EXCEPT ![a] = [key |-> k, left |-> assembly[a].left \ {n},
                                                held |-> found]]
        /\ UNCHANGED <<waiting, border, dropped>>
    BY <1>9 DEF LookUp
  <2>2. /\ assembly[a].left \subseteq Beside(k) /\ k \in RowBricks \cup {NoKey}
        /\ assembly[a].left \subseteq RowBricks /\ assembly[a].held \subseteq RowBricks
    BY <1>1 DEF AssemblyTypeOK
  <2>3. \E m \in assembly[a].left : \A l \in assembly[a].left : m <= l
    <3>1. assembly[a].left \subseteq {k - 1, k + 1} /\ RowBricks \subseteq Int
      BY <2>2, AssemblyAssumption DEF AssemblyAssumption, Beside
    <3>2. assembly[a].left \subseteq Int
      BY <2>2, <3>1
    <3>. QED  BY <2>1, <3>1, <3>2
  <2>4. n \in assembly[a].left
    BY <2>3, Zenon
  <2> HIDE DEF n, found, k
  <2>5. /\ assembly'[a].key = k
        /\ assembly'[a].left = assembly[a].left \ {n}
        /\ assembly'[a].held = found
        /\ \A b \in Assemblers : b # a => assembly'[b] = assembly[b]
    BY <1>1, <2>1 DEF AssemblyTypeOK
  <2>6. n \in RowBricks /\ found \subseteq RowBricks
    BY <2>2, <2>4 DEF found
  <2>7. AssemblyTypeOK'
    <3>1. assembly' \in [Assemblers -> [key  : RowBricks \cup {NoKey},
                                        left : SUBSET RowBricks,
                                        held : SUBSET RowBricks]]
      BY <1>1, <2>1, <2>2, <2>6 DEF AssemblyTypeOK
    <3>2. \A b \in Assemblers : assembly'[b].left \subseteq Beside(assembly'[b].key)
      BY <1>1, <2>2, <2>5 DEF AssemblyTypeOK
    <3>. QED  BY <1>1, <2>1, <3>1, <3>2 DEF AssemblyTypeOK
  <2>8. LruInv' /\ KeysOf(lru') = KeysOf(lru)
    <3>1. CASE n \in KeysOf(lru)
      BY <1>1, <1>2, <2>1, <2>6, <3>1, GetIs
    <3>2. CASE n \notin KeysOf(lru)
      BY <1>1, <2>1, <3>2, LruStutters DEF lruVars
    <3>. QED  BY <3>1, <3>2
  <2>9. \A j \in RowBricks : Handled(j)' <=> Handled(j)
    <3>1. \A b \in Assemblers : assembly'[b].key = assembly[b].key
      BY <2>5 DEF k
    <3>. QED  BY <2>1, <3>1 DEF Handled
  <2>10. ASSUME NEW j \in RowBricks, NEW m \in Beside(j), Misses(j, m)'
         PROVE  Misses(j, m) \/ (j = k /\ m = n /\ n \notin KeysOf(lru))
    <3>1. CASE \E b \in Assemblers : assembly'[b].key = j
                 /\ m \notin assembly'[b].left \cup assembly'[b].held
      <4>1. PICK b \in Assemblers : assembly'[b].key = j
                 /\ m \notin assembly'[b].left \cup assembly'[b].held
        BY <3>1
      <4>2. CASE b = a
        BY <2>5, <4>1, <4>2 DEF Misses, found, k
      <4>3. CASE b # a
        BY <2>5, <4>1, <4>3 DEF Misses
      <4>. QED  BY <4>2, <4>3
    <3>2. CASE border'[j].made /\ m \notin border'[j].of
      BY <2>1, <3>2 DEF Misses
    <3>. QED  BY <2>10, <3>1, <3>2 DEF Misses
  <2>11. CameThroughCache'
    BY <2>1, <2>8, <2>9 DEF SeamInv, CameThroughCache
  <2>12. ASSUME NEW j \in RowBricks, NEW m \in Beside(j), {j, m} \cap dropped = {},
                Misses(j, m)', Misses(m, j)'
         PROVE  FALSE
    <3>1. m \in RowBricks /\ j \in Beside(m) /\ j # m
      BY BesideIs
    <3>2. Handled(j) /\ Handled(m)
      <4>1. Handled(j)' /\ Handled(m)'
        BY <2>12 DEF Handled, Misses
      <4>. QED  BY <2>9, <3>1, <4>1
    <3>3. j \in KeysOf(lru) /\ m \in KeysOf(lru)
      BY <2>12, <3>1, <3>2 DEF SeamInv, CameThroughCache
    <3>4. Misses(j, m) /\ Misses(m, j)
      BY <2>10, <2>12, <3>1, <3>3
    <3>. QED  BY <2>12, <3>4 DEF SeamInv, NeverBoth
  <2>13. NeverBoth'
    BY <2>1, <2>12 DEF NeverBoth
  <2>. QED  BY <2>7, <2>8, <2>11, <2>13 DEF SeamInv
<1>10. CASE UNCHANGED assemblyVars
  <2>1. LruInv' /\ UNCHANGED <<lru, waiting, assembly, border, dropped>>
    BY <1>1, <1>10, LruStutters DEF assemblyVars, lruVars
  <2>. QED  BY <2>1 DEF SeamInv, AssemblyTypeOK, CameThroughCache, Handled, NeverBoth, Misses
<1>. QED  BY <1>3, <1>5, <1>6, <1>7, <1>8, <1>9, <1>10 DEF AssemblyNext

(* No assembler has started. *)
LEMMA SeamsStart ==
  ASSUME AssemblyInit
  PROVE  SeamInv
<1>1. LruInv
  BY LruStarts DEF AssemblyInit
<1>2. /\ waiting = {}
      /\ assembly = [a \in Assemblers |-> Resting]
      /\ border = [k \in RowBricks |-> [made |-> FALSE, of |-> {}]]
      /\ dropped = {}
  BY DEF AssemblyInit
<1>3. AssemblyTypeOK
  BY <1>2 DEF AssemblyTypeOK, Resting
<1>4. NoKey \notin RowBricks
  BY AssemblyAssumption DEF AssemblyAssumption
<1>5. ASSUME NEW k \in RowBricks PROVE ~Handled(k) /\ \A n : ~Misses(k, n)
  BY <1>2, <1>4 DEF Handled, Misses, Resting
<1>6. CameThroughCache /\ NeverBoth
  BY <1>5, BesideIs DEF CameThroughCache, NeverBoth
<1>. QED  BY <1>1, <1>3, <1>6 DEF SeamInv

(* Of two neighbours that stay in the cache one has the other's voxels.      *)
THEOREM SeamsAreOneSided == AssemblySpec => []OneSidedSeams
<1>1. SeamInv => OneSidedSeams
  BY DEF SeamInv, NeverBoth, Misses, OneSidedSeams
<1>2. AssemblySpec => []SeamInv
  BY SeamsStart, SeamSteps, PTL DEF AssemblySpec
<1>. QED  BY <1>1, <1>2, PTL

-----------------------------------------------------------------------------
(* The mask. *)

(* The least of two numbers, as std::min() gives it. *)
LEMMA MinOfTwo ==
  ASSUME NEW x \in Int, NEW y \in Int
  PROVE  Min({x, y}) = IF x <= y THEN x ELSE y
<1>1. \E m \in {x, y} : \A n \in {x, y} : m <= n
  OBVIOUS
<1> DEFINE m == Min({x, y})
<1>2. m \in {x, y} /\ \A n \in {x, y} : m <= n
  BY <1>1, Zenon DEF Min
<1> HIDE DEF m
<1>3. m = IF x <= y THEN x ELSE y
  BY <1>2
<1>. QED  BY <1>3 DEF m

(* The levels are numbered from 1 and each has a grid. *)
LEMMA LevelsAre ==
  /\ Len(BrickGrids) \in Nat \ {0}
  /\ MaskLevels = 1 .. Len(BrickGrids)
  /\ \A i \in MaskLevels : BrickGrids[i] \in Nat \ {0}
<1>1. BrickGrids \in Seq(Nat \ {0}) /\ BrickGrids # <<>>
  BY MaskAssumption DEF MaskAssumption
<1>. QED  BY <1>1, EmptySeq, LenProperties, ElementOfSeq DEF MaskLevels

(* Bands of rows: each row is in one. *)
LEMMA BandsCover ==
  ASSUME NEW rows \in Nat, NEW v \in 1 .. rows
  PROVE  \E t \in TaskIds : v \in Band(rows, t)
<1> DEFINE Past == {t \in Nat : (rows * t) \div Tasks > v - 1}
<1>1. Tasks \in Nat /\ Tasks > 0
  BY MaskAssumption DEF MaskAssumption
<1>2. Tasks \in Past
  <2>1. (rows * Tasks) \div Tasks = rows
    BY <1>1
  <2>. QED  BY <1>1, <2>1
<1>3. Past \in SUBSET Nat /\ Past # {}
  BY <1>2
<1>4. \A t \in Nat : t \in Past <=> (rows * t) \div Tasks > v - 1
  OBVIOUS
<1> HIDE DEF Past
<1>5. PICK t \in Past : \A k \in Past : t <= k
  BY <1>3, LeastNatural
<1>6. t \in Nat /\ t <= Tasks /\ t # 0
  <2>1. (rows * 0) \div Tasks = 0
    BY <1>1
  <2>2. 0 \notin Past
    BY <1>4, <2>1
  <2>. QED  BY <1>2, <1>3, <1>5, <2>2
<1>7. t - 1 \in Nat /\ t - 1 \in TaskIds /\ t - 1 + 1 = t
  BY <1>1, <1>6 DEF TaskIds
<1>8. t - 1 \notin Past
  BY <1>5, <1>6, <1>7
<1>9. ~((rows * (t - 1)) \div Tasks > v - 1) /\ (rows * t) \div Tasks > v - 1
  BY <1>4, <1>5, <1>6, <1>7, <1>8
<1>10. (rows * (t - 1)) \div Tasks \in Int /\ (rows * t) \div Tasks \in Int
  BY <1>1, <1>6
<1>11. v - 1 >= (rows * (t - 1)) \div Tasks /\ v - 1 < (rows * t) \div Tasks
  BY <1>9, <1>10
<1>12. v \in Band(rows, t - 1)
  BY <1>7, <1>11 DEF Band
<1>. QED  BY <1>7, <1>12

(* The number of finest bricks to a brick, level by level.                   *)
LEMMA SpanIs ==
  /\ Span[1] = 1
  /\ \A i \in 2 .. Len(BrickGrids) : Span[i] = 2 * Span[i - 1]
  /\ \A i \in 1 .. Len(BrickGrids) : Span[i] \in Nat \ {0}
<1> DEFINE L == Len(BrickGrids)
           N == L - 1
           S == Nat \ {0}
           step == [i \in 1 .. N |-> [x \in S |-> 2 * x]]
           Spans(f) == [i \in MaskLevels |-> IF i = 1 THEN 1 ELSE 2 * f[i - 1]]
<1>1. L \in Nat /\ N \in Nat /\ L = N + 1 /\ MaskLevels = 1 .. L
  BY LevelsAre
<1>2. step \in [1 .. N -> [S -> S]] /\ 1 \in S
  OBVIOUS
<1>3. \A i \in 1 .. N, x \in S : step[i][x] = 2 * x
  OBVIOUS
<1>4. \A x \in S : x \in Nat /\ x > 0
  OBVIOUS
<1> HIDE DEF L, N, S, step
<1>5. PICK g : GoesOn(g, N, S, 1, step)
  BY <1>1, <1>2, Recursion, Zenon
<1>6. /\ g \in [0 .. N -> S] /\ g[0] = 1
      /\ \A i \in 1 .. N : g[i] = step[i][g[i - 1]]
  BY <1>5 DEF GoesOn
<1>7. \A i \in 1 .. N : g[i - 1] \in S /\ g[i] = 2 * g[i - 1]
  <2>1. \A i \in 1 .. N : i - 1 \in 0 .. N
    BY <1>1
  <2>. QED  BY <1>3, <1>6, <2>1
<1> DEFINE f == [i \in 1 .. L |-> g[i - 1]]
<1>8. /\ f[1] = 1
      /\ \A i \in 2 .. L : f[i] = 2 * f[i - 1]
  <2>1. 1 \in 1 .. L /\ 1 - 1 = 0
    BY <1>1
  <2>2. ASSUME NEW i \in 2 .. L PROVE f[i] = 2 * f[i - 1]
    <3>1. i - 1 \in 1 .. N /\ i \in 1 .. L /\ i - 1 \in 1 .. L
      BY <1>1
    <3>2. f[i] = g[i - 1] /\ f[i - 1] = g[i - 1 - 1]
      BY <3>1
    <3>. QED  BY <1>7, <3>1, <3>2
  <2>. QED  BY <1>6, <2>1, <2>2
<1>9. f = Spans(f)
  <2>1. \A i \in 1 .. L : f[i] = IF i = 1 THEN 1 ELSE 2 * f[i - 1]
    <3>1. \A i \in 1 .. L : i = 1 \/ i \in 2 .. L
      BY <1>1
    <3> HIDE DEF f
    <3>. QED  BY <1>8, <3>1
  <2>2. f = [i \in 1 .. L |-> f[i]]
    OBVIOUS
  <2> HIDE DEF f
  <2>3. Spans(f) = [i \in 1 .. L |-> f[i]]
    BY <1>1, <2>1
  <2>. QED  BY <2>2, <2>3
<1> HIDE DEF f
<1>10. Span = Spans(Span)
  BY <1>9, Zenon DEF Span
<1>11. \A i \in 1 .. L : Span[i] = IF i = 1 THEN 1 ELSE 2 * Span[i - 1]
  BY <1>1, <1>10
<1>12. Span[1] = 1 /\ \A i \in 2 .. L : Span[i] = 2 * Span[i - 1]
  BY <1>1, <1>11
<1> DEFINE T == {i \in 0 .. N : Span[i + 1] \in S}
<1>13. 0 \in T
  BY <1>1, <1>2, <1>12
<1>14. ASSUME NEW i \in 1 .. N, i - 1 \in T PROVE i \in T
  <2>1. i + 1 \in 2 .. L /\ i \in 0 .. N /\ i - 1 + 1 = i /\ i + 1 - 1 = i
    BY <1>1
  <2>2. Span[i] \in S
    BY <1>14, <2>1
  <2>3. Span[i + 1] = 2 * Span[i]
    BY <1>12, <2>1
  <2>4. 2 * Span[i] \in S
    BY <2>2 DEF S
  <2>. QED  BY <2>1, <2>3, <2>4
<1> HIDE DEF T
<1>15. \A i \in 0 .. N : i \in T
  BY <1>1, <1>13, <1>14, UpTo
<1>16. ASSUME NEW i \in 1 .. L PROVE Span[i] \in S
  <2>1. i - 1 \in 0 .. N /\ i - 1 + 1 = i
    BY <1>1
  <2>2. i - 1 \in T
    BY <1>15, <2>1
  <2>. QED  BY <2>1, <2>2 DEF T
<1>. QED  BY <1>12, <1>16 DEF L, S

(* One level of presence from the level below. *)
Coarser(i, there) == {Min({b \div 2, BrickGrids[i] - 1}) : b \in there}

(* The presence of each level is the one before it, halved: what PresenceOf *)
(* computes from level to level.                                            *)
LEMMA PresenceIs ==
  ASSUME NEW cells \in SUBSET Int
  PROVE  /\ PresenceOf(cells)[1] = {BlockOf(c) : c \in cells}
         /\ \A i \in 2 .. Len(BrickGrids) :
              PresenceOf(cells)[i] = Coarser(i, PresenceOf(cells)[i - 1])
<1> DEFINE L == Len(BrickGrids)
           N == L - 1
           S == SUBSET Int
           first == {BlockOf(c) : c \in cells}
           step == [i \in 1 .. N |-> [x \in S |-> Coarser(i + 1, x)]]
           Layers(f) == [i \in MaskLevels |->
                           IF i = 1 THEN first
                           ELSE {Min({b \div 2, BrickGrids[i] - 1}) : b \in f[i - 1]}]
           at == CHOOSE f : f = Layers(f)
<1>1. /\ L \in Nat /\ N \in Nat /\ L = N + 1 /\ MaskLevels = 1 .. L
      /\ \A i \in 1 .. L : BrickGrids[i] \in Nat
  BY LevelsAre
<1>2. first \in S
  BY MaskAssumption DEF MaskAssumption, BlockOf
<1>3. step \in [1 .. N -> [S -> S]]
  <2>1. ASSUME NEW i \in 1 .. N, NEW x \in S PROVE Coarser(i + 1, x) \in S
    <3>1. i + 1 \in 1 .. L
      BY <1>1
    <3>2. BrickGrids[i + 1] - 1 \in Int
      BY <1>1, <3>1
    <3>3. \A b \in x : b \div 2 \in Int
      OBVIOUS
    <3>4. \A b \in x : Min({b \div 2, BrickGrids[i + 1] - 1}) \in Int
      BY <3>2, <3>3, MinOfTwo
    <3>. QED  BY <3>4 DEF Coarser
  <2>. QED  BY <2>1
<1>4. \A i \in 1 .. N, x \in S : step[i][x] = Coarser(i + 1, x)
  OBVIOUS
<1>5. PresenceOf(cells) = at
  BY Zenon DEF PresenceOf
<1> HIDE DEF L, N, S, step, first
<1>6. PICK g : GoesOn(g, N, S, first, step)
  BY <1>1, <1>2, <1>3, Recursion, Zenon
<1>7. /\ g \in [0 .. N -> S] /\ g[0] = first
      /\ \A i \in 1 .. N : g[i] = step[i][g[i - 1]]
  BY <1>6 DEF GoesOn
<1>8. \A i \in 1 .. N : g[i] = Coarser(i + 1, g[i - 1])
  <2>1. \A i \in 1 .. N : i - 1 \in 0 .. N
    BY <1>1
  <2>. QED  BY <1>4, <1>7, <2>1
<1> DEFINE f == [i \in 1 .. L |-> g[i - 1]]
<1>9. /\ f[1] = first
      /\ \A i \in 2 .. L : f[i] = Coarser(i, f[i - 1])
  <2>1. 1 \in 1 .. L /\ 1 - 1 = 0
    BY <1>1
  <2>2. ASSUME NEW i \in 2 .. L PROVE f[i] = Coarser(i, f[i - 1])
    <3>1. i - 1 \in 1 .. N /\ i \in 1 .. L /\ i - 1 \in 1 .. L /\ i - 1 + 1 = i
      BY <1>1
    <3>2. f[i] = g[i - 1] /\ f[i - 1] = g[i - 1 - 1]
      BY <3>1
    <3>3. g[i - 1] = Coarser(i - 1 + 1, g[i - 1 - 1])
      BY <1>8, <3>1
    <3>. QED  BY <3>1, <3>2, <3>3, Zenon
  <2>. QED  BY <1>7, <2>1, <2>2
<1>10. f = Layers(f)
  <2>1. \A i \in 1 .. L : f[i] = IF i = 1 THEN first ELSE Coarser(i, f[i - 1])
    <3>1. \A i \in 1 .. L : i = 1 \/ i \in 2 .. L
      BY <1>1
    <3> HIDE DEF f
    <3>. QED  BY <1>9, <3>1
  <2>2. f = [i \in 1 .. L |-> f[i]]
    OBVIOUS
  <2> HIDE DEF f
  <2>3. Layers(f) = [i \in 1 .. L |-> f[i]]
    BY <1>1, <2>1 DEF Coarser
  <2>. QED  BY <2>2, <2>3
<1> HIDE DEF f
<1>11. at = Layers(at)
  BY <1>10, Zenon
<1> HIDE DEF at
<1>12. \A i \in 1 .. L : at[i] = IF i = 1 THEN first ELSE Coarser(i, at[i - 1])
  BY <1>1, <1>11 DEF Coarser
<1>13. at[1] = first /\ \A i \in 2 .. L : at[i] = Coarser(i, at[i - 1])
  BY <1>1, <1>12
<1>. QED  BY <1>5, <1>13 DEF L, first

(* Halving the place of block b on a level of span s and grid g, cut off at    *)
(* the grid's end, gives its place on the next level of grid h, cut off there. *)
HalvedPlace(b, s, g, h) ==
  Min({Min({b \div s, g - 1}) \div 2, h - 1}) = Min({b \div (2 * s), h - 1})

(* Halving a place in a grid and cutting it off at the grid's end, again and *)
(* again, is the same as halving it and cutting it off at the end.           *)
LEMMA HalvesAgree ==
  ASSUME NEW b \in Nat, NEW s \in Nat \ {0}, NEW g \in Nat \ {0}, NEW h \in Nat \ {0},
         h <= (g + 1) \div 2
  PROVE  HalvedPlace(b, s, g, h)
<1> USE DEF HalvedPlace
<1> DEFINE q == b \div s
<1>1. q \in Nat
  OBVIOUS
<1>2. q \div 2 = b \div (2 * s)
  OBVIOUS
<1> HIDE DEF q
<1>3. h - 1 <= (g - 1) \div 2
  OBVIOUS
<1>4. CASE q <= g - 1
  BY <1>1, <1>2, <1>4, MinOfTwo DEF q
<1>5. CASE ~(q <= g - 1)
  <2>1. Min({q, g - 1}) = g - 1
    BY <1>1, <1>5, MinOfTwo
  <2>2. (g - 1) \div 2 <= q \div 2
    BY <1>1, <1>5
  <2>3. Min({(g - 1) \div 2, h - 1}) = h - 1
    <3>1. (g - 1) \div 2 \in Int /\ h - 1 \in Int
      OBVIOUS
    <3>. QED  BY <1>3, <3>1, MinOfTwo
  <2>4. Min({q \div 2, h - 1}) = h - 1
    <3>1. q \div 2 \in Int /\ h - 1 \in Int /\ (g - 1) \div 2 \in Int
      BY <1>1
    <3>. QED  BY <1>3, <2>2, <3>1, MinOfTwo
  <2>. QED  BY <1>2, <2>1, <2>3, <2>4 DEF q
<1>. QED  BY <1>4, <1>5

(* A cell of the volume lies in a brick of the finest grid. *)
LEMMA CellInGrid ==
  ASSUME NEW c \in MaskCells
  PROVE  c \in Nat /\ BlockOf(c) \in Nat /\ BlockOf(c) <= BrickGrids[1] - 1
<1>1. BlockCells \in Nat \ {0} /\ BrickGrids[1] \in Nat \ {0}
  BY LevelsAre, MaskAssumption DEF MaskAssumption
<1>2. PICK x \in Nat \ {0}, y \in Nat \ {0} : x = BlockCells /\ y = BrickGrids[1]
  BY <1>1
<1>3. x * y \in Nat
  BY <1>2
<1>4. c \in Nat /\ c < x * y
  BY <1>2, <1>3 DEF MaskCells
<1>5. c \div x \in Nat /\ c \div x <= y - 1
  <2> DEFINE q == c \div x
  <2>1. q \in Nat /\ x * q <= c
    BY <1>4
  <2>2. x * q < x * y
    BY <1>4, <2>1
  <2> HIDE DEF q
  <2>3. q < y
    BY <2>1, <2>2
  <2>. QED  BY <2>1, <2>3 DEF q
<1>. QED  BY <1>2, <1>4, <1>5 DEF BlockOf

(* Every level of a map of bricks is within its grid. *)
InGrids(there) == \A i \in MaskLevels : there[i] \subseteq 0 .. BrickGrids[i] - 1

(* What build() finds present is within the grids. *)
LEMMA PresenceFits ==
  ASSUME NEW cells \in SUBSET MaskCells
  PROVE  InGrids(PresenceOf(cells))
<1> DEFINE L == Len(BrickGrids)
           N == L - 1
           there == PresenceOf(cells)
           T == {j \in 0 .. N : there[j + 1] \subseteq 0 .. BrickGrids[j + 1] - 1}
<1>1. /\ L \in Nat /\ N \in Nat /\ L = N + 1 /\ MaskLevels = 1 .. L
      /\ \A j \in 1 .. L : BrickGrids[j] \in Nat \ {0}
  BY LevelsAre
<1>2. \A c \in cells : c \in Int /\ BlockOf(c) \in 0 .. BrickGrids[1] - 1
  <2>1. ASSUME NEW c \in cells PROVE c \in Int /\ BlockOf(c) \in 0 .. BrickGrids[1] - 1
    <3>1. c \in Nat /\ BlockOf(c) \in Nat /\ BlockOf(c) <= BrickGrids[1] - 1
      BY CellInGrid
    <3>2. 1 \in 1 .. L
      BY <1>1
    <3>. QED  BY <1>1, <3>1, <3>2
  <2>. QED  BY <2>1
<1>3. /\ there[1] = {BlockOf(c) : c \in cells}
      /\ \A j \in 2 .. L : there[j] = Coarser(j, there[j - 1])
  BY <1>2, PresenceIs
<1> HIDE DEF L, N, there
<1>4. 0 \in T
  BY <1>1, <1>2, <1>3
<1>5. ASSUME NEW j \in 1 .. N, j - 1 \in T PROVE j \in T
  <2>1. j + 1 \in 2 .. L /\ j + 1 - 1 = j /\ j + 1 \in 1 .. L /\ j \in 0 .. N
        /\ j - 1 + 1 = j /\ j \in 1 .. L
    BY <1>1
  <2>2. there[j] \subseteq 0 .. BrickGrids[j] - 1
    BY <1>5, <2>1
  <2>3. PICK h \in Nat \ {0}, g \in Nat \ {0} : h = BrickGrids[j + 1] /\ g = BrickGrids[j]
    BY <1>1, <2>1
  <2>4. \A b \in there[j] : Min({b \div 2, h - 1}) \in 0 .. h - 1
    <3>1. ASSUME NEW b \in 0 .. g - 1 PROVE Min({b \div 2, h - 1}) \in 0 .. h - 1
      <4>1. b \div 2 \in Nat /\ h - 1 \in Nat
        BY <2>3
      <4>2. Min({b \div 2, h - 1}) = IF b \div 2 <= h - 1 THEN b \div 2 ELSE h - 1
        BY <4>1, MinOfTwo
      <4>. QED  BY <4>1, <4>2
    <3>. QED  BY <2>2, <2>3, <3>1
  <2>5. there[j + 1] = {Min({b \div 2, h - 1}) : b \in there[j]}
    <3>1. there[j + 1] = Coarser(j + 1, there[j + 1 - 1])
      BY <1>3, <2>1
    <3>. QED  BY <2>1, <2>3, <3>1, Zenon DEF Coarser
  <2>. QED  BY <2>1, <2>3, <2>4, <2>5
<1> HIDE DEF T
<1>6. \A j \in 0 .. N : j \in T
  BY <1>1, <1>4, <1>5, UpTo
<1>7. ASSUME NEW i \in MaskLevels PROVE there[i] \subseteq 0 .. BrickGrids[i] - 1
  <2>1. i - 1 \in T /\ i - 1 + 1 = i
    BY <1>1, <1>6
  <2>. QED  BY <2>1 DEF T
<1>. QED  BY <1>7 DEF InGrids, there

(* A marked cell's brick is there on every level. *)
LEMMA PresenceCovers ==
  ASSUME NEW cells \in SUBSET MaskCells, NEW c \in cells, NEW i \in MaskLevels
  PROVE  Min({BlockOf(c) \div Span[i], BrickGrids[i] - 1}) \in PresenceOf(cells)[i]
<1> DEFINE L == Len(BrickGrids)
           N == L - 1
           b == BlockOf(c)
           there == PresenceOf(cells)
           Where(j) == Min({b \div Span[j], BrickGrids[j] - 1})
           T == {j \in 0 .. N : Where(j + 1) \in there[j + 1]}
<1>1. /\ L \in Nat /\ N \in Nat /\ L = N + 1 /\ MaskLevels = 1 .. L
      /\ \A j \in 1 .. L : BrickGrids[j] \in Nat \ {0}
  BY LevelsAre
<1>2. cells \in SUBSET Int
  <2>1. \A d \in cells : d \in Nat
    BY CellInGrid
  <2>. QED  BY <2>1
<1>3. b \in Nat /\ b <= BrickGrids[1] - 1
  BY CellInGrid
<1>4. /\ there[1] = {BlockOf(d) : d \in cells}
      /\ \A j \in 2 .. L : there[j] = Coarser(j, there[j - 1])
  BY <1>2, PresenceIs
<1>5. /\ Span[1] = 1
      /\ \A j \in 2 .. L : Span[j] = 2 * Span[j - 1]
      /\ \A j \in 1 .. L : Span[j] \in Nat \ {0}
  BY SpanIs
<1>6. \A j \in 2 .. L : BrickGrids[j] <= (BrickGrids[j - 1] + 1) \div 2
  BY MaskAssumption DEF MaskAssumption
<1>7. b \in there[1]
  BY <1>4
<1> HIDE DEF L, N, b, there
<1>8. 0 \in T
  <2>1. b \div 1 = b /\ BrickGrids[1] - 1 \in Int
    BY <1>1, <1>3
  <2>2. Where(1) = b
    BY <1>3, <1>5, <2>1, MinOfTwo
  <2>. QED  BY <1>1, <1>7, <2>2
<1>9. ASSUME NEW j \in 1 .. N, j - 1 \in T PROVE j \in T
  <2>1. j + 1 \in 2 .. L /\ j + 1 - 1 = j /\ j \in 1 .. L /\ j \in 0 .. N /\ j - 1 + 1 = j
    BY <1>1
  <2>2. Where(j) \in there[j]
    BY <1>9, <2>1
  <2>3. Where(j + 1) = Min({Where(j) \div 2, BrickGrids[j + 1] - 1})
    <3>1. /\ b \in Nat /\ Span[j] \in Nat \ {0}
          /\ BrickGrids[j] \in Nat \ {0} /\ BrickGrids[j + 1] \in Nat \ {0}
          /\ BrickGrids[j + 1] <= (BrickGrids[j] + 1) \div 2
      BY <1>1, <1>3, <1>5, <1>6, <2>1
    <3>2. Min({Min({b \div Span[j], BrickGrids[j] - 1}) \div 2, BrickGrids[j + 1] - 1})
            = Min({b \div (2 * Span[j]), BrickGrids[j + 1] - 1})
      <4>1. PICK s \in Nat \ {0}, g \in Nat \ {0}, h \in Nat \ {0} :
              s = Span[j] /\ g = BrickGrids[j] /\ h = BrickGrids[j + 1]
        BY <3>1, Zenon
      <4>2. h <= (g + 1) \div 2 /\ b \in Nat
        BY <3>1, <4>1, Zenon
      <4>3. HalvedPlace(b, s, g, h)
        BY <4>2, HalvesAgree
      <4>. QED  BY <4>1, <4>3, Zenon DEF HalvedPlace
    <3>3. Span[j + 1] = 2 * Span[j]
      BY <1>5, <2>1
    <3>. QED  BY <3>2, <3>3, Zenon
  <2>4. there[j + 1] = {Min({d \div 2, BrickGrids[j + 1] - 1}) : d \in there[j]}
    <3>1. there[j + 1] = Coarser(j + 1, there[j + 1 - 1])
      BY <1>4, <2>1
    <3>. QED  BY <2>1, <3>1, Zenon DEF Coarser
  <2>5. Where(j + 1) \in there[j + 1]
    <3> HIDE DEF Where
    <3>. QED  BY <2>2, <2>3, <2>4
  <2>. QED  BY <2>1, <2>5
<1> HIDE DEF T
<1>10. \A j \in 0 .. N : j \in T
  BY <1>1, <1>8, <1>9, UpTo
<1>11. i - 1 \in T /\ i - 1 + 1 = i
  BY <1>1, <1>10
<1>. QED  BY <1>11 DEF T, b, there

-----------------------------------------------------------------------------
(* Building and uploading it. *)

(* What a task has swept is its band. *)
BandsSwept ==
  building => \A t \in TaskIds : bands[t] = "swept" =>
    partial[t] = UNION {Sweep(surface[v], slab) : v \in Band(Len(surface), t)}

Shell == UNION {Sweep(surface[v], slab) : v \in DOMAIN surface}

(* Between two builds the mask is the shell, on the GPU or on its way there. *)
MaskBuilt ==
  surface # <<>> /\ ~building =>
    /\ blocks = Shell
    /\ presence = PresenceOf(blocks)
    /\ maskNeedsUpload => dirty
    /\ ~maskNeedsUpload => shown = [blocks |-> blocks, presence |-> presence]

MaskInv == MaskTypeOK /\ BandsSwept /\ MaskBuilt

(* The rows of the surface are numbered from 1. *)
LEMMA RowsAre ==
  ASSUME MaskTypeOK
  PROVE  Len(surface) \in Nat /\ DOMAIN surface = 1 .. Len(surface)
<1>1. surface \in Seq(Int \cup {Hole})
  <2>1. <<>> \in Seq(Int \cup {Hole})
    OBVIOUS
  <2>2. Surfaces \subseteq Seq(Int \cup {Hole})
    BY MaskAssumption DEF MaskAssumption
  <2>. QED  BY <2>1, <2>2, Zenon DEF MaskTypeOK
<1>. QED  BY <1>1, LenProperties

(* The bands' sweeps together are the shell. *)
LEMMA BandsMerge ==
  ASSUME MaskTypeOK,
         \A t \in TaskIds :
           partial[t] = UNION {Sweep(surface[v], slab) : v \in Band(Len(surface), t)}
  PROVE  Merged = Shell
<1>1. Len(surface) \in Nat /\ DOMAIN surface = 1 .. Len(surface)
  BY RowsAre
<1>2. ASSUME NEW c \in Merged PROVE c \in Shell
  <2>1. PICK t \in TaskIds : c \in partial[t]
    BY <1>2 DEF Merged
  <2>2. PICK v \in Band(Len(surface), t) : c \in Sweep(surface[v], slab)
    BY <2>1
  <2>3. v \in DOMAIN surface
    BY <1>1 DEF Band
  <2>. QED  BY <2>2, <2>3 DEF Shell
<1>3. ASSUME NEW c \in Shell PROVE c \in Merged
  <2>1. PICK v \in DOMAIN surface : c \in Sweep(surface[v], slab)
    BY <1>3 DEF Shell
  <2>2. PICK t \in TaskIds : v \in Band(Len(surface), t)
    BY <1>1, BandsCover
  <2>3. c \in partial[t]
    BY <2>1, <2>2
  <2>. QED  BY <2>3 DEF Merged
<1>. QED  BY <1>2, <1>3

(* The flags and the textures, apart from the build's own variables. *)
Drawn ==
  /\ {building, dirty, maskNeedsUpload} \subseteq BOOLEAN
  /\ blocks \subseteq MaskCells /\ InGrids(presence)
  /\ shown.blocks \subseteq MaskCells /\ InGrids(shown.presence)

Swept ==
  /\ surface \in Surfaces \cup {<<>>}
  /\ slab \in Slabs \cup {0}
  /\ bands \in [TaskIds -> {"none", "posted", "swept"}]
  /\ partial \in [TaskIds -> SUBSET MaskCells]
  /\ rebuilds \in Nat

(* The type invariant in two parts. *)
LEMMA MaskParts == MaskTypeOK <=> Drawn /\ Swept
BY DEF MaskTypeOK, Drawn, Swept, InGrids

(* A rebuild starts with no band swept and nothing built. *)
LEMMA RebuildStarts ==
  ASSUME MaskTypeOK, Rebuild, surface' \in Surfaces \cup {<<>>}, slab' \in Slabs
  PROVE  MaskInv'
<1>1. Drawn /\ Swept
  BY MaskParts
<1>2. Drawn'
  BY <1>1 DEF Rebuild, Drawn, InGrids
<1>3. Swept'
  BY <1>1 DEF Rebuild, Swept
<1>4. BandsSwept' /\ MaskBuilt'
  BY DEF Rebuild, BandsSwept, MaskBuilt
<1>5. MaskTypeOK'
  BY <1>2, <1>3 DEF MaskTypeOK, Drawn, Swept, InGrids
<1>. QED  BY <1>4, <1>5 DEF MaskInv

(* Every step of the build and of the upload keeps the mask's invariant. *)
LEMMA MaskSteps ==
  ASSUME MaskInv, [MaskNext]_maskVars
  PROVE  MaskInv'
<1>1. MaskTypeOK /\ BandsSwept /\ MaskBuilt /\ Drawn /\ Swept
  BY MaskParts DEF MaskInv
<1>2. CASE LoadSurface
  BY <1>1, <1>2, RebuildStarts DEF LoadSurface
<1>3. CASE SetSlab
  <2>1. surface' \in Surfaces \cup {<<>>} /\ slab' \in Slabs /\ Rebuild
    BY <1>1, <1>3 DEF SetSlab, Swept
  <2>. QED  BY <1>1, <2>1, RebuildStarts
<1>4. ASSUME NEW t \in TaskIds, SweepBand(t) PROVE MaskInv'
  <2> DEFINE swept == UNION {Sweep(surface[v], slab) : v \in Band(Len(surface), t)}
  <2>1. /\ partial' = [partial EXCEPT ![t] = swept]
        /\ bands' = [bands EXCEPT ![t] = "swept"]
        /\ UNCHANGED <<surface, slab, building, blocks, presence, dirty, maskNeedsUpload,
                       shown, rebuilds>>
    BY <1>4 DEF SweepBand
  <2>2. swept \subseteq MaskCells
    BY DEF Sweep
  <2> HIDE DEF swept
  <2>3. MaskTypeOK'
    <3>1. Swept'
      BY <1>1, <2>1, <2>2 DEF Swept
    <3>2. Drawn'
      BY <1>1, <2>1 DEF Drawn, InGrids
    <3>. QED  BY <3>1, <3>2 DEF MaskTypeOK, Drawn, Swept, InGrids
  <2>4. ASSUME building', NEW u \in TaskIds, bands'[u] = "swept"
        PROVE  partial'[u] = UNION {Sweep(surface'[v], slab') : v \in Band(Len(surface'), u)}
    <3>1. CASE u = t
      <4>1. partial'[u] = swept
        BY <1>1, <2>1, <3>1 DEF Swept
      <4>. QED  BY <2>1, <3>1, <4>1, Zenon DEF swept
    <3>2. CASE u # t
      <4>1. partial'[u] = partial[u] /\ bands[u] = "swept"
        BY <1>1, <2>1, <2>4, <3>2 DEF Swept
      <4>2. partial[u] = UNION {Sweep(surface[v], slab) : v \in Band(Len(surface), u)}
        BY <1>1, <2>1, <2>4, <4>1 DEF BandsSwept
      <4>. QED  BY <2>1, <4>1, <4>2, Zenon
    <3>. QED  BY <3>1, <3>2
  <2>5. BandsSwept'
    BY <2>4, Zenon DEF BandsSwept
  <2>6. Shell' = Shell
    BY <2>1, Zenon DEF Shell
  <2>7. MaskBuilt'
    BY <1>1, <2>1, <2>6 DEF MaskBuilt
  <2>. QED  BY <2>3, <2>5, <2>7 DEF MaskInv
<1>5. CASE EndBuild
  <2>1. Merged = Shell
    BY <1>1, <1>5, BandsMerge DEF EndBuild, BandsSwept
  <2>2. Shell' = Shell
    BY <1>5 DEF EndBuild, Shell
  <2>3. MaskBuilt'
    BY <1>5, <2>1, <2>2 DEF EndBuild, MaskBuilt
  <2>4. Merged \subseteq MaskCells
    BY <1>1 DEF Merged, Swept
  <2>5. InGrids(PresenceOf(Merged))
    BY <2>4, PresenceFits
  <2>6. Drawn'
    <3>1. InGrids(presence)' /\ InGrids(shown.presence)'
      BY <1>1, <1>5, <2>5 DEF EndBuild, InGrids, Drawn
    <3>. QED  BY <1>1, <1>5, <2>4, <3>1 DEF EndBuild, Drawn
  <2>7. Swept'
    BY <1>1, <1>5 DEF EndBuild, Swept
  <2>8. BandsSwept'
    BY <1>5 DEF EndBuild, BandsSwept
  <2>9. MaskTypeOK'
    BY <2>6, <2>7 DEF MaskTypeOK, Drawn, Swept, InGrids
  <2>. QED  BY <2>3, <2>8, <2>9 DEF MaskInv
<1>6. CASE UploadMask
  <2>1. Shell' = Shell
    BY <1>6 DEF UploadMask, Shell
  <2>2. MaskBuilt'
    BY <1>1, <1>6, <2>1 DEF UploadMask, MaskBuilt
  <2>3. Drawn'
    <3>1. InGrids(presence)' /\ InGrids(shown.presence)'
      BY <1>1, <1>6 DEF UploadMask, InGrids, Drawn
    <3>. QED  BY <1>1, <1>6, <3>1 DEF UploadMask, Drawn
  <2>4. Swept' /\ BandsSwept'
    BY <1>1, <1>6 DEF UploadMask, Swept, BandsSwept
  <2>5. MaskTypeOK'
    BY <2>3, <2>4 DEF MaskTypeOK, Drawn, Swept, InGrids
  <2>. QED  BY <2>2, <2>4, <2>5 DEF MaskInv
<1>7. CASE UNCHANGED maskVars
  BY <1>1, <1>7 DEF maskVars, MaskInv, MaskTypeOK, BandsSwept, MaskBuilt, Shell
<1>. QED  BY <1>2, <1>3, <1>4, <1>5, <1>6, <1>7 DEF MaskNext

(* Before a surface is loaded there is no mask. *)
LEMMA MaskBegins == MaskInit => MaskInv
<1> SUFFICES ASSUME MaskInit PROVE MaskInv
  OBVIOUS
<1>1. Drawn /\ Swept
  BY DEF MaskInit, Nothing, Drawn, Swept, InGrids
<1>2. BandsSwept /\ MaskBuilt
  BY DEF MaskInit, BandsSwept, MaskBuilt
<1>. QED  BY <1>1, <1>2, MaskParts DEF MaskInv

(* The mask's variables stay in their types: the bands mark cells of the     *)
(* volume only, and no level has a brick that its grid has not.              *)
THEOREM MaskTyped == MaskSpec => []MaskTypeOK
<1>1. MaskInv => MaskTypeOK
  BY DEF MaskInv
<1>. QED  BY <1>1, MaskBegins, MaskSteps, PTL DEF MaskSpec

(* The GPU has the whole shell until the next change, and on every level the *)
(* bricks that build() takes its cells to lie in.                            *)
THEOREM ShellIsWhole == MaskSpec => []MaskIsWhole
<1>1. MaskInit => MaskInv
  BY MaskBegins
<1>2. ASSUME MaskInv PROVE MaskIsWhole
  <2>1. ASSUME surface # <<>>, ~building, ~maskNeedsUpload
        PROVE  /\ shown.blocks = Shell
               /\ shown.presence = PresenceOf(shown.blocks)
    BY <1>2, <2>1 DEF MaskInv, MaskBuilt
  <2>2. Shell \subseteq MaskCells
    BY DEF Shell, Sweep
  <2>3. ASSUME surface # <<>>, ~building, ~maskNeedsUpload,
               NEW i \in MaskLevels, NEW c \in shown.blocks
        PROVE  Min({BlockOf(c) \div Span[i], BrickGrids[i] - 1}) \in shown.presence[i]
    <3>1. shown.blocks \in SUBSET MaskCells /\ shown.presence = PresenceOf(shown.blocks)
      BY <2>1, <2>2, <2>3
    <3>2. Min({BlockOf(c) \div Span[i], BrickGrids[i] - 1}) \in PresenceOf(shown.blocks)[i]
      BY <2>3, <3>1, PresenceCovers
    <3>. QED  BY <3>1, <3>2, Zenon
  <2>. QED  BY <2>1, <2>3 DEF MaskIsWhole, Shell
<1>. QED  BY <1>1, <1>2, MaskSteps, PTL DEF MaskSpec

-----------------------------------------------------------------------------
(* The planner and the manifest. *)

(* What is below a quotient that is rounded up. *)
LEMMA CeilLess ==
  ASSUME NEW a \in Nat, NEW k \in Nat \ {0}, NEW x \in Nat
  PROVE  /\ CeilDiv(a, k) \in Nat
         /\ x < CeilDiv(a, k) <=> x * k < a
<1> DEFINE d == CeilDiv(a, k)
           n == (a + k) - 1
<1>1. n \in Nat
  OBVIOUS
<1>2. d = n \div k
  BY DEF CeilDiv
<1> HIDE DEF d, n
<1>3. d \in Nat /\ d * k <= n /\ n < d * k + k
  BY <1>1, <1>2, DivIs
<1>4. n = (a + k) - 1 /\ x * k \in Nat /\ d * k \in Nat /\ (x + 1) * k = x * k + k
  BY <1>3 DEF n
<1>5. ASSUME x < d PROVE x * k < a
  <2>1. (x + 1) * k <= d * k
    BY <1>3, <1>5, Monotone
  <2>. QED  BY <1>3, <1>4, <2>1
<1>6. ASSUME ~(x < d) PROVE ~(x * k < a)
  <2>1. d * k <= x * k
    BY <1>3, <1>6, Monotone
  <2>. QED  BY <1>3, <1>4, <2>1
<1>7. d \in Nat /\ (x < d <=> x * k < a)
  BY <1>3, <1>5, <1>6
<1>. QED  BY <1>7 DEF d

(* A level is twice as coarse as the one below it. *)
LEMMA ScaleIs ==
  \A l \in NodeLevels : /\ LevelScale[l] \in Nat \ {0}
                        /\ l # 0 => l - 1 \in NodeLevels /\ LevelScale[l] = 2 * LevelScale[l - 1]
<1> DEFINE N == LevelCount - 1
           step == [i \in 1 .. N |-> [x \in Nat \ {0} |-> 2 * x]]
           Scale(g) == [l \in NodeLevels |-> IF l = 0 THEN 1 ELSE 2 * g[l - 1]]
<1>1. N \in Nat /\ NodeLevels = 0 .. N
  BY PlannerAssumption DEF PlannerAssumption, NodeLevels
<1>2. step \in [1 .. N -> [Nat \ {0} -> Nat \ {0}]]
  OBVIOUS
<1>3. \A i \in 1 .. N, x \in Nat \ {0} : step[i][x] = 2 * x
  OBVIOUS
<1>4. LevelScale = CHOOSE g : g = Scale(g)
  BY Zenon DEF LevelScale
<1> HIDE DEF step, N
<1>5. PICK g : GoesOn(g, N, Nat \ {0}, 1, step)
  <2>1. 1 \in Nat \ {0}
    OBVIOUS
  <2>. QED  BY <1>1, <1>2, <2>1, Recursion, Zenon
<1>6. \A i \in 1 .. N : i - 1 \in 0 .. N /\ i \in 0 .. N
  BY <1>1
<1>7. /\ g \in [0 .. N -> Nat \ {0}]
      /\ g[0] = 1
      /\ \A i \in 1 .. N : g[i] = 2 * g[i - 1]
  BY <1>3, <1>5, <1>6 DEF GoesOn
<1>8. g = Scale(g)
  BY <1>1, <1>7
<1>9. LevelScale = Scale(LevelScale)
  BY <1>4, <1>8, Zenon
<1> DEFINE T == {i \in 0 .. N : LevelScale[i] \in Nat \ {0}}
<1>10. LevelScale[0] = 1
  BY <1>1, <1>9
<1>11. \A i \in 1 .. N : LevelScale[i] = 2 * LevelScale[i - 1]
  BY <1>1, <1>9
<1>12. 0 \in T
  BY <1>1, <1>10
<1>13. \A i \in 1 .. N : i - 1 \in T => i \in T
  BY <1>6, <1>11
<1> HIDE DEF T
<1>14. \A i \in 0 .. N : i \in T
  BY <1>1, <1>12, <1>13, UpTo
<1>. QED  BY <1>1, <1>11, <1>14 DEF T

(* A brick is in the grid if its first voxel is in the volume; and there is  *)
(* always one.                                                               *)
LEMMA InGrid ==
  ASSUME NEW l \in NodeLevels, NEW x \in Nat
  PROVE  /\ GridDims(l) \in Nat
         /\ x < GridDims(l) <=> (x = 0 \/ (x * ChunkDim) * LevelScale[l] < Shape)
<1> DEFINE s == LevelScale[l]
           c == CeilDiv(Shape, s)
           m == Max({1, c})
<1>1. s \in Nat \ {0} /\ Shape \in Nat /\ ChunkDim \in Nat \ {0}
  BY ScaleIs, PlannerAssumption DEF PlannerAssumption
<1> DEFINE y == x * ChunkDim
<1>2. y \in Nat /\ (y < 1 <=> x = 0)
  <2>1. x # 0 => 1 * ChunkDim <= x * ChunkDim
    BY <1>1, Monotone
  <2>. QED  BY <1>1, <2>1
<1>3. GridDims(l) = CeilDiv(m, ChunkDim)
  BY DEF GridDims
<1> HIDE DEF s, y
<1>4. c \in Nat /\ (y < c <=> y * s < Shape)
  BY <1>1, <1>2, CeilLess
<1> HIDE DEF c
<1>5. m \in Nat /\ (y < m <=> (y < 1 \/ y < c))
  BY <1>2, <1>4, MaxWith
<1> HIDE DEF m
<1>6. CeilDiv(m, ChunkDim) \in Nat /\ (x < CeilDiv(m, ChunkDim) <=> y < m)
  BY <1>1, <1>5, CeilLess DEF y
<1>. QED  BY <1>2, <1>3, <1>4, <1>5, <1>6 DEF s, y

(* The bricks of the pyramid. *)
LEMMA NodeIs ==
  ASSUME NEW l, NEW x
  PROVE  <<l, x>> \in Nodes <=> l \in NodeLevels /\ x \in 0 .. GridDims(l) - 1
BY DEF Nodes

(* A brick is a pair. *)
LEMMA NodePair ==
  ASSUME NEW b \in Nodes
  PROVE  b = <<b[1], b[2]>> /\ b[1] \in NodeLevels /\ b[2] \in 0 .. GridDims(b[1]) - 1
BY DEF Nodes

(* The brick above one. *)
Parent(b) == <<b[1] + 1, b[2] \div 2>>

(* Every brick below the coarsest level has one above it, and is its child.  *)
LEMMA ParentIs ==
  ASSUME NEW b \in Nodes, b[1] # Coarsest
  PROVE  Parent(b) \in Nodes /\ b \in Children(Parent(b))
<1> DEFINE l == b[1]
           x == b[2]
           y == x \div 2
<1>1. b = <<l, x>> /\ l \in NodeLevels /\ x \in 0 .. GridDims(l) - 1
  BY NodePair
<1>2. l \in Nat /\ l + 1 \in NodeLevels /\ x \in Nat /\ GridDims(l) \in Nat
  BY <1>1, PlannerAssumption, InGrid DEF NodeLevels, Coarsest, PlannerAssumption
<1>3. LevelScale[l + 1] = 2 * LevelScale[l] /\ LevelScale[l] \in Nat
  BY <1>1, <1>2, ScaleIs
<1>4. y \in Nat /\ (x = 2 * y \/ x = 2 * y + 1)
  BY <1>2
<1> HIDE DEF y
<1>5. ChunkDim \in Nat /\ Shape \in Nat
  BY PlannerAssumption DEF PlannerAssumption
<1>6. y = 0 \/ (y * ChunkDim) * LevelScale[l + 1] < Shape
  <2>1. CASE y # 0
    <3>1. x < GridDims(l) /\ x # 0
      BY <1>1, <1>2, <1>4, <2>1
    <3>2. (x * ChunkDim) * LevelScale[l] < Shape
      BY <1>1, <1>2, <3>1, InGrid
    <3>3. (2 * y) * (ChunkDim * LevelScale[l]) <= x * (ChunkDim * LevelScale[l])
      BY <1>2, <1>3, <1>4, <1>5, Monotone
    <3>4. (2 * y) * (ChunkDim * LevelScale[l]) = (y * ChunkDim) * LevelScale[l + 1]
      BY <1>3, <1>4, <1>5
    <3>5. x * (ChunkDim * LevelScale[l]) = (x * ChunkDim) * LevelScale[l]
      BY <1>2, <1>3, <1>5
    <3>6. (y * ChunkDim) * LevelScale[l + 1] \in Nat /\ x * (ChunkDim * LevelScale[l]) \in Nat
      BY <1>2, <1>3, <1>4, <1>5
    <3>. QED  BY <1>5, <3>2, <3>3, <3>4, <3>5, <3>6
  <2>. QED  BY <2>1
<1>7. y < GridDims(l + 1) /\ GridDims(l + 1) \in Nat
  BY <1>2, <1>4, <1>6, InGrid
<1>8. <<l + 1, y>> \in Nodes
  <2>1. y \in 0 .. GridDims(l + 1) - 1
    BY <1>4, <1>7
  <2>. QED  BY <1>2, <2>1, NodeIs
<1>9. b \in Children(<<l + 1, y>>)
  <2>1. x \in ChildIndexes(<<l + 1, y>>)
    BY <1>4 DEF ChildIndexes
  <2>2. l = (l + 1) - 1
    BY <1>2
  <2>. QED  BY <1>1, <2>1, <2>2 DEF Children
<1>. QED  BY <1>8, <1>9 DEF Parent, y

(* What a brick's children are. *)
LEMMA ChildIs ==
  ASSUME NEW a \in Nodes, NEW b \in Children(a)
  PROVE  b \in Nodes /\ b[1] = a[1] - 1 /\ b[1] # Coarsest /\ Parent(b) = a
<1>1. a = <<a[1], a[2]>> /\ a[1] \in Nat /\ a[1] <= Coarsest /\ Coarsest \in Nat
      /\ a[2] \in Nat
  <2>1. a[1] \in NodeLevels /\ a[2] \in Nat /\ a = <<a[1], a[2]>>
    BY NodePair
  <2>. QED  BY <2>1, PlannerAssumption DEF NodeLevels, Coarsest, PlannerAssumption
<1>2. b \in Nodes /\ b \in {a[1] - 1} \X {2 * a[2], 2 * a[2] + 1}
  BY DEF Children, ChildIndexes
<1>3. b[1] = a[1] - 1 /\ (b[2] = 2 * a[2] \/ b[2] = 2 * a[2] + 1)
  BY <1>2
<1>4. b[2] \div 2 = a[2] /\ b[1] + 1 = a[1] /\ b[1] # Coarsest
  BY <1>1, <1>3
<1>. QED  BY <1>1, <1>2, <1>3, <1>4 DEF Parent

(* A view that shows a brick shows the one above it. *)
LEMMA ParentInView ==
  ASSUME NEW view, view.voxels \subseteq Nat, NEW b \in Nodes, b[1] # Coarsest,
         IntersectsView(view, b)
  PROVE  IntersectsView(view, Parent(b))
<1> DEFINE k == ChunkDim * LevelScale[b[1]]
           h == ChunkDim * LevelScale[b[1] + 1]
<1>1. PICK v \in view.voxels : v \div k = b[2]
  BY DEF IntersectsView
<1>2. b[1] \in NodeLevels /\ b[1] + 1 \in NodeLevels /\ b[1] = (b[1] + 1) - 1 /\ b[1] + 1 # 0
  <2>1. b[1] \in NodeLevels
    BY NodePair
  <2>. QED  BY <2>1, PlannerAssumption DEF NodeLevels, Coarsest, PlannerAssumption
<1>3. ChunkDim \in Nat \ {0} /\ LevelScale[b[1]] \in Nat \ {0}
      /\ LevelScale[b[1] + 1] = 2 * LevelScale[b[1]]
  BY <1>2, ScaleIs, PlannerAssumption DEF PlannerAssumption
<1>4. k \in Nat \ {0} /\ h = 2 * k
  BY <1>3
<1> HIDE DEF k, h
<1> DEFINE q == b[2]
           a == q \div 2
<1>5. v \in Nat /\ q \in Nat /\ q * k <= v /\ v < q * k + k
  BY <1>1, <1>4, DivIs
<1> HIDE DEF q
<1>6. a \in Nat /\ (q = 2 * a \/ q = 2 * a + 1)
  BY <1>5
<1> HIDE DEF a
<1>7. a * h <= v /\ v < a * h + h
  <2>1. a * h = (2 * a) * k /\ (2 * a + 1) * k = (2 * a) * k + k /\ (2 * a) * k \in Nat
    BY <1>4, <1>6
  <2>. QED  BY <1>4, <1>5, <1>6, <2>1
<1>8. v \div h = a
  <2>1. h \in Nat \ {0}
    BY <1>4
  <2>. QED  BY <1>5, <1>6, <1>7, <2>1, DivUnique
<1>9. Parent(b)[1] = b[1] + 1 /\ Parent(b)[2] = a
  BY DEF Parent, q, a
<1>. QED  BY <1>8, <1>9 DEF IntersectsView, h

(* The level desired is one of the levels. *)
LEMMA DesiredIs ==
  ASSUME NEW scale
  PROVE  Desired(scale) \in NodeLevels /\ Coarsest \in NodeLevels
<1> DEFINE T == {d \in NodeLevels : LevelScale[d] >= scale} \cup {Coarsest}
<1>1. Coarsest \in NodeLevels /\ NodeLevels \subseteq Nat
  BY PlannerAssumption DEF PlannerAssumption, NodeLevels, Coarsest
<1>2. T \in SUBSET Nat /\ T # {} /\ T \subseteq NodeLevels
  <2>1. \A d \in T : d \in NodeLevels
    BY <1>1, Zenon
  <2>2. Coarsest \in T
    BY Zenon
  <2> HIDE DEF T
  <2>. QED  BY <1>1, <2>1, <2>2
<1> HIDE DEF T
<1>3. Min(T) \in T
  BY <1>2, MinIs
<1>. QED  BY <1>1, <1>2, <1>3 DEF Desired, T

(* What is pushed is the children, each once. *)
LEMMA PushedIs ==
  ASSUME NEW b \in Nodes, b[1] # 0
  PROVE  Pushed(b) \in Seq(Nodes) /\ Once(Pushed(b)) /\ ToSet(Pushed(b)) = Children(b)
<1> DEFINE l == b[1] - 1
           x == b[2]
           d == GridDims(l) - 2 * x
           n == Min({2, d})
<1>1. l \in NodeLevels /\ l + 1 \in NodeLevels /\ l + 1 # 0 /\ (l + 1) - 1 = l /\ b[1] = l + 1
  <2>1. b[1] \in NodeLevels /\ LevelCount \in Nat
    BY NodePair, PlannerAssumption DEF PlannerAssumption
  <2>. QED  BY <2>1 DEF NodeLevels
<1>2. x \in Nat /\ x < GridDims(l + 1) /\ GridDims(l) \in Nat
  BY <1>1, NodePair, InGrid
<1>3. LevelScale[l + 1] = 2 * LevelScale[l] /\ LevelScale[l] \in Nat /\ ChunkDim \in Nat
  BY <1>1, ScaleIs, PlannerAssumption DEF PlannerAssumption
<1> HIDE DEF l, x
<1>4. d \in Nat \ {0}
  <2>1. x = 0 \/ (x * ChunkDim) * LevelScale[l + 1] < Shape
    BY <1>1, <1>2, InGrid
  <2>2. (x * ChunkDim) * LevelScale[l + 1] = ((2 * x) * ChunkDim) * LevelScale[l]
    BY <1>2, <1>3
  <2>3. 2 * x \in Nat /\ (x = 0 => 2 * x = 0)
    BY <1>2
  <2>4. 2 * x < GridDims(l)
    BY <1>1, <2>1, <2>2, <2>3, InGrid
  <2>. QED  BY <1>2, <2>3, <2>4
<1>5. n \in Nat /\ n <= 2 /\ n <= d /\ (n = 2 \/ n = d)
  <2>1. {2, d} \in SUBSET Nat /\ {2, d} # {}
    BY <1>4
  <2> HIDE DEF d
  <2>2. n \in {2, d} /\ \A k \in {2, d} : n <= k
    BY <2>1, MinIs
  <2>. QED  BY <1>4, <2>2
<1>6. Pushed(b) = [i \in 1 .. n |-> <<l, 2 * x + i - 1>>]
  BY DEF Pushed, l, x
<1> HIDE DEF n
<1>7. ASSUME NEW i \in 1 .. n PROVE <<l, 2 * x + i - 1>> \in Children(b)
  <2> DEFINE y == 2 * x + i - 1
  <2>1. y \in {2 * x, 2 * x + 1} /\ y \in 0 .. GridDims(l) - 1
    BY <1>2, <1>4, <1>5
  <2> HIDE DEF y
  <2>2. <<l, y>> \in Nodes
    BY <1>1, <2>1, NodeIs
  <2>. QED  BY <2>1, <2>2 DEF Children, ChildIndexes, l, x, y
<1>8. ASSUME NEW c \in Children(b) PROVE \E i \in 1 .. n : c = <<l, 2 * x + i - 1>>
  <2>1. c \in {l} \X {2 * x, 2 * x + 1} /\ c \in Nodes
    BY DEF Children, ChildIndexes, l, x
  <2>2. c = <<l, c[2]>> /\ c[1] = l /\ c[2] \in {2 * x, 2 * x + 1}
    BY <2>1
  <2>3. c[2] < GridDims(l)
    BY <1>1, <1>2, <2>1, <2>2, NodePair
  <2> DEFINE i == (c[2] - 2 * x) + 1
  <2>4. i \in 1 .. n /\ 2 * x + i - 1 = c[2]
    BY <1>2, <1>5, <2>2, <2>3
  <2>. QED  BY <2>2, <2>4
<1>9. Pushed(b) \in Seq(Nodes)
  <2>1. \A i \in 1 .. n : <<l, 2 * x + i - 1>> \in Nodes
    BY <1>7 DEF Children
  <2>. QED  BY <1>5, <1>6, <2>1
<1>10. Once(Pushed(b))
  BY <1>2, <1>5, <1>6 DEF Once
<1>11. ToSet(Pushed(b)) = Children(b)
  BY <1>6, <1>7, <1>8 DEF ToSet
<1>. QED  BY <1>9, <1>10, <1>11

Progress == [stack : Seq(Nodes), visible : SUBSET Nodes, missing : Seq(Nodes)]

Filled(q, p) == Len(p.missing) >= q.cap

Listed(p) == ToSet(p.missing)

(* What is on the stack after b has come off it. *)
Below(q, b) ==
  IF Passes(q, b) /\ b[1] > Desired(q.view.voxelsPerPixel) THEN Children(b) ELSE {}

(* What a visit does to the stack and to the two lists.                      *)
Visited(q, p, b, r) ==
  /\ r \in Progress
  /\ b \in ToSet(p.stack)
  /\ ToSet(r.stack) = (ToSet(p.stack) \ {b}) \cup Below(q, b)
  /\ ToSet(p.stack) \cap Below(q, b) = {} => Once(r.stack)
  /\ Listed(p) \subseteq Listed(r) /\ p.visible \subseteq r.visible
  /\ Filled(q, p) => Filled(q, r)
  /\ \A c \in Listed(r) : c \in Listed(p) \/ (c = b /\ ~Filled(q, p))
  /\ Passes(q, b) => b \in Listed(r) \cup (r.visible \cap q.resident) \/ Filled(q, r)

(* One visit. *)
LEMMA VisitIs ==
  ASSUME NEW q, q.cap \in Nat, NEW p \in Progress, p.stack # <<>>, Once(p.stack)
  PROVE  Last(p.stack) \in Nodes /\ Visited(q, p, Last(p.stack), Visit(q, p))
<1> DEFINE b == Last(p.stack)
           f == Front(p.stack)
           r == Visit(q, p)
           deeper == b[1] > Desired(q.view.voxelsPerPixel)
           seen == p.visible \cup ({b} \cap q.resident)
           more == IF b \notin q.resident /\ Len(p.missing) < q.cap
                   THEN Append(p.missing, b) ELSE p.missing
           found(stack) == [stack |-> stack, visible |-> seen, missing |-> more]
<1>1. p.stack \in Seq(Nodes) /\ p.visible \subseteq Nodes /\ p.missing \in Seq(Nodes)
  BY DEF Progress
<1>2. b \in Nodes /\ f \in Seq(Nodes) /\ ToSet(p.stack) = ToSet(f) \cup {b}
      /\ Once(f) /\ b \notin ToSet(f)
  BY <1>1, LastOff
<1>3. r = IF ~Passes(q, b) THEN [p EXCEPT !.stack = Front(@)]
          ELSE IF deeper THEN found(f \o Pushed(b)) ELSE found(f)
  BY Zenon DEF Visit
<1>4. b \notin q.resident /\ Len(p.missing) < q.cap => more = Append(p.missing, b)
  OBVIOUS
<1>5. ~(b \notin q.resident /\ Len(p.missing) < q.cap) => more = p.missing
  OBVIOUS
<1> HIDE DEF more
<1>6. /\ more \in Seq(Nodes) /\ Len(more) \in Nat /\ Len(p.missing) \in Nat
      /\ Len(p.missing) <= Len(more)
      /\ ToSet(p.missing) \subseteq ToSet(more)
      /\ \A c \in ToSet(more) : c \in ToSet(p.missing) \/ (c = b /\ Len(p.missing) < q.cap)
      /\ b \in ToSet(more) \/ b \in q.resident \/ Len(more) >= q.cap
  <2>1. Len(p.missing) \in Nat
    BY <1>1, LenProperties
  <2>2. CASE b \notin q.resident /\ Len(p.missing) < q.cap
    <3>1. more = Append(p.missing, b)
      BY <1>4, <2>2
    <3>2. more \in Seq(Nodes) /\ Len(more) = Len(p.missing) + 1
          /\ ToSet(more) = ToSet(p.missing) \cup {b}
      BY <1>1, <1>2, <3>1, AppendIs
    <3>. QED  BY <2>1, <2>2, <3>2
  <2>3. CASE ~(b \notin q.resident /\ Len(p.missing) < q.cap)
    <3>1. more = p.missing
      BY <1>5, <2>3
    <3>. QED  BY <1>1, <2>1, <2>3, <3>1
  <2>. QED  BY <2>2, <2>3
<1>7. seen \subseteq Nodes /\ p.visible \subseteq seen /\ (b \in q.resident => b \in seen)
  BY <1>1, <1>2
<1> HIDE DEF seen, b, f, r
<1>8. CASE ~Passes(q, b)
  <2>1. r = [p EXCEPT !.stack = Front(@)]
    BY <1>3, <1>8
  <2>2. r \in Progress /\ r.stack = f /\ r.visible = p.visible /\ r.missing = p.missing
    BY <1>1, <1>2, <2>1 DEF Progress, f
  <2>3. Below(q, b) = {}
    BY <1>8, Zenon DEF Below
  <2>4. ToSet(r.stack) = (ToSet(p.stack) \ {b}) \cup Below(q, b) /\ Once(r.stack)
    BY <1>2, <2>2, <2>3
  <2>. QED  BY <1>2, <1>8, <2>2, <2>4 DEF Visited, Filled, Listed, b, r
<1> DEFINE Rest(stack) ==
      Passes(q, b) /\ r = found(stack) /\ stack \in Seq(Nodes)
      /\ ToSet(stack) = (ToSet(p.stack) \ {b}) \cup Below(q, b)
      /\ (ToSet(p.stack) \cap Below(q, b) = {} => Once(stack))
<1>9. ASSUME NEW stack, Rest(stack) PROVE Visited(q, p, b, r)
  <2>1. r.stack = stack /\ r.visible = seen /\ r.missing = more
    BY <1>9
  <2>7. Listed(r) = ToSet(more) /\ (Filled(q, r) <=> Len(more) >= q.cap)
        /\ Listed(p) = ToSet(p.missing) /\ (Filled(q, p) <=> ~(Len(p.missing) < q.cap))
    BY <1>6, <2>1 DEF Filled, Listed
  <2>2. r \in Progress
    BY <1>6, <1>7, <1>9 DEF Progress
  <2>3. Filled(q, p) => Filled(q, r)
    BY <1>6, <2>1 DEF Filled
  <2>4. \A c \in Listed(r) : c \in Listed(p) \/ (c = b /\ ~Filled(q, p))
    <3>1. ASSUME NEW c \in ToSet(more)
          PROVE  c \in ToSet(p.missing) \/ (c = b /\ Len(p.missing) < q.cap)
      BY <1>6
    <3>. QED  BY <2>7, <3>1
  <2>5. b \in Listed(r) \cup (r.visible \cap q.resident) \/ Filled(q, r)
    <3>1. CASE b \in q.resident
      <4>1. b \in seen
        BY <1>7, <3>1
      <4>. QED  BY <2>1, <3>1, <4>1, Zenon
    <3>2. b \in ToSet(more) \/ b \in q.resident \/ Len(more) >= q.cap
      BY <1>6
    <3>. QED  BY <2>7, <3>1, <3>2
  <2>6. Listed(p) \subseteq Listed(r) /\ p.visible \subseteq r.visible
    BY <1>6, <1>7, <2>1 DEF Listed
  <2>. QED  BY <1>2, <1>9, <2>1, <2>2, <2>3, <2>4, <2>5, <2>6 DEF Visited
<1>10. CASE Passes(q, b) /\ deeper
  <2>1. r = found(f \o Pushed(b)) /\ Below(q, b) = Children(b)
    BY <1>3, <1>10 DEF Below, b
  <2>2. b[1] # 0
    BY <1>2, <1>10, DesiredIs, NodePair DEF NodeLevels, b
  <2>3. Pushed(b) \in Seq(Nodes) /\ Once(Pushed(b)) /\ ToSet(Pushed(b)) = Children(b)
    BY <1>2, <2>2, PushedIs
  <2>4. /\ f \o Pushed(b) \in Seq(Nodes)
        /\ ToSet(f \o Pushed(b)) = ToSet(f) \cup Children(b)
        /\ ToSet(f) \cap Children(b) = {} => Once(f \o Pushed(b))
    BY <1>2, <2>3, JoinIs
  <2>5. Rest(f \o Pushed(b))
    BY <1>2, <1>10, <2>1, <2>4
  <2>. QED  BY <1>2, <1>9, <2>5, Zenon DEF b, r
<1>11. CASE Passes(q, b) /\ ~deeper
  <2>1. r = found(f) /\ Below(q, b) = {}
    BY <1>3, <1>11, Zenon DEF Below, b
  <2>2. Rest(f)
    BY <1>2, <1>11, <2>1
  <2>. QED  BY <1>2, <1>9, <2>2, Zenon DEF b, r
<1>. QED  BY <1>8, <1>10, <1>11, Zenon

(* What is known of a plan in the making when the bricks in P have come off  *)
(* the stack: no brick comes twice, because a brick is reached only from the *)
(* one above it (Unrepeated); nothing is left out (Closed); what passed is   *)
(* listed or resident, unless the list is full (Kept); and the list goes     *)
(* down from the top (TopDown).                                              *)
Reached(p, P) == P \cup ToSet(p.stack)

Unrepeated(p, P) ==
  /\ P \subseteq Nodes
  /\ Once(p.stack)
  /\ ToSet(p.stack) \cap P = {}
  /\ \A b \in Reached(p, P) : b[1] = Coarsest \/ Parent(b) \in P

Closed(q, p, P) ==
  /\ \A b \in Nodes : b[1] = Coarsest => b \in Reached(p, P)
  /\ \A b \in P : Below(q, b) \subseteq Reached(p, P)

Kept(q, p, P) ==
  \A b \in P : Passes(q, b) => b \in Listed(p) \cup p.visible \/ Filled(q, p)

TopDown(q, p) ==
  /\ \A b \in Listed(p) : b[1] = Coarsest \/ Parent(b) \in Listed(p) \cup q.resident
  /\ \A b \in ToSet(p.stack) :
       b[1] = Coarsest \/ Parent(b) \in Listed(p) \cup q.resident \/ Filled(q, p)

Exploring(q, p, P) ==
  p \in Progress /\ Unrepeated(p, P) /\ Closed(q, p, P) /\ Kept(q, p, P) /\ TopDown(q, p)

(* A visit keeps it.                                                         *)
LEMMA VisitWalks ==
  ASSUME NEW q, q.cap \in Nat, NEW p, NEW P, Exploring(q, p, P), p.stack # <<>>
  PROVE  Last(p.stack) \in Nodes \ P /\ Exploring(q, Visit(q, p), P \cup {Last(p.stack)})
<1> DEFINE b == Last(p.stack)
           r == Visit(q, p)
           Q == P \cup {b}
<1>1. p \in Progress /\ Unrepeated(p, P) /\ Closed(q, p, P) /\ Kept(q, p, P) /\ TopDown(q, p)
  BY DEF Exploring
<1>2. Once(p.stack)
  BY <1>1 DEF Unrepeated
<1>3. b \in Nodes /\ Visited(q, p, b, r)
  BY <1>1, <1>2, VisitIs
<1> HIDE DEF b, r
<1>4. b \in ToSet(p.stack) /\ b \notin P
  BY <1>1, <1>3 DEF Unrepeated, Visited
<1>5. \A c \in Below(q, b) :
        c \in Nodes /\ c[1] # Coarsest /\ Parent(c) = b /\ Passes(q, b)
  BY <1>3, ChildIs DEF Below
<1>6. ToSet(p.stack) \cap Below(q, b) = {} /\ P \cap Below(q, b) = {}
  BY <1>1, <1>4, <1>5 DEF Unrepeated, Reached
<1>7. ToSet(r.stack) = (ToSet(p.stack) \ {b}) \cup Below(q, b) /\ Once(r.stack)
  BY <1>3, <1>6 DEF Visited
<1>8. Reached(r, Q) = Reached(p, P) \cup Below(q, b)
  BY <1>4, <1>7 DEF Reached
<1>9. Unrepeated(r, Q)
  <2>1. Q \subseteq Nodes /\ ToSet(r.stack) \cap Q = {}
    BY <1>1, <1>3, <1>6, <1>7, <1>4 DEF Unrepeated
  <2>2. \A c \in Reached(r, Q) : c[1] = Coarsest \/ Parent(c) \in Q
    BY <1>1, <1>5, <1>8 DEF Unrepeated
  <2>. QED  BY <1>7, <2>1, <2>2 DEF Unrepeated
<1>10. Closed(q, r, Q)
  BY <1>1, <1>8 DEF Closed
<1>11. Kept(q, r, Q)
  <2>1. ASSUME NEW c \in Q, Passes(q, c) PROVE c \in Listed(r) \cup r.visible \/ Filled(q, r)
    <3>1. CASE c = b
      BY <1>3, <2>1, <3>1 DEF Visited
    <3>2. CASE c \in P
      BY <1>1, <1>3, <2>1, <3>2 DEF Visited, Kept
    <3>. QED  BY <3>1, <3>2
  <2>. QED  BY <2>1 DEF Kept
<1>12. TopDown(q, r)
  <2>1. ASSUME NEW c \in Listed(r)
        PROVE  c[1] = Coarsest \/ Parent(c) \in Listed(r) \cup q.resident
    <3>1. CASE c \in Listed(p)
      BY <1>1, <1>3, <3>1 DEF TopDown, Visited
    <3>2. CASE c = b /\ ~Filled(q, p)
      BY <1>1, <1>3, <1>4, <3>2 DEF TopDown, Visited
    <3>. QED  BY <1>3, <3>1, <3>2 DEF Visited
  <2>2. ASSUME NEW c \in ToSet(r.stack)
        PROVE  c[1] = Coarsest \/ Parent(c) \in Listed(r) \cup q.resident \/ Filled(q, r)
    <3>1. CASE c \in Below(q, b)
      BY <1>3, <1>5, <3>1 DEF Visited
    <3>2. CASE c \in ToSet(p.stack)
      BY <1>1, <1>3, <3>2 DEF TopDown, Visited
    <3>. QED  BY <1>7, <3>1, <3>2
  <2>. QED  BY <2>1, <2>2 DEF TopDown
<1>13. r \in Progress
  BY <1>3 DEF Visited
<1>. QED  BY <1>3, <1>4, <1>9, <1>10, <1>11, <1>12, <1>13 DEF Exploring, b, r

(* Where the walk starts.                                                    *)
Tops == [i \in 1 .. GridDims(Coarsest) |-> <<Coarsest, i - 1>>]

Start == [stack |-> Tops, visible |-> {}, missing |-> <<>>]

(* The walk starts with the coarsest level on the stack and nothing listed. *)
LEMMA WalkStarts ==
  ASSUME NEW q
  PROVE  Exploring(q, Start, {})
<1> DEFINE G == GridDims(Coarsest)
<1>1. Coarsest \in NodeLevels /\ G \in Nat
  BY DesiredIs, InGrid
<1> HIDE DEF G
<1>2. Tops = [i \in 1 .. G |-> <<Coarsest, i - 1>>]
  BY DEF Tops, G
<1>3. \A i \in 1 .. G : i - 1 \in 0 .. G - 1
  BY <1>1
<1>4. \A i \in 1 .. G : <<Coarsest, i - 1>> \in Nodes
  BY <1>1, <1>3, NodeIs DEF G
<1>5. Tops \in Seq(Nodes) /\ Once(Tops)
  <2>1. Tops \in Seq(Nodes)
    BY <1>1, <1>2, <1>4
  <2>2. Once(Tops)
    BY <1>1, <1>2 DEF Once
  <2>. QED  BY <2>1, <2>2
<1>6. \A b \in ToSet(Tops) : b[1] = Coarsest
  BY <1>2 DEF ToSet
<1>7. ASSUME NEW b \in Nodes, b[1] = Coarsest PROVE b \in ToSet(Tops)
  <2>1. b = <<Coarsest, b[2]>> /\ b[2] \in 0 .. G - 1
    BY <1>7, NodePair DEF G
  <2>2. b[2] + 1 \in 1 .. G /\ (b[2] + 1) - 1 = b[2]
    BY <1>1, <2>1
  <2>3. b = Tops[b[2] + 1] /\ b[2] + 1 \in DOMAIN Tops
    BY <1>2, <2>1, <2>2
  <2>. QED  BY <2>3 DEF ToSet
<1>8. Start \in Progress /\ Start.stack = Tops /\ Start.missing = <<>>
  BY <1>5 DEF Start, Progress
<1>9. Listed(Start) = {}
  BY <1>8 DEF Listed, ToSet
<1>10. Unrepeated(Start, {})
  BY <1>5, <1>6, <1>8 DEF Unrepeated, Reached
<1>11. Closed(q, Start, {})
  BY <1>7, <1>8 DEF Closed, Reached
<1>12. Kept(q, Start, {}) /\ TopDown(q, Start)
  BY <1>6, <1>8, <1>9 DEF Kept, TopDown
<1>. QED  BY <1>8, <1>10, <1>11, <1>12 DEF Exploring

(* There are finitely many bricks. *)
LEMMA NodesFinite == IsFiniteSet(Nodes) /\ Cardinality(Nodes) \in Nat
<1>1. IsFiniteSet(NodeLevels) /\ IsFiniteSet(0 .. Shape)
  BY FS_Interval, PlannerAssumption DEF PlannerAssumption, NodeLevels
<1>2. IsFiniteSet(NodeLevels \X (0 .. Shape))
  BY <1>1, FS_Product
<1>3. ASSUME NEW b \in Nodes PROVE b \in NodeLevels \X (0 .. Shape)
  <2>1. b = <<b[1], b[2]>> /\ b[1] \in NodeLevels /\ b[2] \in 0 .. GridDims(b[1]) - 1
    BY NodePair
  <2>2. GridDims(b[1]) \in Nat /\ b[2] \in Nat /\ b[2] < GridDims(b[1])
    BY <2>1, InGrid
  <2> DEFINE s == LevelScale[b[1]]
             x == b[2]
  <2>3. x = 0 \/ (x * ChunkDim) * s < Shape
    BY <2>1, <2>2, InGrid
  <2>4. s \in Nat \ {0} /\ ChunkDim \in Nat \ {0} /\ Shape \in Nat /\ x \in Nat
    BY <2>1, <2>2, ScaleIs, PlannerAssumption DEF PlannerAssumption
  <2> HIDE DEF s, x
  <2>5. x \in 0 .. Shape
    <3>1. 1 * ChunkDim <= x * ChunkDim \/ x = 0
      BY <2>4, Monotone
    <3>2. 1 * x <= ChunkDim * x /\ ChunkDim * x = x * ChunkDim
      BY <2>4, Monotone
    <3> DEFINE y == x * ChunkDim
    <3>3. y \in Nat /\ x <= y
      BY <2>4, <3>2
    <3> HIDE DEF y
    <3>4. 1 * y <= s * y /\ s * y = y * s
      BY <2>4, <3>3, Monotone
    <3>5. y * s \in Nat /\ x <= y * s
      BY <2>4, <3>3, <3>4
    <3>. QED  BY <2>3, <2>4, <3>5 DEF y
  <2>. QED  BY <2>1, <2>5 DEF x
<1>4. IsFiniteSet(Nodes)
  <2>1. Nodes \in SUBSET (NodeLevels \X (0 .. Shape))
    BY <1>3
  <2>. QED  BY <1>2, <2>1, FS_Subset
<1>. QED  BY <1>4, FS_CardinalityType

(* The bricks that have come off the stack before step i. *)
Popped(g, i) == {Last(g[j].stack) : j \in {k \in 0 .. i - 1 : g[k].stack # <<>>}}

PlanSteps(q, g) ==
  [i \in 0 .. Cardinality(Nodes) |-> IF i = 0 THEN Start ELSE Visit(q, g[i - 1])]

(* A plan ends: no brick is visited twice, so there are no more visits than  *)
(* bricks.                                                                   *)
LEMMA PlanEnds ==
  ASSUME NEW q, q.cap \in Nat
  PROVE  MakePlan(q).stack = <<>> /\ \E P : Exploring(q, MakePlan(q), P)
<1> DEFINE N == Cardinality(Nodes)
           W == {p \in Progress : \E P \in SUBSET Nodes : Exploring(q, p, P)}
           step == [i \in 1 .. N |-> [p \in W |-> Visit(q, p)]]
           run == CHOOSE g : g = PlanSteps(q, g)
<1>1. N \in Nat
  BY NodesFinite
<1>2. Start \in W
  <2>1. Exploring(q, Start, {}) /\ Start \in Progress
    BY WalkStarts DEF Exploring
  <2>. QED  BY <2>1
<1>3. ASSUME NEW p \in W PROVE Visit(q, p) \in W
  <2>1. PICK P \in SUBSET Nodes : Exploring(q, p, P)
    OBVIOUS
  <2>2. CASE p.stack = <<>>
    <3>1. Visit(q, p) = p
      BY <2>2, Zenon DEF Visit
    <3>. QED  BY <3>1
  <2>3. CASE p.stack # <<>>
    <3>1. Last(p.stack) \in Nodes /\ Exploring(q, Visit(q, p), P \cup {Last(p.stack)})
      BY <2>1, <2>3, VisitWalks
    <3>2. Visit(q, p) \in Progress
      BY <3>1 DEF Exploring
    <3>3. P \cup {Last(p.stack)} \in SUBSET Nodes
      BY <3>1
    <3>. QED  BY <3>1, <3>2, <3>3, Zenon
  <2>. QED  BY <2>2, <2>3
<1>4. step \in [1 .. N -> [W -> W]]
  BY <1>3
<1>5. \A i \in 1 .. N, p \in W : step[i][p] = Visit(q, p)
  OBVIOUS
<1>6. MakePlan(q) = run[N]
  BY Zenon DEF MakePlan, PlanSteps, Start, Tops
<1>7. \A p \in W : p \in Progress
  OBVIOUS
<1> HIDE DEF W, step, N
<1>8. PICK h : GoesOn(h, N, W, Start, step)
  BY <1>1, <1>2, <1>4, Recursion, Zenon
<1>9. \A i \in 1 .. N : i - 1 \in 0 .. N /\ i \in 0 .. N /\ i # 0
  BY <1>1
<1>10. /\ h \in [0 .. N -> W]
       /\ h[0] = Start
       /\ \A i \in 1 .. N : h[i] = Visit(q, h[i - 1])
  BY <1>5, <1>8, <1>9 DEF GoesOn
<1>11. h = PlanSteps(q, h)
  <2>1. \A i \in 0 .. N : i = 0 \/ i \in 1 .. N
    BY <1>1
  <2>2. \A i \in 0 .. N : h[i] = IF i = 0 THEN Start ELSE Visit(q, h[i - 1])
    BY <1>9, <1>10, <2>1, Zenon
  <2>3. h = [i \in 0 .. N |-> h[i]]
    BY <1>10, Zenon
  <2>. QED  BY <2>2, <2>3, Zenon DEF PlanSteps, N
<1>12. run = PlanSteps(q, run)
  BY <1>11, Zenon
<1>13. run[0] = Start /\ \A i \in 1 .. N : run[i] = Visit(q, run[i - 1])
  <2>1. 0 \in 0 .. N
    BY <1>1
  <2>. QED  BY <1>9, <1>12, <2>1, Zenon DEF PlanSteps, N
<1> HIDE DEF run
<1> DEFINE T == {i \in 0 .. N : Exploring(q, run[i], Popped(run, i))}
<1>14. 0 \in T
  <2>1. Popped(run, 0) = {}
    BY DEF Popped
  <2>. QED  BY <1>1, <1>13, <2>1, WalkStarts
<1>15. ASSUME NEW i \in 1 .. N, i - 1 \in T PROVE i \in T
  <2> DEFINE p == run[i - 1]
             P == Popped(run, i - 1)
  <2>1. Exploring(q, p, P) /\ run[i] = Visit(q, p) /\ i \in 0 .. N
    BY <1>9, <1>13, <1>15
  <2>2. \A k : k \in 0 .. i - 1 <=> k \in 0 .. (i - 1) - 1 \/ k = i - 1
    BY <1>1
  <2>3. CASE p.stack = <<>>
    <3>1. Popped(run, i) = P
      BY <2>2, <2>3, Zenon DEF Popped
    <3>2. run[i] = p
      BY <2>1, <2>3, Zenon DEF Visit
    <3>. QED  BY <2>1, <3>1, <3>2
  <2>4. CASE p.stack # <<>>
    <3>1. Popped(run, i) = P \cup {Last(p.stack)}
      BY <2>2, <2>4 DEF Popped
    <3> HIDE DEF p, P
    <3>2. Exploring(q, Visit(q, p), P \cup {Last(p.stack)})
      BY <2>1, <2>4, VisitWalks
    <3>. QED  BY <2>1, <3>1, <3>2
  <2>. QED  BY <2>3, <2>4
<1> HIDE DEF T
<1>16. \A i \in 0 .. N : i \in T
  BY <1>1, <1>14, <1>15, UpTo
<1>17. \A i \in 0 .. N : Exploring(q, run[i], Popped(run, i))
  BY <1>16 DEF T
<1>18. N \in 0 .. N
  BY <1>1
<1>19. ASSUME run[N].stack # <<>> PROVE FALSE
  <2> DEFINE U == {i \in 0 .. N : run[N - i].stack # <<>>}
  <2>1. 0 \in U
    <3>1. N - 0 = N /\ 0 \in 0 .. N
      BY <1>1
    <3>. QED  BY <1>19, <3>1
  <2>2. ASSUME NEW i \in 1 .. N, i - 1 \in U PROVE i \in U
    <3>1. N - (i - 1) \in 1 .. N /\ (N - (i - 1)) - 1 = N - i /\ i \in 0 .. N
      BY <1>1
    <3>2. run[N - (i - 1)] = Visit(q, run[N - i]) /\ run[N - (i - 1)].stack # <<>>
      BY <1>13, <2>2, <3>1
    <3>3. run[N - i].stack = <<>> => Visit(q, run[N - i]) = run[N - i]
      BY Zenon DEF Visit
    <3>. QED  BY <3>1, <3>2, <3>3
  <2> HIDE DEF U
  <2>3. \A i \in 0 .. N : i \in U
    BY <1>1, <2>1, <2>2, UpTo
  <2>4. ASSUME NEW j \in 0 .. N PROVE run[j].stack # <<>>
    <3>1. N - j \in 0 .. N /\ N - (N - j) = j
      BY <1>1
    <3>. QED  BY <2>3, <3>1 DEF U
  <2> DEFINE f == [j \in 0 .. N |-> Last(run[j].stack)]
  <2>5. \A j \in 0 .. N : f[j] \in Nodes \ Popped(run, j)
    <3>1. ASSUME NEW j \in 0 .. N PROVE Last(run[j].stack) \in Nodes \ Popped(run, j)
      BY <1>17, <2>4, VisitWalks
    <3>. QED  BY <3>1
  <2>6. f \in [0 .. N -> Nodes]
    BY <2>5
  <2>7. ASSUME NEW x \in 0 .. N, NEW y \in 0 .. N, x < y PROVE f[x] # f[y]
    <3>1. x \in 0 .. y - 1
      BY <1>1, <2>7
    <3>2. f[x] \in Popped(run, y)
      BY <2>4, <3>1 DEF Popped
    <3>. QED  BY <2>5, <3>2
  <2> HIDE DEF f
  <2>8. IsFiniteSet(0 .. N) /\ Cardinality(0 .. N) = N + 1
    <3>1. 0 \in Int /\ N \in Int /\ ~(0 > N) /\ N - 0 + 1 = N + 1
      BY <1>1
    <3>. QED  BY <3>1, FS_Interval
  <2>9. \E x, y \in 0 .. N : x # y /\ f[x] = f[y]
    <3>1. IsFiniteSet(Nodes) /\ Cardinality(Nodes) < Cardinality(0 .. N)
      BY <1>1, <2>8, NodesFinite DEF N
    <3>. QED  BY <2>6, <2>8, <3>1, FS_PigeonHole
  <2>. QED  BY <1>1, <2>7, <2>9
<1>20. Exploring(q, run[N], Popped(run, N))
  BY <1>17, <1>18
<1>. QED  BY <1>6, <1>19, <1>20

(* What the planner may ask of what the manifest says about a volume.        *)
Sound(q, vol) ==
  /\ q.view.voxels \subseteq Nat
  /\ \A b \in Nodes : Pruned(q.manifest, q.threshold, b) => ~CouldShow(vol[b], q.threshold)
  /\ \A a \in Nodes : \A b \in Children(a) :
       CouldShow(vol[b], q.threshold) => CouldShow(vol[a], q.threshold)

Wanted(q, vol, b) ==
  /\ b[1] >= Desired(q.view.voxelsPerPixel)
  /\ IntersectsView(q.view, b)
  /\ CouldShow(vol[b], q.threshold)

(* Whatever is wanted comes off the stack: by induction from the coarsest    *)
(* level down.                                                               *)
LEMMA WantedIsVisited ==
  ASSUME NEW q, NEW vol, Sound(q, vol), NEW p, NEW P, Exploring(q, p, P), p.stack = <<>>
  PROVE  \A b \in Nodes : Wanted(q, vol, b) => b \in P /\ Passes(q, b)
<1> DEFINE D == Desired(q.view.voxelsPerPixel)
           T == {i \in 0 .. Coarsest :
                   \A b \in Nodes : b[1] = Coarsest - i /\ Wanted(q, vol, b) => b \in P}
<1>1. D \in Nat /\ Coarsest \in Nat /\ \A b \in Nodes : b[1] \in 0 .. Coarsest
  <2>1. NodeLevels = 0 .. Coarsest /\ Coarsest \in NodeLevels /\ D \in NodeLevels
    BY DesiredIs DEF NodeLevels, Coarsest
  <2> HIDE DEF D
  <2>. QED  BY <2>1, NodePair
<1> HIDE DEF D
<1>2. Reached(p, P) = P
  BY DEF Reached, ToSet
<1>3. \A b \in Nodes : Wanted(q, vol, b) => Passes(q, b)
  BY DEF Wanted, Passes, Sound
<1>4. 0 \in T
  <2>1. Coarsest - 0 = Coarsest /\ 0 \in 0 .. Coarsest
    BY <1>1
  <2>. QED  BY <1>2, <2>1 DEF Exploring, Closed
<1>5. ASSUME NEW i \in 1 .. Coarsest, i - 1 \in T PROVE i \in T
  <2>1. ASSUME NEW b \in Nodes, b[1] = Coarsest - i, Wanted(q, vol, b) PROVE b \in P
    <3> DEFINE a == Parent(b)
    <3>1. b[1] # Coarsest /\ b[1] \in Nat
      BY <1>1, <2>1
    <3>2. a \in Nodes /\ b \in Children(a) /\ a[1] = b[1] + 1
      BY <3>1, ParentIs DEF Parent
    <3>3. IntersectsView(q.view, a)
      BY <2>1, <3>1, ParentInView DEF Sound, Wanted
    <3> HIDE DEF a
    <3>4. a[1] = Coarsest - (i - 1) /\ a[1] > D /\ D <= b[1]
      BY <1>1, <2>1, <3>1, <3>2 DEF Wanted, D
    <3>5. CouldShow(vol[a], q.threshold)
      BY <2>1, <3>2 DEF Sound, Wanted
    <3>6. Wanted(q, vol, a)
      BY <1>1, <3>1, <3>2, <3>3, <3>4, <3>5 DEF Wanted, D
    <3>7. a \in P /\ Passes(q, a)
      BY <1>3, <1>5, <3>2, <3>4, <3>6
    <3>8. Below(q, a) = Children(a)
      BY <3>4, <3>7 DEF Below, D
    <3>. QED  BY <1>2, <3>2, <3>7, <3>8 DEF Exploring, Closed
  <2>2. i \in 0 .. Coarsest
    BY <1>1
  <2>. QED  BY <2>1, <2>2
<1> HIDE DEF T
<1>6. \A i \in 0 .. Coarsest : i \in T
  BY <1>1, <1>4, <1>5, UpTo
<1>7. ASSUME NEW b \in Nodes, Wanted(q, vol, b) PROVE b \in P
  <2>1. Coarsest - b[1] \in T /\ b[1] = Coarsest - (Coarsest - b[1])
    BY <1>1, <1>6
  <2>. QED  BY <1>7, <2>1 DEF T
<1>. QED  BY <1>3, <1>7

(* A plan made from a sound manifest is one of PlanLosesNothing's.           *)
Complete(q, result, vol) ==
  LET listed == ToSet(result.missing)
  IN /\ Len(result.missing) < q.cap =>
          \A b \in Nodes : Wanted(q, vol, b) => b \in listed \cup result.visible
     /\ \A a \in Nodes :
          Children(a) \cap listed # {} => a \in listed \cup q.resident

(* A plan made from a sound manifest loses nothing.                          *)
LEMMA PlanIsComplete ==
  ASSUME NEW q, q.cap \in Nat, NEW vol, Sound(q, vol)
  PROVE  Complete(q, MakePlan(q), vol)
<1> DEFINE r == MakePlan(q)
<1>1. PICK P : Exploring(q, r, P)
  BY PlanEnds
<1>2. r.stack = <<>>
  BY PlanEnds
<1> HIDE DEF r
<1>3. \A b \in Nodes : Wanted(q, vol, b) => b \in P /\ Passes(q, b)
  BY <1>1, <1>2, WantedIsVisited
<1>4. Len(r.missing) \in Nat
  BY <1>1, LenProperties DEF Exploring, Progress
<1>5. ASSUME Len(r.missing) < q.cap, NEW b \in Nodes, Wanted(q, vol, b)
      PROVE  b \in ToSet(r.missing) \cup r.visible
  <2>1. ~Filled(q, r)
    BY <1>4, <1>5 DEF Filled
  <2>. QED  BY <1>1, <1>3, <1>5, <2>1 DEF Exploring, Kept, Listed
<1>6. ASSUME NEW a \in Nodes, Children(a) \cap ToSet(r.missing) # {}
      PROVE  a \in ToSet(r.missing) \cup q.resident
  <2>1. PICK b \in Children(a) : b \in ToSet(r.missing)
    BY <1>6
  <2>2. b[1] # Coarsest /\ Parent(b) = a
    BY <2>1, ChildIs
  <2>. QED  BY <1>1, <2>1, <2>2 DEF Exploring, TopDown, Listed
<1>. QED  BY <1>5, <1>6 DEF Complete, r

(* A level as it is once its last worker has finished.                       *)
LevelOfVolume(l) == [z \in 0 .. GridDims(l) - 1 |-> EntryOf(volume[<<l, z>>])]

AtRest ==
  /\ scanner = [w \in ScanWorkers |-> Done]
  /\ data = <<>>
  /\ nextZ = 0
  /\ running = 0

Unstarted == file = NoFile /\ level = 0 /\ AtRest

(* The levels written are whole. *)
FileWhole ==
  file = [announced |-> LevelCount, levels |-> [i \in 1 .. level |-> LevelOfVolume(i - 1)]]

(* Each row taken is written or some worker still has it; a worker is done   *)
(* only when no row is left; and running counts the workers at work.         *)
RowsAccounted ==
  /\ scanner \in [ScanWorkers -> {Looping, Done} \cup (0 .. GridDims(level) - 1)]
  /\ nextZ \in 0 .. GridDims(level)
  /\ running = Cardinality({w \in ScanWorkers : scanner[w] # Done})
  /\ \A w \in ScanWorkers : scanner[w] = Done => nextZ >= GridDims(level)
  /\ data \in [0 .. GridDims(level) - 1 -> ByteRange]
  /\ \A z \in 0 .. nextZ - 1 :
       data[z] = EntryOf(volume[<<level, z>>]) \/ \E w \in ScanWorkers : scanner[w] = z

Started ==
  /\ volume \in Volumes
  /\ level \in 0 .. LevelCount
  /\ FileWhole
  /\ IF level < LevelCount THEN RowsAccounted ELSE AtRest

ScanInv ==
  /\ IF volume = NoVolume THEN Unstarted /\ ~plan.made ELSE Started
  /\ scan \in BOOLEAN /\ plan.made \in BOOLEAN
  /\ PlanLosesNothing

(* The levels of a volume. *)
LEMMA LevelTyped ==
  ASSUME NEW l \in NodeLevels
  PROVE  GridDims(l) \in Nat /\ GridDims(l) > 0 /\ <<l, 0>> \in Nodes
<1>1. GridDims(l) \in Nat /\ 0 < GridDims(l)
  BY InGrid
<1>. QED  BY <1>1, NodeIs

(* There is a brick, so that a volume is not no volume. *)
LEMMA VolumeIs ==
  ASSUME NEW vol \in Volumes
  PROVE  /\ vol # NoVolume
         /\ \A b \in Nodes, t \in 0 .. 255 :
              Range8(vol[b]).max \in 0 .. 255 /\ Opaque.max = 255
<1>1. vol \in [Nodes -> [state : {"absent", "bad", "data"}, min : 0 .. 255, max : 0 .. 255]]
  BY VolumesAssumption DEF VolumesAssumption
<1>2. DOMAIN vol # {}
  BY <1>1, DesiredIs, LevelTyped
<1>3. vol # NoVolume
  BY <1>2 DEF NoVolume
<1>4. ASSUME NEW b \in Nodes PROVE Range8(vol[b]).max \in 0 .. 255
  <2>1. vol[b].max \in 0 .. 255
    BY <1>1
  <2>. QED  BY <2>1 DEF Range8, Opaque
<1>. QED  BY <1>3, <1>4 DEF Opaque

(* What the manifest holds of a chunk is two bytes. *)
LEMMA EntryInRange ==
  ASSUME volume \in Volumes, NEW b \in Nodes
  PROVE  EntryOf(volume[b]) \in ByteRange
<1>1. volume \in [Nodes -> [state : {"absent", "bad", "data"}, min : 0 .. 255, max : 0 .. 255]]
  BY VolumesAssumption DEF VolumesAssumption
<1>2. volume[b].min \in 0 .. 255 /\ volume[b].max \in 0 .. 255
  BY <1>1
<1>3. Range8(volume[b]) \in ByteRange /\ Opaque \in ByteRange
  BY <1>2 DEF Range8, Opaque, ByteRange
<1>4. [min |-> Fill, max |-> Fill] \in ByteRange
  BY ScanAssumption DEF ScanAssumption, ByteRange
<1>. QED  BY <1>3, <1>4, Zenon DEF EntryOf

(* What is read of the file, at any time, is sound. *)
LEMMA FileIsSound ==
  ASSUME NEW q, q.manifest = Parse(file), q.threshold \in Thresholds,
         q.view \in Views, Started
  PROVE  Sound(q, volume)
<1> DEFINE t == q.threshold
           m == q.manifest
<1>1. volume \in Volumes /\ level \in 0 .. LevelCount /\ LevelCount \in Nat
  BY PlannerAssumption DEF Started, PlannerAssumption
<1>2. t \in 0 .. 255
  BY ScanAssumption DEF ScanAssumption
<1>3. /\ file.announced = LevelCount
      /\ file.levels = [i \in 1 .. level |-> LevelOfVolume(i - 1)]
  BY DEF Started, FileWhole
<1>4. file.levels \in Seq({LevelOfVolume(l) : l \in NodeLevels}) /\ Len(file.levels) = level
  <2>1. \A i \in 1 .. level : i - 1 \in NodeLevels
    BY <1>1 DEF NodeLevels
  <2>2. \A i \in 1 .. level : LevelOfVolume(i - 1) \in {LevelOfVolume(l) : l \in NodeLevels}
    BY <2>1
  <2>. QED  BY <1>1, <1>3, <2>2
<1>5. m = IF level < LevelCount THEN <<>> ELSE file.levels
  BY <1>3, <1>4 DEF Parse
<1>6. ASSUME NEW b \in Nodes, Pruned(m, t, b) PROVE ~CouldShow(volume[b], t)
  <2>1. b = <<b[1], b[2]>> /\ b[1] \in NodeLevels /\ b[2] \in 0 .. GridDims(b[1]) - 1
    BY NodePair
  <2>2. CASE level < LevelCount
    <3>1. m = <<>>
      BY <1>5, <2>2
    <3>2. ~HasLevel(m, b[1])
      BY <2>1, <3>1 DEF HasLevel, NodeLevels
    <3>. QED  BY <1>6, <3>2 DEF Pruned
  <2>3. CASE ~(level < LevelCount)
    <3>1. m = file.levels
      BY <1>5, <2>3
    <3>2. b[1] + 1 \in 1 .. level /\ (b[1] + 1) - 1 = b[1]
      BY <1>1, <2>1, <2>3 DEF NodeLevels
    <3>3. m[b[1] + 1] = LevelOfVolume(b[1])
      BY <1>3, <3>1, <3>2
    <3>4. RangeOf(m, b) = EntryOf(volume[b])
      BY <2>1, <3>3 DEF RangeOf, LevelOfVolume
    <3>5. EntryOf(volume[b]).max <= t
      BY <1>6, <3>4 DEF Pruned, Invisible
    <3>6. Range8(volume[b]).max \in 0 .. 255 /\ Opaque.max = 255
      BY <1>1, <1>2, VolumeIs
    <3>7. CASE volume[b] = Absent
      BY <3>7 DEF CouldShow
    <3>8. CASE volume[b] # Absent /\ scan
      <4>1. EntryOf(volume[b]) = Range8(volume[b])
        BY <3>8 DEF EntryOf
      <4>2. Range8(volume[b]).max <= t
        BY <3>5, <4>1, Zenon
      <4>3. ~(Range8(volume[b]).max > t)
        <5> DEFINE greatest == Range8(volume[b]).max
        <5>1. greatest \in 0 .. 255 /\ greatest <= t
          BY <3>6, <4>2
        <5> HIDE DEF greatest, t
        <5>2. ~(greatest > t)
          BY <1>2, <5>1
        <5>. QED  BY <5>2 DEF greatest
      <4>. QED  BY <4>3, Zenon DEF CouldShow
    <3>9. CASE volume[b] # Absent /\ ~scan
      <4>1. EntryOf(volume[b]) = Opaque
        BY <3>9 DEF EntryOf
      <4>. QED  BY <1>2, <3>5, <3>6, <4>1 DEF CouldShow
    <3>. QED  BY <3>7, <3>8, <3>9
  <2>. QED  BY <2>2, <2>3
<1>7. q.view.voxels \subseteq Nat
  BY ScanAssumption, PlannerAssumption DEF ScanAssumption, PlannerAssumption
<1>8. \A a \in Nodes : \A b \in Children(a) :
        CouldShow(volume[b], t) => CouldShow(volume[a], t)
  BY <1>1, VolumesAssumption DEF VolumesAssumption
<1>. QED  BY <1>6, <1>7, <1>8 DEF Sound

(* A scan that begins a level has everything before it. *)
LEMMA BeginIs ==
  ASSUME NEW l \in 0 .. LevelCount, Begin(l), volume' \in Volumes
  PROVE  IF level' < LevelCount THEN RowsAccounted' ELSE AtRest'
<1>1. LevelCount \in Nat /\ level' = l
  BY PlannerAssumption DEF Begin, PlannerAssumption
<1>2. CASE l < LevelCount
  <2> DEFINE G == GridDims(l)
  <2>1. l \in NodeLevels
    BY <1>1, <1>2 DEF NodeLevels
  <2>2. G \in Nat /\ G > 0
    BY <2>1, LevelTyped
  <2>3. /\ nextZ' = 0
        /\ running' = Cardinality(ScanWorkers)
        /\ scanner' = [w \in ScanWorkers |-> Looping]
        /\ data' = [z \in 0 .. G - 1 |-> [min |-> 0, max |-> 0]]
    BY <1>2 DEF Begin
  <2>4. GridDims(level') = G
    BY <1>1
  <2> HIDE DEF G
  <2>5. Looping # Done
    BY DEF Looping, Done
  <2>6. {w \in ScanWorkers : scanner'[w] # Done} = ScanWorkers
    BY <2>3, <2>5
  <2>7. 0 \in 0 .. G /\ 0 .. 0 - 1 = {}
    BY <2>2
  <2>8. scanner' \in [ScanWorkers -> {Looping, Done} \cup (0 .. G - 1)]
        /\ \A w \in ScanWorkers : scanner'[w] # Done
    BY <2>3, <2>5
  <2>9. data' \in [0 .. G - 1 -> ByteRange]
    BY <2>3 DEF ByteRange
  <2>10. RowsAccounted'
    BY <2>3, <2>4, <2>6, <2>7, <2>8, <2>9 DEF RowsAccounted
  <2>. QED  BY <1>1, <1>2, <2>10
<1>3. CASE ~(l < LevelCount)
  BY <1>1, <1>3 DEF Begin, AtRest
<1>. QED  BY <1>2, <1>3

(* A scan starts. *)
LEMMA ScanStarts ==
  ASSUME ScanInv, StartScan
  PROVE  IF volume' = NoVolume THEN Unstarted' /\ ~plan'.made ELSE Started'
<1>1. volume' \in Volumes /\ Begin(0) /\ level' = 0
      /\ file' = [announced |-> LevelCount, levels |-> <<>>]
  BY DEF StartScan, Begin
<1>2. 0 \in 0 .. LevelCount
  BY PlannerAssumption DEF PlannerAssumption
<1>3. volume' # NoVolume
  BY <1>1, VolumeIs
<1>4. FileWhole'
  <2>1. [i \in 1 .. 0 |-> LevelOfVolume(i - 1)'] = <<>>
    OBVIOUS
  <2>. QED  BY <1>1, <2>1 DEF FileWhole
<1>5. IF level' < LevelCount THEN RowsAccounted' ELSE AtRest'
  BY <1>1, <1>2, BeginIs
<1>. QED  BY <1>1, <1>2, <1>3, <1>4, <1>5 DEF Started

(* Nothing that matters to the levels changes. *)
LEMMA LevelsStay ==
  ASSUME volume' = volume, scan' = scan
  PROVE  \A l : LevelOfVolume(l)' = LevelOfVolume(l)
BY DEF LevelOfVolume, EntryOf

(* A level is written when its last worker has finished: then it is whole.   *)
LEMMA LevelWritten ==
  ASSUME ScanInv, WriteLevel
  PROVE  IF volume' = NoVolume THEN Unstarted' /\ ~plan'.made ELSE Started'
<1>1. Started /\ level < LevelCount /\ RowsAccounted /\ running = 0
      /\ volume' = volume /\ scan' = scan
  BY DEF ScanInv, WriteLevel, Started
<1>2. level \in NodeLevels /\ level + 1 \in 0 .. LevelCount /\ level \in Nat
  BY <1>1, PlannerAssumption DEF Started, NodeLevels, PlannerAssumption
<1> DEFINE G == GridDims(level)
           A == {w \in ScanWorkers : scanner[w] # Done}
<1>3. G \in Nat
  BY <1>2, LevelTyped
<1>4. A = {}
  <2>1. IsFiniteSet(ScanWorkers) /\ A \in SUBSET ScanWorkers
    BY ScanAssumption DEF ScanAssumption
  <2>2. IsFiniteSet(A) /\ Cardinality(A) = 0
    BY <1>1, <2>1, FS_Subset DEF RowsAccounted
  <2>. QED  BY <2>2, FS_EmptySet
<1>5. \A w \in ScanWorkers : scanner[w] = Done
  BY <1>4
<1>6. nextZ = G
  <2>1. nextZ >= G
    BY <1>1, <1>5, ScanAssumption DEF RowsAccounted, ScanAssumption
  <2>. QED  BY <1>1, <1>3, <2>1 DEF RowsAccounted
<1>7. data = LevelOfVolume(level)
  <2>1. \A w \in ScanWorkers : scanner[w] \notin 0 .. G - 1
    BY <1>5 DEF Done
  <2>2. \A z \in 0 .. G - 1 : data[z] = EntryOf(volume[<<level, z>>])
    BY <1>1, <1>6, <2>1, Zenon DEF RowsAccounted
  <2>3. data = [z \in 0 .. G - 1 |-> data[z]]
    BY <1>1 DEF RowsAccounted
  <2>. QED  BY <2>2, <2>3, Zenon DEF LevelOfVolume
<1>8. FileWhole'
  <2> DEFINE s == [i \in 1 .. level |-> LevelOfVolume(i - 1)]
             u == [i \in 1 .. level + 1 |-> LevelOfVolume(i - 1)]
             S == {LevelOfVolume(l) : l \in 0 .. level}
  <2>1. \A i \in 1 .. level + 1 : i - 1 \in 0 .. level
    BY <1>2
  <2>2. \A i \in 1 .. level + 1 : LevelOfVolume(i - 1) \in S
    BY <2>1
  <2>12. level + 1 \in Nat /\ \A i \in 1 .. level : i \in 1 .. level + 1
    BY <1>2
  <2> HIDE DEF S
  <2>3. s \in Seq(S) /\ Len(s) = level /\ u \in Seq(S) /\ Len(u) = level + 1
    BY <1>2, <2>2, <2>12
  <2>4. data \in S
    BY <1>2, <1>7 DEF S
  <2>5. \A i \in 1 .. level : s[i] = u[i]
    BY <1>2
  <2>6. u[level + 1] = data
    <3>1. level + 1 \in 1 .. level + 1 /\ (level + 1) - 1 = level
      BY <1>2
    <3>. QED  BY <1>7, <3>1
  <2> HIDE DEF s, u
  <2>7. Append(s, data) = u
    <3>1. /\ Append(s, data) \in Seq(S)
          /\ Len(Append(s, data)) = level + 1
          /\ \A i \in 1 .. level : Append(s, data)[i] = s[i]
          /\ Append(s, data)[level + 1] = data
      BY <2>3, <2>4, AppendProperties
    <3>2. \A i \in 1 .. level + 1 : i \in 1 .. level \/ i = level + 1
      BY <1>2
    <3>3. \A i \in 1 .. level + 1 : Append(s, data)[i] = u[i]
      BY <2>5, <2>6, <3>1, <3>2
    <3>. QED  BY <2>3, <3>1, <3>3, SeqEqual
  <2>8. file = [announced |-> LevelCount, levels |-> s]
    BY <1>1 DEF Started, FileWhole, s
  <2>9. file' = [announced |-> LevelCount, levels |-> u]
    BY <2>7, <2>8 DEF WriteLevel
  <2>10. level' = level + 1 /\ \A l : LevelOfVolume(l)' = LevelOfVolume(l)
    BY <1>1, LevelsStay DEF WriteLevel, Begin
  <2>11. [i \in 1 .. level' |-> LevelOfVolume(i - 1)'] = u
    BY <2>10, Zenon DEF u
  <2>. QED  BY <2>9, <2>11, Zenon DEF FileWhole
<1>9. volume' \in Volumes /\ Begin(level + 1) /\ level' = level + 1
  BY <1>1 DEF Started, WriteLevel, Begin
<1>10. IF level' < LevelCount THEN RowsAccounted' ELSE AtRest'
  BY <1>2, <1>9, BeginIs
<1>11. volume' # NoVolume
  BY <1>9, VolumeIs
<1>. QED  BY <1>2, <1>8, <1>9, <1>10, <1>11 DEF Started

(* A worker's steps: it takes a row, writes what it found there, or finds no *)
(* row left.                                                                 *)
LEMMA WorkersAccount ==
  ASSUME Started, volume # NoVolume, NEW w \in ScanWorkers,
         TakeRow(w) \/ ScanRow(w) \/ FinishJob(w)
  PROVE  level < LevelCount /\ RowsAccounted'
<1> DEFINE G == GridDims(level)
           At(s) == {v \in ScanWorkers : s[v] # Done}
           Datum(z) == EntryOf(volume[<<level, z>>])
<1>0. volume' = volume /\ scan' = scan /\ level' = level
  BY DEF TakeRow, ScanRow, FinishJob
<1>1. level < LevelCount /\ RowsAccounted
  <2>1. ASSUME AtRest PROVE FALSE
    <3>1. scanner[w] = Done /\ DOMAIN data = {}
      BY <2>1 DEF AtRest
    <3>. QED  BY <3>1 DEF TakeRow, ScanRow, FinishJob, Done, Looping
  <2>. QED  BY <2>1 DEF Started
<1>2. level \in NodeLevels
  BY <1>1, PlannerAssumption DEF Started, NodeLevels, PlannerAssumption
<1>3. G \in Nat
  BY <1>2, LevelTyped
<1>4. Looping # Done /\ Looping \notin 0 .. G - 1 /\ Done \notin 0 .. G - 1
  BY DEF Looping, Done
<1>5. /\ GridDims(level') = G
      /\ \A z : EntryOf(volume[<<level, z>>])' = Datum(z)
  BY <1>0 DEF EntryOf
<1>6. /\ scanner \in [ScanWorkers -> {Looping, Done} \cup (0 .. G - 1)]
      /\ nextZ \in 0 .. G
      /\ running = Cardinality(At(scanner))
      /\ \A v \in ScanWorkers : scanner[v] = Done => nextZ >= G
      /\ data \in [0 .. G - 1 -> ByteRange]
      /\ \A z \in 0 .. nextZ - 1 :
           data[z] = Datum(z) \/ \E v \in ScanWorkers : scanner[v] = z
  BY <1>1 DEF RowsAccounted
<1> HIDE DEF G, Datum, At
<1> DEFINE Goal ==
      /\ scanner' \in [ScanWorkers -> {Looping, Done} \cup (0 .. G - 1)]
      /\ nextZ' \in 0 .. G
      /\ running' = Cardinality(At(scanner'))
      /\ \A v \in ScanWorkers : scanner'[v] = Done => nextZ' >= G
      /\ data' \in [0 .. G - 1 -> ByteRange]
      /\ \A z \in 0 .. nextZ' - 1 :
           data'[z] = Datum(z) \/ \E v \in ScanWorkers : scanner'[v] = z
<1>7. ASSUME TakeRow(w) PROVE Goal
  <2>1. /\ scanner[w] = Looping /\ nextZ < G /\ nextZ' = nextZ + 1
        /\ scanner' = [scanner EXCEPT ![w] = nextZ]
        /\ running' = running /\ data' = data
    BY <1>7 DEF TakeRow, G
  <2>2. nextZ \in 0 .. G - 1 /\ nextZ' \in 0 .. G
    BY <1>3, <1>6, <2>1
  <2>3. /\ scanner' \in [ScanWorkers -> {Looping, Done} \cup (0 .. G - 1)]
        /\ \A v \in ScanWorkers : scanner'[v] = IF v = w THEN nextZ ELSE scanner[v]
    BY <1>6, <2>1, <2>2
  <2>4. \A v \in ScanWorkers : scanner'[v] # Done <=> scanner[v] # Done
    BY <1>4, <2>1, <2>2, <2>3
  <2>5. At(scanner') = At(scanner)
    BY <2>4 DEF At
  <2>6. \A v \in ScanWorkers : scanner'[v] = Done => nextZ' >= G
    BY <1>3, <1>6, <2>1, <2>4
  <2>7. ASSUME NEW z \in 0 .. nextZ' - 1
        PROVE  data'[z] = Datum(z) \/ \E v \in ScanWorkers : scanner'[v] = z
    <3>1. CASE z = nextZ
      BY <2>3, <3>1
    <3>2. CASE z # nextZ
      <4>1. z \in 0 .. nextZ - 1
        BY <2>1, <2>2, <2>7, <3>2
      <4>2. data[z] = Datum(z) \/ \E v \in ScanWorkers : scanner[v] = z
        BY <1>6, <4>1
      <4>3. \A v \in ScanWorkers : scanner[v] = z => scanner'[v] = z
        <5>1. Looping # z
          BY <4>1 DEF Looping
        <5>. QED  BY <2>1, <2>3, <5>1
      <4>. QED  BY <2>1, <4>2, <4>3
    <3>. QED  BY <3>1, <3>2
  <2>. QED  BY <1>6, <2>1, <2>2, <2>3, <2>5, <2>6, <2>7
<1>8. ASSUME ScanRow(w) PROVE Goal
  <2>1. /\ scanner[w] \in 0 .. G - 1
        /\ data' = [data EXCEPT ![scanner[w]] = Datum(scanner[w])]
        /\ scanner' = [scanner EXCEPT ![w] = Looping]
        /\ running' = running /\ nextZ' = nextZ
    BY <1>6, <1>8 DEF ScanRow, Datum
  <2>2. /\ scanner' \in [ScanWorkers -> {Looping, Done} \cup (0 .. G - 1)]
        /\ \A v \in ScanWorkers : scanner'[v] = IF v = w THEN Looping ELSE scanner[v]
    BY <1>6, <2>1
  <2>3. \A v \in ScanWorkers : scanner'[v] # Done <=> scanner[v] # Done
    BY <1>4, <2>1, <2>2
  <2>4. At(scanner') = At(scanner)
    BY <2>3 DEF At
  <2>5. /\ DOMAIN data' = 0 .. G - 1
        /\ \A z \in 0 .. G - 1 : data'[z] = IF z = scanner[w] THEN Datum(z) ELSE data[z]
    BY <1>6, <2>1
  <2>6. data' \in [0 .. G - 1 -> ByteRange]
    <3>1. Datum(scanner[w]) \in ByteRange
      <4>1. <<level, scanner[w]>> \in Nodes
        BY <1>2, <2>1, NodeIs DEF G
      <4>2. volume \in Volumes
        BY DEF Started
      <4>. QED  BY <4>1, <4>2, EntryInRange DEF Datum
    <3>. QED  BY <1>6, <2>1, <3>1
  <2>7. ASSUME NEW z \in 0 .. nextZ' - 1
        PROVE  data'[z] = Datum(z) \/ \E v \in ScanWorkers : scanner'[v] = z
    <3>1. z \in 0 .. nextZ - 1 /\ z \in 0 .. G - 1
      BY <1>3, <1>6, <2>1, <2>7
    <3>2. CASE z = scanner[w]
      BY <2>5, <3>1, <3>2
    <3>3. CASE z # scanner[w]
      BY <1>6, <2>2, <2>5, <3>1, <3>3
    <3>. QED  BY <3>2, <3>3
  <2>. QED  BY <1>6, <2>1, <2>2, <2>3, <2>4, <2>6, <2>7
<1>9. ASSUME FinishJob(w) PROVE Goal
  <2>1. /\ scanner[w] = Looping /\ nextZ >= G /\ running' = running - 1
        /\ scanner' = [scanner EXCEPT ![w] = Done]
        /\ nextZ' = nextZ /\ data' = data
    BY <1>9 DEF FinishJob, OneLess, G
  <2>2. /\ scanner' \in [ScanWorkers -> {Looping, Done} \cup (0 .. G - 1)]
        /\ \A v \in ScanWorkers : scanner'[v] = IF v = w THEN Done ELSE scanner[v]
    BY <1>6, <2>1
  <2>3. At(scanner') = At(scanner) \ {w} /\ w \in At(scanner)
    BY <1>4, <2>1, <2>2 DEF At
  <2>4. running' = Cardinality(At(scanner'))
    <3>1. IsFiniteSet(At(scanner))
      BY ScanAssumption, FS_Subset DEF ScanAssumption, At
    <3>. QED  BY <1>6, <2>1, <2>3, <3>1, FS_RemoveElement
  <2>5. ASSUME NEW z \in 0 .. nextZ' - 1
        PROVE  data'[z] = Datum(z) \/ \E v \in ScanWorkers : scanner'[v] = z
    <3>1. z \in 0 .. nextZ - 1 /\ Looping # z
      BY <2>1, <2>5 DEF Looping
    <3>. QED  BY <1>6, <2>1, <2>2, <3>1
  <2>. QED  BY <1>6, <2>1, <2>2, <2>4, <2>5
<1>10. Goal
  BY <1>7, <1>8, <1>9
<1>11. RowsAccounted'
  BY <1>5, <1>10 DEF RowsAccounted, At
<1>. QED  BY <1>1, <1>11

(* A row worked on leaves the file as it is. *)
LEMMA RowWorked ==
  ASSUME ScanInv, NEW w \in ScanWorkers, TakeRow(w) \/ ScanRow(w) \/ FinishJob(w)
  PROVE  IF volume' = NoVolume THEN Unstarted' /\ ~plan'.made ELSE Started'
<1>1. volume' = volume /\ scan' = scan /\ level' = level /\ file' = file
  BY DEF TakeRow, ScanRow, FinishJob
<1>2. volume # NoVolume
  <2>1. ASSUME AtRest PROVE FALSE
    <3>1. scanner[w] = Done /\ DOMAIN data = {}
      BY <2>1 DEF AtRest
    <3>. QED  BY <3>1 DEF TakeRow, ScanRow, FinishJob, Done, Looping
  <2>. QED  BY <2>1 DEF ScanInv, Unstarted
<1>3. Started
  BY <1>2 DEF ScanInv
<1>4. level < LevelCount /\ RowsAccounted'
  BY <1>2, <1>3, WorkersAccount
<1>5. FileWhole'
  <2>1. \A l : LevelOfVolume(l)' = LevelOfVolume(l)
    BY <1>1, LevelsStay
  <2>2. FileWhole
    BY <1>3 DEF Started
  <2>. QED  BY <1>1, <2>1, <2>2, Zenon DEF FileWhole
<1>. QED  BY <1>1, <1>2, <1>3, <1>4, <1>5 DEF Started

(* The plan made. *)
LEMMA PlanMade ==
  ASSUME ScanInv, PlanWith
  PROVE  ScanInv'
<1>1. /\ <<volume, scan, level, nextZ, running, scanner, data, file>>' =
            <<volume, scan, level, nextZ, running, scanner, data, file>>
      /\ file # NoFile /\ Started /\ volume # NoVolume
  BY DEF PlanWith, ScanInv, Unstarted
<1>2. PICK q \in [view : Views, manifest : {Parse(file)}, threshold : Thresholds,
                  resident : Residents, cap : Caps] :
        plan' = [made |-> TRUE, query |-> q, result |-> MakePlan(q)]
  BY DEF PlanWith
<1>3. /\ q.manifest = Parse(file) /\ q.threshold \in Thresholds /\ q.view \in Views
      /\ q.cap \in Nat
  BY ScanAssumption DEF ScanAssumption
<1>4. Complete(q, MakePlan(q), volume)
  BY <1>1, <1>3, FileIsSound, PlanIsComplete
<1>5. PlanLosesNothing'
  <2>1. plan'.made /\ plan'.query = q /\ plan'.result = MakePlan(q)
    BY <1>2
  <2>2. volume' = volume
    BY <1>1
  <2>. QED  BY <1>4, <2>1, <2>2 DEF PlanLosesNothing, Complete, Wanted
<1>6. Started'
  <2>1. FileWhole'
    <3>1. FileWhole /\ \A l : LevelOfVolume(l)' = LevelOfVolume(l)
      BY <1>1, LevelsStay DEF Started
    <3>. QED  BY <1>1, <3>1, Zenon DEF FileWhole
  <2>2. RowsAccounted => RowsAccounted'
    BY <1>1 DEF RowsAccounted, EntryOf
  <2>3. AtRest => AtRest'
    BY <1>1 DEF AtRest
  <2>. QED  BY <1>1, <2>1, <2>2, <2>3 DEF Started
<1>7. scan' \in BOOLEAN /\ plan'.made \in BOOLEAN
  BY <1>1, <1>2 DEF ScanInv
<1>. QED  BY <1>1, <1>5, <1>6, <1>7 DEF ScanInv

(* Every step keeps the invariant. *)
LEMMA ScanSteps == ScanInv /\ [ScanNext]_scanVars => ScanInv'
<1> SUFFICES ASSUME ScanInv, [ScanNext]_scanVars PROVE ScanInv'
  OBVIOUS
<1>1. CASE PlanWith
  BY <1>1, PlanMade
<1>2. CASE ~plan.made /\ (StartScan \/ WriteLevel
                          \/ \E w \in ScanWorkers : TakeRow(w) \/ ScanRow(w) \/ FinishJob(w))
  <2>1. plan' = plan
    BY <1>2 DEF StartScan, WriteLevel, TakeRow, ScanRow, FinishJob
  <2>2. PlanLosesNothing'
    BY <1>2, <2>1 DEF PlanLosesNothing
  <2>3. IF volume' = NoVolume THEN Unstarted' /\ ~plan'.made ELSE Started'
    BY <1>2, ScanStarts, LevelWritten, RowWorked
  <2>4. scan' \in BOOLEAN
    <3>1. CASE StartScan
      BY <3>1 DEF StartScan
    <3>2. CASE UNCHANGED scan
      BY <3>2 DEF ScanInv
    <3>. QED  BY <1>2, <3>1, <3>2 DEF WriteLevel, TakeRow, ScanRow, FinishJob
  <2>5. plan'.made \in BOOLEAN
    BY <2>1 DEF ScanInv
  <2>. QED  BY <2>2, <2>3, <2>4, <2>5 DEF ScanInv
<1>3. CASE UNCHANGED scanVars
  BY <1>3 DEF scanVars, ScanInv, Unstarted, Started, FileWhole, LevelOfVolume, EntryOf,
              RowsAccounted, AtRest, PlanLosesNothing
<1>. QED  BY <1>1, <1>2, <1>3 DEF ScanNext

(* Before the first scan there is no manifest.                               *)
LEMMA ScanBegins == ScanInit => ScanInv
<1> SUFFICES ASSUME ScanInit PROVE ScanInv
  OBVIOUS
<1>1. ~plan.made /\ plan.made \in BOOLEAN
  BY DEF ScanInit, NoPlan
<1>2. volume = NoVolume /\ Unstarted
  BY DEF ScanInit, Unstarted, AtRest
<1>3. scan \in BOOLEAN
  BY DEF ScanInit
<1>. QED  BY <1>1, <1>2, <1>3 DEF ScanInv, PlanLosesNothing

(* What the scan knows of its rows is what its variables' types are. *)
LEMMA ScanTypes == ScanInv => ScanTypeOK
<1> SUFFICES ASSUME ScanInv PROVE ScanTypeOK
  OBVIOUS
<1>1. LevelCount \in Nat
  BY PlannerAssumption DEF PlannerAssumption
<1>2. IsFiniteSet(ScanWorkers) /\ Cardinality(ScanWorkers) \in Nat
  BY ScanAssumption, FS_CardinalityType DEF ScanAssumption
<1>3. scan \in BOOLEAN /\ plan.made \in BOOLEAN
  BY DEF ScanInv
<1>4. ASSUME AtRest
      PROVE  /\ nextZ \in Nat /\ running \in 0 .. Cardinality(ScanWorkers)
             /\ scanner \in [ScanWorkers -> Nat \cup {Looping, Done}]
             /\ \A z \in DOMAIN data : data[z] \in ByteRange
  BY <1>2, <1>4 DEF AtRest
<1>5. CASE volume = NoVolume
  <2>1. file = NoFile /\ level = 0 /\ AtRest
    BY <1>5 DEF ScanInv, Unstarted
  <2>2. /\ file.announced = 0 /\ file.levels = <<>>
    BY <2>1 DEF NoFile
  <2>. QED  BY <1>1, <1>3, <1>4, <1>5, <2>1, <2>2 DEF ScanTypeOK
<1>6. CASE volume # NoVolume
  <2>1. Started /\ volume \in Volumes /\ level \in 0 .. LevelCount
    BY <1>6 DEF ScanInv, Started
  <2>2. /\ nextZ \in Nat /\ running \in 0 .. Cardinality(ScanWorkers)
        /\ scanner \in [ScanWorkers -> Nat \cup {Looping, Done}]
        /\ \A z \in DOMAIN data : data[z] \in ByteRange
    <3>1. CASE level < LevelCount
      <4>1. RowsAccounted
        BY <2>1, <3>1 DEF Started
      <4>2. GridDims(level) \in Nat
        <5>1. level \in NodeLevels
          BY <1>1, <2>1, <3>1 DEF NodeLevels
        <5>. QED  BY <5>1, LevelTyped
      <4>3. nextZ \in Nat /\ \A z \in DOMAIN data : data[z] \in ByteRange
        BY <4>1, <4>2 DEF RowsAccounted
      <4>4. scanner \in [ScanWorkers -> Nat \cup {Looping, Done}]
        <5>1. 0 .. GridDims(level) - 1 \subseteq Nat
          BY <4>2
        <5>. QED  BY <4>1, <5>1 DEF RowsAccounted
      <4>5. running \in 0 .. Cardinality(ScanWorkers)
        <5> DEFINE A == {w \in ScanWorkers : scanner[w] # Done}
        <5>1. running = Cardinality(A) /\ A \in SUBSET ScanWorkers
          BY <4>1 DEF RowsAccounted
        <5> HIDE DEF A
        <5>2. IsFiniteSet(A) /\ Cardinality(A) <= Cardinality(ScanWorkers)
          BY <1>2, <5>1, FS_Subset
        <5>3. Cardinality(A) \in Nat
          BY <5>2, FS_CardinalityType
        <5>. QED  BY <1>2, <5>1, <5>2, <5>3
      <4>. QED  BY <4>3, <4>4, <4>5
    <3>2. CASE ~(level < LevelCount)
      BY <1>4, <2>1, <3>2 DEF Started
    <3>. QED  BY <3>1, <3>2
  <2>3. /\ file.announced = LevelCount
        /\ file.levels = [i \in 1 .. level |-> LevelOfVolume(i - 1)]
    BY <2>1 DEF Started, FileWhole
  <2>4. ASSUME NEW l \in 1 .. level, NEW z \in DOMAIN LevelOfVolume(l - 1)
        PROVE  LevelOfVolume(l - 1)[z] \in ByteRange
    <3>1. l - 1 \in NodeLevels /\ z \in 0 .. GridDims(l - 1) - 1
      BY <1>1, <2>1, <2>4 DEF NodeLevels, LevelOfVolume
    <3>2. <<l - 1, z>> \in Nodes
      BY <3>1, NodeIs
    <3>3. EntryOf(volume[<<l - 1, z>>]) \in ByteRange
      BY <2>1, <3>2, EntryInRange
    <3>. QED  BY <3>1, <3>3 DEF LevelOfVolume
  <2>5. Len(file.levels) = level
    <3> DEFINE S == {LevelOfVolume(i - 1) : i \in 1 .. level}
    <3>1. level \in Nat /\ \A i \in 1 .. level : LevelOfVolume(i - 1) \in S
      BY <1>1, <2>1
    <3> HIDE DEF S
    <3>. QED  BY <2>3, <3>1
  <2>6. \A l \in DOMAIN file.levels :
          \A z \in DOMAIN file.levels[l] : file.levels[l][z] \in ByteRange
    BY <2>3, <2>4, Zenon
  <2>. QED  BY <1>1, <1>3, <2>1, <2>2, <2>3, <2>5, <2>6 DEF ScanTypeOK
<1>. QED  BY <1>5, <1>6

(* The scan's variables stay in their types: running counts from the workers *)
(* down and never below none, whoever finishes when.                         *)
THEOREM ScanTyped == ScanSpec => []ScanTypeOK
BY ScanBegins, ScanSteps, ScanTypes, PTL DEF ScanSpec

(* Whatever the volume holds, whichever of its chunks do not decode and      *)
(* whenever the manifest is read, a plan (makeWorkingSetPlan) that is not    *)
(* cut off at its cap lists every brick in view that could show and is not   *)
(* resident, and a plan that is cut off lists none without its ancestors.    *)
THEOREM PlansAreLossless == ScanSpec => []PlanLosesNothing
<1>1. ScanSpec => []ScanInv
  BY ScanBegins, ScanSteps, PTL DEF ScanSpec
<1>2. ScanInv => PlanLosesNothing
  BY DEF ScanInv
<1>. QED  BY <1>1, <1>2, PTL

-----------------------------------------------------------------------------
(* The run of all of them. *)

(* A behaviour of the run is one of each component that shares nothing, so   *)
(* that the theorems about the GPU's cache, the manifest and the mask hold   *)
(* of it.                                                                    *)
LEMMA PartsRunEach == PartsSpec => Spec /\ ScanSpec /\ MaskSpec
<1>1. PartsInit => Init /\ ScanInit /\ MaskInit
  BY DEF PartsInit
<1>2. [PartsNext]_partsVars => [Next]_vars /\ [ScanNext]_scanVars /\ [MaskNext]_maskVars
  BY DEF PartsNext, partsVars
<1>. QED  BY <1>1, <1>2, PTL DEF PartsSpec, Spec, ScanSpec, MaskSpec

(* The assemblers and the RAM cache's other callers share the cache: while   *)
(* those callers run, the assemblers' invariant is not kept, but its own is. *)
SharedInv == LruInv /\ AssemblyTypeOK /\ (part # "ram" => SeamInv)

(* Whichever component a step is of, it keeps the shared cache's invariant.  *)
LEMMA SharedSteps ==
  ASSUME SharedInv, [PartsNext]_partsVars
  PROVE  SharedInv'
<1>1. LruInv /\ part' = part
  BY DEF SharedInv, PartsNext, partsVars
<1>2. CASE part = "ram"
  <2>1. LruNext \/ UNCHANGED lruVars
    BY <1>2 DEF PartsNext, RamNext, partsVars, assemblyVars
  <2>2. LruInv'
    BY <1>1, <2>1, LruSteps, LruStutters
  <2>3. AssemblyTypeOK'
    BY <1>2 DEF SharedInv, PartsNext, RamNext, partsVars, assemblyVars, AssemblyTypeOK
  <2>. QED  BY <1>1, <1>2, <2>2, <2>3 DEF SharedInv
<1>3. CASE part # "ram"
  <2>1. SeamInv /\ [AssemblyNext]_assemblyVars
    BY <1>3 DEF SharedInv, PartsNext, partsVars
  <2>2. SeamInv'
    BY <2>1, SeamSteps
  <2>. QED  BY <2>2 DEF SharedInv, SeamInv
<1>. QED  BY <1>2, <1>3

(* Whichever component runs, all five stay in their types, and none of the   *)
(* counters kept by hand wraps (tiles in use, bytesUsed_, pinCount, running).*)
THEOREM CachesTyped == PartsSpec => []PartsTypeOK
<1>1. PartsInit => SharedInv
  BY SeamsStart DEF PartsInit, SharedInv, SeamInv
<1>2. SharedInv /\ [PartsNext]_partsVars => SharedInv'
  BY SharedSteps
<1>3. TypeOK /\ ScanTypeOK /\ MaskTypeOK /\ SharedInv => PartsTypeOK
  BY DEF PartsTypeOK, SharedInv, LruInv
<1>4. PartsSpec => [](TypeOK /\ ScanTypeOK /\ MaskTypeOK)
  BY PartsRunEach, CacheTyped, ScanTyped, MaskTyped, PTL
<1>5. PartsSpec => []SharedInv
  BY <1>1, <1>2, PTL DEF PartsSpec
<1>. QED  BY <1>3, <1>4, <1>5, PTL

=============================================================================

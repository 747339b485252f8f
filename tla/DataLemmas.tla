----------------------------- MODULE DataLemmas ------------------------------
(***************************************************************************)
(* Lemmas about data that the components' proofs share: least elements, what *)
(* a recursive function on an interval computes, step by step, division,     *)
(* maxima, and the sequences that serve as stacks, queues and lists.         *)
(*                                                                         *)
(* A recursive function f[i \in a .. b] is a CHOOSE, of which a proof needs  *)
(* that there is such a function: UpTo says so for a step from one index to  *)
(* the next, Recursion makes it an equation for each index.                  *)
(***************************************************************************)
EXTENDS Integers, Sequences, FiniteSetsExt, SequencesExt, SequenceTheorems,
        WellFoundedInduction, TLAPS

(* A set of naturals that is not empty has a least element.                  *)
LEMMA LeastNatural ==
  ASSUME NEW T \in SUBSET Nat, T # {}
  PROVE  \E m \in T : \A k \in T : m <= k
<1>1. PICK m \in T : \A k \in T : <<k, m>> \notin OpToRel(<, Nat)
  BY WFMin, NatLessThanWellFounded, Zenon
<1>2. \A k \in T : ~(k < m)
  BY <1>1, Zenon DEF OpToRel
<1>3. \A k \in T : m <= k
  BY <1>2
<1> QED BY <1>3

(* Induction up to N, on the set T of what the claim holds for.              *)
LEMMA UpTo ==
  ASSUME NEW N \in Nat, NEW T, 0 \in T, \A i \in 1 .. N : i - 1 \in T => i \in T
  PROVE  \A i \in 0 .. N : i \in T
<1> DEFINE Bad == {i \in 0 .. N : i \notin T}
<1> SUFFICES ASSUME Bad # {} PROVE FALSE
  OBVIOUS
<1>0. Bad \in SUBSET Nat /\ \A i : i \in Bad <=> i \in 0 .. N /\ i \notin T
  OBVIOUS
<1> HIDE DEF Bad
<1>1. PICK m \in Bad : \A k \in Bad : m <= k
  BY <1>0, LeastNatural
<1>2. m # 0 /\ m \in 1 .. N /\ m - 1 \in 0 .. N
  BY <1>0, <1>1
<1>3. m - 1 \in T
  BY <1>0, <1>1, <1>2
<1>. QED  BY <1>0, <1>1, <1>2, <1>3

(* g goes from a through N steps, in S. *)
GoesOn(g, N, S, a, step) ==
  /\ g \in [0 .. N -> S]
  /\ g[0] = a
  /\ \A i \in 1 .. N : g[i] = step[i][g[i - 1]]

(* There is a function on 0..N for each first value and all steps.           *)
LEMMA Recursion ==
  ASSUME NEW N \in Nat, NEW S, NEW a \in S, NEW step \in [1 .. N -> [S -> S]]
  PROVE  \E g : GoesOn(g, N, S, a, step)
<1> DEFINE Right(g, n) == /\ g \in [0 .. n -> S]
                          /\ g[0] = a
                          /\ \A i \in 1 .. n : g[i] = step[i][g[i - 1]]
           T == {n \in 0 .. N : \E g : Right(g, n)}
<1>1. 0 \in T
  <2>1. Right([i \in 0 .. 0 |-> a], 0)
    OBVIOUS
  <2>2. \E g : Right(g, 0)
    BY <2>1, Zenon
  <2>3. 0 \in 0 .. N
    OBVIOUS
  <2>. QED  BY <2>2, <2>3, Zenon
<1>2. ASSUME NEW n \in 1 .. N, n - 1 \in T PROVE n \in T
  <2>1. PICK g : Right(g, n - 1)
    BY <1>2
  <2> DEFINE h == [i \in 0 .. n |-> IF i = n THEN step[n][g[n - 1]] ELSE g[i]]
  <2>2. g[n - 1] \in S /\ step[n][g[n - 1]] \in S
    BY <2>1
  <2>3. h \in [0 .. n -> S] /\ h[0] = a
    BY <2>1, <2>2
  <2>4. \A i \in 0 .. n - 1 : h[i] = g[i]
    OBVIOUS
  <2>5. h[n] = step[n][h[n - 1]]
    BY <2>4
  <2>6. \A i \in 1 .. n - 1 : h[i] = step[i][h[i - 1]]
    BY <2>1, <2>4
  <2> HIDE DEF h
  <2>7. \A i \in 1 .. n : i = n \/ i \in 1 .. n - 1
    OBVIOUS
  <2>8. Right(h, n)
    BY <2>3, <2>5, <2>6, <2>7
  <2>. QED  BY <2>8
<1> HIDE DEF T
<1>3. \A n \in 0 .. N : n \in T
  BY <1>1, <1>2, UpTo
<1>4. N \in T
  BY <1>3
<1>. QED  BY <1>4 DEF T, GoesOn

-----------------------------------------------------------------------------
(* Numbers. *)

(* Products of naturals. *)
LEMMA Monotone ==
  ASSUME NEW a \in Nat, NEW b \in Nat, NEW k \in Nat, a <= b
  PROVE  a * k <= b * k /\ a * k \in Nat
<1>1. PICK d \in Nat : b = a + d
  <2>1. b - a \in Nat /\ b = a + (b - a)
    OBVIOUS
  <2>. QED  BY <2>1
<1>2. b * k = a * k + d * k
  BY <1>1
<1>3. d * k \in Nat /\ a * k \in Nat
  OBVIOUS
<1>. QED  BY <1>2, <1>3

(* What is below a quotient. *)
LEMMA DivIs ==
  ASSUME NEW a \in Nat, NEW k \in Nat \ {0}
  PROVE  /\ a \div k \in Nat
         /\ (a \div k) * k <= a
         /\ a < (a \div k) * k + k
OBVIOUS

(* A quotient is the only number to be one. *)
LEMMA DivUnique ==
  ASSUME NEW a \in Nat, NEW k \in Nat \ {0}, NEW d \in Nat, d * k <= a, a < d * k + k
  PROVE  a \div k = d
<1> DEFINE e == a \div k
<1>1. e \in Nat /\ e * k <= a /\ a < e * k + k
  BY DivIs
<1> HIDE DEF e
<1>2. (d + 1) * k = d * k + k /\ (e + 1) * k = e * k + k /\ d * k \in Nat /\ e * k \in Nat
  BY <1>1
<1>3. CASE d + 1 <= e
  <2>1. (d + 1) * k <= e * k
    BY <1>1, <1>3, Monotone
  <2>. QED  BY <1>1, <1>2, <2>1
<1>4. CASE e + 1 <= d
  <2>1. (e + 1) * k <= d * k
    BY <1>1, <1>4, Monotone
  <2>. QED  BY <1>1, <1>2, <2>1
<1>5. d = e \/ d + 1 <= e \/ e + 1 <= d
  BY <1>1
<1>. QED  BY <1>3, <1>4, <1>5 DEF e

(* The larger of two numbers. *)
LEMMA MaxWith ==
  ASSUME NEW a \in Nat, NEW b \in Nat
  PROVE  Max({a, b}) \in Nat /\ \A x \in Nat : x < Max({a, b}) <=> (x < a \/ x < b)
<1>1. \E m \in {a, b} : \A k \in {a, b} : m >= k
  OBVIOUS
<1>2. Max({a, b}) \in {a, b} /\ \A k \in {a, b} : Max({a, b}) >= k
  BY <1>1, Zenon DEF Max
<1>. QED  BY <1>2

-----------------------------------------------------------------------------
(* Sequences. *)

(* Each element of the sequence is in it once. *)
Once(s) == \A i, j \in DOMAIN s : s[i] = s[j] => i = j

(* Taking the last element off. *)
LEMMA LastOff ==
  ASSUME NEW S, NEW s \in Seq(S), s # <<>>
  PROVE  /\ Last(s) \in S
         /\ Front(s) \in Seq(S)
         /\ ToSet(s) = ToSet(Front(s)) \cup {Last(s)}
         /\ Once(s) => Once(Front(s)) /\ Last(s) \notin ToSet(Front(s))
<1> DEFINE n == Len(s)
           f == Front(s)
<1>1. n \in Nat \ {0} /\ DOMAIN s = 1 .. n /\ \A i \in 1 .. n : s[i] \in S
  BY EmptySeq, LenProperties, ElementOfSeq
<1>2. f = SubSeq(s, 1, n - 1)
  BY DEF Front
<1>3. f \in Seq(S) /\ Len(f) = n - 1 /\ \A i \in 1 .. n - 1 : f[i] = s[i]
  <2>1. \A i \in 1 .. n - 1 : s[i] \in S /\ 1 + i - 1 = i
    BY <1>1
  <2>2. 1 \in Int /\ n - 1 \in Int
    BY <1>1
  <2> HIDE DEF f, n
  <2>. QED  BY <1>1, <1>2, <2>1, <2>2, SubSeqProperties
<1>4. DOMAIN f = 1 .. n - 1
  BY <1>3, LenProperties
<1>5. Last(s) = s[n]
  BY DEF Last
<1> HIDE DEF f, n
<1>6. ToSet(s) = ToSet(f) \cup {s[n]}
  <2>1. \A i : i \in 1 .. n <=> i = n \/ i \in 1 .. n - 1
    BY <1>1
  <2>. QED  BY <1>1, <1>3, <1>4, <2>1 DEF ToSet
<1>7. ASSUME Once(s) PROVE Once(f) /\ s[n] \notin ToSet(f)
  <2>1. \A i \in 1 .. n - 1 : i \in 1 .. n /\ i # n
    BY <1>1
  <2>2. n \in 1 .. n
    BY <1>1
  <2>3. Once(f)
    BY <1>1, <1>3, <1>4, <1>7, <2>1 DEF Once
  <2>4. s[n] \notin ToSet(f)
    BY <1>1, <1>3, <1>4, <1>7, <2>1, <2>2 DEF Once, ToSet
  <2>. QED  BY <2>3, <2>4
<1>. QED  BY <1>1, <1>3, <1>5, <1>6, <1>7 DEF f

(* One sequence after another. *)
LEMMA JoinIs ==
  ASSUME NEW S, NEW s \in Seq(S), NEW t \in Seq(S)
  PROVE  /\ s \o t \in Seq(S)
         /\ ToSet(s \o t) = ToSet(s) \cup ToSet(t)
         /\ Once(s) /\ Once(t) /\ ToSet(s) \cap ToSet(t) = {} => Once(s \o t)
<1> DEFINE u == s \o t
           m == Len(s)
           n == Len(t)
<1>1. m \in Nat /\ n \in Nat /\ DOMAIN s = 1 .. m /\ DOMAIN t = 1 .. n
  BY LenProperties
<1>2. u \in Seq(S) /\ Len(u) = m + n
      /\ \A i \in 1 .. m + n : u[i] = IF i <= m THEN s[i] ELSE t[i - m]
  BY ConcatProperties
<1>3. DOMAIN u = 1 .. m + n
  BY <1>2, LenProperties
<1> HIDE DEF u, m, n
<1>4. /\ \A i \in 1 .. m : i \in 1 .. m + n /\ u[i] = s[i]
      /\ \A j \in 1 .. n : j + m \in 1 .. m + n /\ u[j + m] = t[j]
      /\ \A i \in 1 .. m + n : i \in 1 .. m \/ (i - m \in 1 .. n /\ (i - m) + m = i)
  BY <1>1, <1>2
<1>5. ToSet(u) = ToSet(s) \cup ToSet(t)
  <2>1. ASSUME NEW x \in ToSet(u) PROVE x \in ToSet(s) \cup ToSet(t)
    <3>1. PICK i \in 1 .. m + n : x = u[i]
      BY <1>3, <2>1 DEF ToSet
    <3>2. CASE i \in 1 .. m
      BY <1>1, <1>4, <3>1, <3>2 DEF ToSet
    <3>3. CASE i - m \in 1 .. n /\ (i - m) + m = i
      <4>1. x = t[i - m]
        BY <1>4, <3>1, <3>3
      <4>. QED  BY <1>1, <3>3, <4>1 DEF ToSet
    <3>. QED  BY <1>4, <3>2, <3>3
  <2>2. ToSet(s) \subseteq ToSet(u)
    <3>1. ASSUME NEW i \in 1 .. m PROVE s[i] \in ToSet(u)
      BY <1>3, <1>4 DEF ToSet
    <3>. QED  BY <1>1, <3>1 DEF ToSet
  <2>3. ToSet(t) \subseteq ToSet(u)
    <3>1. ASSUME NEW i \in 1 .. n PROVE t[i] \in ToSet(u)
      BY <1>3, <1>4 DEF ToSet
    <3>. QED  BY <1>1, <3>1 DEF ToSet
  <2>. QED  BY <2>1, <2>2, <2>3
<1>6. ASSUME Once(s), Once(t), ToSet(s) \cap ToSet(t) = {} PROVE Once(u)
  <2>1. ASSUME NEW i \in 1 .. m + n, NEW j \in 1 .. m + n, u[i] = u[j] PROVE i = j
    <3>1. CASE i \in 1 .. m /\ j \in 1 .. m
      BY <1>1, <1>4, <1>6, <2>1, <3>1 DEF Once
    <3>2. CASE i \in 1 .. m /\ j \notin 1 .. m
      <4>1. u[i] \in ToSet(s)
        BY <1>1, <1>4, <3>2 DEF ToSet
      <4>2. u[j] = t[j - m] /\ j - m \in 1 .. n
        BY <1>4, <3>2
      <4>3. u[j] \in ToSet(t)
        BY <1>1, <4>2 DEF ToSet
      <4>. QED  BY <1>6, <2>1, <4>1, <4>3
    <3>3. CASE i \notin 1 .. m /\ j \in 1 .. m
      <4>1. u[j] \in ToSet(s)
        BY <1>1, <1>4, <3>3 DEF ToSet
      <4>2. u[i] = t[i - m] /\ i - m \in 1 .. n
        BY <1>4, <3>3
      <4>3. u[i] \in ToSet(t)
        BY <1>1, <4>2 DEF ToSet
      <4>. QED  BY <1>6, <2>1, <4>1, <4>3
    <3>4. CASE i \notin 1 .. m /\ j \notin 1 .. m
      <4>1. i - m \in 1 .. n /\ j - m \in 1 .. n /\ t[i - m] = t[j - m]
        BY <1>4, <2>1, <3>4
      <4>2. i - m = j - m
        BY <1>1, <1>6, <4>1 DEF Once
      <4>. QED  BY <1>1, <4>2
    <3>. QED  BY <3>1, <3>2, <3>3, <3>4
  <2>. QED  BY <1>3, <2>1 DEF Once
<1>. QED  BY <1>2, <1>5, <1>6 DEF u

(* One more element at the end. *)
LEMMA AppendIs ==
  ASSUME NEW S, NEW s \in Seq(S), NEW e \in S
  PROVE  /\ Append(s, e) \in Seq(S)
         /\ Len(Append(s, e)) = Len(s) + 1 /\ Len(s) \in Nat
         /\ ToSet(Append(s, e)) = ToSet(s) \cup {e}
<1>1. Append(s, e) = s \o <<e>>
  BY AppendIsConcat
<1>2. <<e>> \in Seq(S) /\ ToSet(<<e>>) = {e}
  BY DEF ToSet
<1>3. ToSet(s \o <<e>>) = ToSet(s) \cup {e}
  BY <1>2, JoinIs
<1>. QED  BY <1>1, <1>3, AppendProperties, LenProperties

(* Min returns the least of a set of naturals. *)
LEMMA MinIs ==
  ASSUME NEW T \in SUBSET Nat, T # {}
  PROVE  Min(T) \in T /\ \A k \in T : Min(T) <= k
<1>1. \E m \in T : \A k \in T : m <= k
  BY LeastNatural
<1>. QED  BY <1>1, Zenon DEF Min

(* At most one element.                                                      *)
LEMMA OneIs ==
  ASSUME NEW S, NEW s \in Seq(S), Len(s) <= 1, NEW m \in Nat, NEW t \in Seq(S), Len(t) <= m
  PROVE  t \o s \in Seq(S) /\ Len(t \o s) <= m + 1
<1>1. Len(t) \in Nat /\ Len(s) \in Nat
  BY LenProperties
<1>2. Len(t \o s) = Len(t) + Len(s) /\ t \o s \in Seq(S)
  BY ConcatProperties
<1>. QED  BY <1>1, <1>2

(* A sequence without elements is empty. *)
LEMMA NothingIn ==
  ASSUME NEW S, NEW s \in Seq(S), ToSet(s) = {}
  PROVE  s = <<>>
<1>1. Len(s) \in Nat /\ DOMAIN s = 1 .. Len(s)
  BY LenProperties
<1>2. SUFFICES ASSUME s # <<>> PROVE FALSE
  OBVIOUS
<1>3. Len(s) # 0
  BY <1>2, EmptySeq
<1>4. 1 \in DOMAIN s
  BY <1>1, <1>3
<1>5. s[1] \in ToSet(s)
  BY <1>4 DEF ToSet
<1>. QED  BY <1>5

=============================================================================

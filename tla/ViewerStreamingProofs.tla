------------------------ MODULE ViewerStreamingProofs ------------------------
(***************************************************************************)
(* Proofs about ViewerStreaming, for any volumes, views, caches and queues:  *)
(* when the streaming loop has stopped, all that is in view is shown and     *)
(* nothing is on its way.  And about RayFeedback, through which the frames   *)
(* tell the loop what they lack, for any volume, rays, buffer size and       *)
(* number of frames the GPU is behind: a fence that has signaled always      *)
(* means that no frame still writes its buffer, so the CPU reads retired     *)
(* buffers only.  The two share no state.                                    *)
(***************************************************************************)
EXTENDS ViewerStreaming, RayFeedback, FiniteSetTheorems, SequenceTheorems,
        WellFoundedInduction, TLAPS

Rings == [Bricks -> [Phases -> Nat]]

ViewerTypeOK ==
  /\ scene \in Scenes
  /\ view \subseteq Bricks
  /\ streamingActive \in BOOLEAN
  /\ convergedTicks \in 0..QuietTicks
  /\ main \in Main!Delivery
  /\ overlay \in Overlay!Delivery
  /\ uploadQueue \in Seq(Bricks)
  /\ queuedKeys \subseteq Bricks
  /\ rings \in Rings
  /\ resident \subseteq Bricks
  /\ empty \subseteq Bricks
  /\ ui \in UiState

(* Somebody will look at the queue of each pipeline again.                   *)
PipelinesAwake == Main!Awake(main) /\ Overlay!Awake(overlay)

(* A key is remembered only while the queue or the main ring has something.  *)
KeysAccountedFor ==
  queuedKeys # {} =>
    \/ uploadQueue # <<>>
    \/ \E k \in MainBricks, p \in Phases : rings[k][p] # 0

(* Between a plan and its submit nobody uploads, marks or moves the camera.  *)
PlanHolds ==
  ui.at = "planned" =>
    /\ streamingActive
    /\ ui.missing = (Missing("main") # {})

(* A GPU cache never has more bricks than slots.                             *)
PoolHolds ==
  \A s \in Stacks : Cardinality(resident \cap BricksOf(s)) <= PoolSlots

VInv ==
  /\ ViewerTypeOK
  /\ PipelinesAwake
  /\ KeysAccountedFor
  /\ PlanHolds
  /\ PoolHolds
  /\ IdleIsDone

-----------------------------------------------------------------------------
(* Sums.  The prover's induction theorems cannot be instantiated, but the    *)
(* well-foundedness of the naturals can: what fails, fails for a least one.  *)

(* A set of naturals that is not empty has a least element.                  *)
LEMMA LeastNatural ==
  ASSUME NEW T \in SUBSET Nat, T # {}
  PROVE  \E m \in T : \A k \in T : m <= k
<1>1. PICK m \in T : \A k \in T : <<k, m>> \notin OpToRel(<, Nat)
  BY WFMin, NatLessThanWellFounded, Zenon
<1>2. \A k \in T : ~(k < m)
  BY <1>1, Zenon DEF OpToRel
<1>3. \A k \in T : m <= k
  BY <1>2
<1> QED BY <1>3

Pick(s) == CHOOSE x \in s : TRUE

(* What defines the sum of f over the subsets of S, one element at a time.   *)
Summed(f, S, g) ==
  [s \in SUBSET S |-> IF s = {} THEN 0 ELSE f[Pick(s)] + g[s \ {Pick(s)}]]

Sums(f, S) == CHOOSE g : g = Summed(f, S, g)

(* The sum is the choice of such a g, applied to the whole of S.              *)
LEMMA SumIsSums ==
  ASSUME NEW f, NEW S
  PROVE  SumFunctionOnSet(f, S) = Sums(f, S)[S]
BY Zenon DEF SumFunctionOnSet, FoldFunctionOnSet, MapThenFoldSet, Summed, Sums, Pick

(* A g that is right for the sets of up to n elements.                       *)
SumsUpTo(f, S, g, n) ==
  \A s \in SUBSET S : Cardinality(s) <= n => g[s] = Summed(f, S, g)[s]

(* Taking away the picked element makes a finite set smaller by one.          *)
LEMMA PickSmaller ==
  ASSUME NEW S, IsFiniteSet(S), NEW s \in SUBSET S, s # {}
  PROVE  /\ Pick(s) \in s /\ s \ {Pick(s)} \in SUBSET S
         /\ Cardinality(s) \in Nat \ {0}
         /\ Cardinality(s \ {Pick(s)}) = Cardinality(s) - 1
<1>1. Pick(s) \in s
  BY DEF Pick
<1>2. IsFiniteSet(s)
  BY FS_Subset
<1>3. Cardinality(s) \in Nat /\ Cardinality(s) # 0
  BY <1>2, FS_CardinalityType, FS_EmptySet
<1>4. Cardinality(s \ {Pick(s)}) = Cardinality(s) - 1
  BY <1>1, <1>2, FS_RemoveElement
<1> QED BY <1>1, <1>3, <1>4

(* A g that is right for the empty set.                                       *)
LEMMA SumsStart ==
  ASSUME NEW f, NEW S, IsFiniteSet(S)
  PROVE  \E g : SumsUpTo(f, S, g, 0)
<1> DEFINE g == [s \in SUBSET S |-> 0]
<1>1. ASSUME NEW s \in SUBSET S, Cardinality(s) <= 0 PROVE s = {}
  <2> SUFFICES ASSUME s # {} PROVE FALSE
    OBVIOUS
  <2>1. Cardinality(s) \in Nat \ {0}
    BY PickSmaller
  <2> QED BY <1>1, <2>1
<1>2. SumsUpTo(f, S, g, 0)
  BY <1>1 DEF SumsUpTo, Summed
<1> QED BY <1>2

(* One that is right for sets of up to n elements gives one for n + 1.        *)
LEMMA SumsStep ==
  ASSUME NEW f, NEW S, IsFiniteSet(S), NEW n \in Nat, NEW g, SumsUpTo(f, S, g, n)
  PROVE  SumsUpTo(f, S, Summed(f, S, g), n + 1)
<1> DEFINE h == Summed(f, S, g)
<1>1. ASSUME NEW s \in SUBSET S, Cardinality(s) <= n + 1
      PROVE  h[s] = Summed(f, S, h)[s]
  <2>1. CASE s = {}
    BY <2>1 DEF Summed
  <2>2. CASE s # {}
    <3> DEFINE t == s \ {Pick(s)}
    <3>1. t \in SUBSET S /\ Cardinality(t) <= n
      BY <1>1, <2>2, PickSmaller
    <3>2. g[t] = h[t]
      BY <3>1 DEF SumsUpTo
    <3>3. h[s] = f[Pick(s)] + g[t] /\ Summed(f, S, h)[s] = f[Pick(s)] + h[t]
      BY <2>2 DEF Summed
    <3> QED BY <3>2, <3>3
  <2> QED BY <2>1, <2>2
<1> QED BY <1>1 DEF SumsUpTo

(* So there is one for each n: a least n without one would contradict the step. *)
LEMMA SumsExist ==
  ASSUME NEW f, NEW S, IsFiniteSet(S), NEW n \in Nat
  PROVE  \E g : SumsUpTo(f, S, g, n)
<1> DEFINE Bad == {m \in Nat : ~\E g : SumsUpTo(f, S, g, m)}
<1> SUFFICES ASSUME Bad # {} PROVE FALSE
  OBVIOUS
<1>1. PICK m \in Bad : \A k \in Bad : m <= k
  BY LeastNatural
<1>2. m # 0
  BY SumsStart
<1>3. m - 1 \in Nat /\ m - 1 \notin Bad
  BY <1>1, <1>2
<1>4. PICK g : SumsUpTo(f, S, g, m - 1)
  BY <1>3
<1>5. SumsUpTo(f, S, Summed(f, S, g), m - 1 + 1)
  BY <1>3, <1>4, SumsStep
<1>6. m - 1 + 1 = m
  BY <1>1
<1> QED BY <1>1, <1>5, <1>6

(* So there is one for all subsets, and the choice is one.                    *)
LEMMA SumsIsSummed ==
  ASSUME NEW f, NEW S, IsFiniteSet(S)
  PROVE  Sums(f, S) = Summed(f, S, Sums(f, S))
<1>1. Cardinality(S) \in Nat
  BY FS_CardinalityType
<1>2. PICK g : SumsUpTo(f, S, g, Cardinality(S))
  BY <1>1, SumsExist
<1>3. \A s \in SUBSET S : g[s] = Summed(f, S, g)[s]
  BY <1>2, FS_Subset DEF SumsUpTo
<1> DEFINE h == Summed(f, S, g)
<1>4. \A s \in SUBSET S : h[s] = Summed(f, S, h)[s]
  <2>1. ASSUME NEW s \in SUBSET S PROVE h[s] = Summed(f, S, h)[s]
    <3>1. CASE s = {}
      BY <3>1 DEF Summed
    <3>2. CASE s # {}
      <4>1. s \ {Pick(s)} \in SUBSET S
        OBVIOUS
      <4> QED BY <1>3, <3>2, <4>1 DEF Summed
    <3> QED BY <3>1, <3>2
  <2> QED BY <2>1
<1>5. h = Summed(f, S, h)
  BY <1>4 DEF Summed
<1> QED BY <1>5, Zenon DEF Sums

(* A sum of naturals is a natural, and zero only if all of them are.         *)
LEMMA SumZero ==
  ASSUME NEW f, NEW S, IsFiniteSet(S), \A x \in S : f[x] \in Nat
  PROVE  /\ SumFunctionOnSet(f, S) \in Nat
         /\ SumFunctionOnSet(f, S) = 0 <=> \A x \in S : f[x] = 0
<1> DEFINE g == Sums(f, S)
           Good(s) == g[s] \in Nat /\ (g[s] = 0 <=> \A x \in s : f[x] = 0)
           Bad == {n \in Nat : \E s \in SUBSET S : Cardinality(s) = n /\ ~Good(s)}
<1>1. g = Summed(f, S, g)
  BY SumsIsSummed
<1> HIDE DEF g
<1>2. Bad = {}
  <2> SUFFICES ASSUME Bad # {} PROVE FALSE
    OBVIOUS
  <2>1. PICK n \in Bad : \A k \in Bad : n <= k
    BY LeastNatural
  <2>2. PICK s \in SUBSET S : Cardinality(s) = n /\ ~Good(s)
    BY <2>1
  <2>3. g[s] = IF s = {} THEN 0 ELSE f[Pick(s)] + g[s \ {Pick(s)}]
    BY <1>1 DEF Summed
  <2>4. s # {}
    BY <2>2, <2>3
  <2> DEFINE t == s \ {Pick(s)}
  <2>5. Pick(s) \in s /\ t \in SUBSET S /\ Cardinality(t) = n - 1 /\ n - 1 \in Nat
    BY <2>2, <2>4, PickSmaller
  <2>6. n - 1 \notin Bad
    BY <2>1, <2>5
  <2>7. Good(t)
    BY <2>5, <2>6
  <2>8. g[s] = f[Pick(s)] + g[t] /\ f[Pick(s)] \in Nat
    BY <2>3, <2>4, <2>5
  <2>9. Good(s)
    BY <2>5, <2>7, <2>8
  <2> QED BY <2>2, <2>9
<1>3. Cardinality(S) \in Nat
  BY FS_CardinalityType
<1>4. Good(S)
  BY <1>2, <1>3
<1>5. SumFunctionOnSet(f, S) = g[S]
  BY SumIsSums DEF g
<1> QED BY <1>4, <1>5

-----------------------------------------------------------------------------
(* The rings. *)

(* A ring has finitely many states.                                           *)
LEMMA PhasesFinite == IsFiniteSet(Phases)
<1>1. IsFiniteSet({"waiting"}) /\ IsFiniteSet({"ready"}) /\ IsFiniteSet({"copying"})
  BY FS_Singleton
<1>2. IsFiniteSet({"ready"} \cup {"copying"})
  BY <1>1, FS_Union
<1>3. IsFiniteSet({"waiting"} \cup ({"ready"} \cup {"copying"}))
  BY <1>1, <1>2, FS_Union
<1>4. Phases = {"waiting"} \cup ({"ready"} \cup {"copying"})
  BY DEF Phases, InSlot
<1> QED BY <1>3, <1>4

(* A stack's bricks are bricks, and finitely many.                            *)
LEMMA StackBricks ==
  ASSUME NEW s \in Stacks
  PROVE  BricksOf(s) \subseteq Bricks /\ IsFiniteSet(BricksOf(s))
<1>1. BricksOf(s) \subseteq Bricks
  BY DEF BricksOf, Bricks
<1> QED BY <1>1, FS_Subset, ViewerAssumption

(* A count of a ring's bricks is a natural, and zero only if it has none.    *)
LEMMA CountZero ==
  ASSUME NEW r \in Rings, NEW s \in Stacks
  PROVE  /\ Count(r, s, Phases) \in Nat
         /\ Count(r, s, Phases) = 0 <=> \A k \in BricksOf(s), p \in Phases : r[k][p] = 0
<1> DEFINE f == [k \in Bricks |-> SumFunctionOnSet(r[k], Phases)]
<1>1. ASSUME NEW k \in Bricks
      PROVE  /\ SumFunctionOnSet(r[k], Phases) \in Nat
             /\ SumFunctionOnSet(r[k], Phases) = 0 <=> \A p \in Phases : r[k][p] = 0
  <2>1. \A p \in Phases : r[k][p] \in Nat
    BY DEF Rings
  <2> QED BY <2>1, SumZero, PhasesFinite
<1>2. \A k \in Bricks : f[k] \in Nat /\ (f[k] = 0 <=> \A p \in Phases : r[k][p] = 0)
  BY <1>1
<1>3. Count(r, s, Phases) = SumFunctionOnSet(f, BricksOf(s))
  BY DEF Count
<1> HIDE DEF f
<1>4. \A k \in BricksOf(s) : f[k] \in Nat
  BY <1>2, StackBricks
<1>5. /\ SumFunctionOnSet(f, BricksOf(s)) \in Nat
      /\ SumFunctionOnSet(f, BricksOf(s)) = 0 <=> \A k \in BricksOf(s) : f[k] = 0
  BY <1>4, StackBricks, SumZero
<1> QED BY <1>2, <1>3, <1>5, StackBricks

With(f, p, n) == [f EXCEPT ![p] = n]

(* What changing one state of a brick leaves of it.                           *)
LEMMA WithAt ==
  ASSUME NEW f \in [Phases -> Nat], NEW p \in Phases, NEW n \in Nat
  PROVE  /\ With(f, p, n) \in [Phases -> Nat]
         /\ \A q \in Phases : With(f, p, n)[q] \in {n, f[q]}
         /\ With(f, p, n)[p] = n
         /\ With(f, p, f[p]) = f
BY DEF With

(* What is known of one brick of a ring.                                      *)
LEMMA RingAt ==
  ASSUME NEW r \in Rings, NEW k \in Bricks
  PROVE  r[k] \in [Phases -> Nat] /\ \A p \in Phases : r[k][p] \in Nat
BY DEF Rings

(* The states by name.                                                        *)
LEMMA PhaseNames == "waiting" \in Phases /\ "ready" \in Phases /\ "copying" \in Phases
BY DEF Phases, InSlot

(* Enqueueing keeps a ring a ring, and the bricks that are not enqueued as they were. *)
LEMMA EnqueuedAt ==
  ASSUME NEW r \in Rings, NEW b \in [Bricks -> Nat]
  PROVE  /\ Enqueued(r, b) \in Rings
         /\ \A k \in Bricks, p \in Phases :
              b[k] = 0 => Enqueued(r, b)[k][p] = r[k][p]
<1>1. ASSUME NEW k \in Bricks
      PROVE  /\ Enqueued(r, b)[k] \in [Phases -> Nat]
             /\ \A p \in Phases : b[k] = 0 => Enqueued(r, b)[k][p] = r[k][p]
  <2> DEFINE n == r[k]["waiting"] + b[k]
             g == Enqueued(r, b)[k]
  <2>1. g = With(r[k], "waiting", n)
    BY DEF Enqueued, With
  <2>2. r[k]["waiting"] \in Nat /\ b[k] \in Nat /\ r[k] \in [Phases -> Nat]
    BY RingAt, PhaseNames
  <2>3. n \in Nat /\ (b[k] = 0 => n = r[k]["waiting"])
    BY <2>2
  <2> HIDE DEF n, g
  <2>4. g \in [Phases -> Nat]
    BY <2>1, <2>2, <2>3, PhaseNames, WithAt, Zenon
  <2>5. n = r[k]["waiting"] => g = r[k]
    <3>1. PICK p \in Phases : p = "waiting"
      BY PhaseNames
    <3>2. r[k]["waiting"] = r[k][p]
      BY <3>1
    <3>3. With(r[k], p, r[k][p]) = r[k]
      BY <2>2, WithAt, Zenon
    <3> QED BY <2>1, <3>1, <3>2, <3>3, Zenon
  <2>6. g \in [Phases -> Nat] /\ \A p \in Phases : b[k] = 0 => g[p] = r[k][p]
    BY <2>3, <2>4, <2>5
  <2> QED BY <2>6 DEF g
<1>2. Enqueued(r, b) \in Rings
  BY <1>1 DEF Enqueued, Rings
<1> QED BY <1>1, <1>2

(* One of each brick of S; none if S is empty.                                *)
LEMMA EachTyped ==
  ASSUME NEW S
  PROVE  /\ Each(S) \in [Bricks -> Nat]
         /\ S = {} => \A k \in Bricks : Each(S)[k] = 0
BY DEF Each

(* A drain keeps a ring a ring, and an empty one empty.                       *)
LEMMA DrainedAt ==
  ASSUME NEW r \in Rings, NEW batch
  PROVE  /\ Drained(r, batch) \in Rings
         /\ batch = {} => \A k \in Bricks, p \in Phases :
                           r[k][p] = 0 => Drained(r, batch)[k][p] = 0
<1>1. ASSUME NEW k \in Bricks
      PROVE  Drained(r, batch)[k] =
                IF k \in batch
                THEN With(With(r[k], "ready", 0), "copying", r[k]["ready"])
                ELSE With(r[k], "copying", 0)
  BY DEF Drained, With
<1>2. ASSUME NEW k \in Bricks
      PROVE  Drained(r, batch)[k] \in [Phases -> Nat]
  <2>1. r[k] \in [Phases -> Nat] /\ r[k]["ready"] \in Nat /\ 0 \in Nat
    BY RingAt, PhaseNames
  <2>2. /\ With(r[k], "ready", 0) \in [Phases -> Nat]
        /\ With(r[k], "copying", 0) \in [Phases -> Nat]
    BY <2>1, PhaseNames, WithAt
  <2>3. With(With(r[k], "ready", 0), "copying", r[k]["ready"]) \in [Phases -> Nat]
    BY <2>1, <2>2, PhaseNames, WithAt
  <2> QED BY <1>1, <2>2, <2>3
<1>3. ASSUME NEW k \in Bricks, NEW p \in Phases, batch = {}, r[k][p] = 0
      PROVE  Drained(r, batch)[k][p] = 0
  <2>1. Drained(r, batch)[k] = With(r[k], "copying", 0)
    BY <1>1, <1>3
  <2>2. r[k] \in [Phases -> Nat] /\ 0 \in Nat
    BY RingAt
  <2>3. With(r[k], "copying", 0)[p] \in {0, r[k][p]}
    BY <2>2, PhaseNames, WithAt
  <2> QED BY <1>3, <2>1, <2>3
<1>4. Drained(r, batch) \in Rings
  BY <1>2 DEF Drained, Rings
<1> QED BY <1>3, <1>4

-----------------------------------------------------------------------------
(* Bounded choices. *)

(* A bounded choice is within its set and its bound.                          *)
LEMMA UpToBounds ==
  ASSUME NEW n \in Int, NEW S, NEW T \in UpTo(n, S)
  PROVE  T \subseteq S /\ Cardinality(T) <= n
<1>1. CASE Cardinality(S) <= n
  BY <1>1 DEF UpTo
<1>2. CASE ~(Cardinality(S) <= n)
  <2>1. T \subseteq S /\ Cardinality(T) = n
    BY <1>2 DEF UpTo
  <2> QED BY <2>1
<1> QED BY <1>1, <1>2

(* A finite set of no elements is empty.                                      *)
LEMMA NoneFinite ==
  ASSUME NEW S, IsFiniteSet(S), Cardinality(S) <= 0
  PROVE  S = {}
<1>1. Cardinality(S) \in Nat /\ (Cardinality(S) = 0 <=> S = {})
  BY FS_CardinalityType, FS_EmptySet
<1> QED BY <1>1

(* The first brick of the re-feed queue that is rejected, or one past it.    *)
LEMMA FirstRejectedIn ==
  ASSUME uploadQueue \in Seq(Bricks), NEW r
  PROVE  FirstRejected(r) \in 1 .. Len(uploadQueue) + 1
<1> DEFINE n == Len(uploadQueue)
           T == {i \in 1 .. n + 1 : i <= n => Rejected(r, i)}
<1>1. n \in Nat
  BY LenProperties
<1>2. T \subseteq Nat /\ n + 1 \in T
  BY <1>1
<1>3. PICK m \in T : \A k \in T : m <= k
  BY <1>2, LeastNatural, Zenon
<1>4. \A j \in 1 .. m - 1 : ~Rejected(r, j)
  <2>1. ASSUME NEW j \in 1 .. m - 1, Rejected(r, j) PROVE FALSE
    <3>1. j \in T
      BY <1>1, <2>1
    <3> QED BY <1>1, <1>3, <3>1
  <2> QED BY <2>1
<1>5. /\ m \in 1 .. n + 1
      /\ m <= n => Rejected(r, m)
  BY <1>3
<1> QED BY <1>4, <1>5, Zenon DEF FirstRejected

(* What an upload evicts and places, within the slots of the cache.          *)
LEMMA PlacementsFit ==
  ASSUME resident \subseteq Bricks, NEW s \in Stacks, PoolHolds, NEW batch,
         NEW p \in Placements(s, batch)
  PROVE  /\ p.gone \subseteq resident \cap BricksOf(s)
         /\ p.placed \subseteq BricksOf(s)
         /\ Cardinality(((resident \cap BricksOf(s)) \ p.gone) \cup p.placed) <= PoolSlots
         /\ batch = {} => p.gone = {} /\ p.placed = {}
<1> DEFINE held == resident \cap BricksOf(s)
           new  == (batch \cap BricksOf(s)) \ held
           free == PoolSlots - Cardinality(held)
<1>1. /\ p.gone \subseteq held \ batch
      /\ p.placed \subseteq new
      /\ p.gone \in UpTo(IF Cardinality(new) > free
                         THEN Cardinality(new) - free ELSE 0, held \ batch)
      /\ p.placed \in UpTo(free + Cardinality(p.gone), new)
  BY DEF Placements
<1>2. IsFiniteSet(held) /\ IsFiniteSet(new) /\ IsFiniteSet(p.gone)
      /\ IsFiniteSet(p.placed) /\ IsFiniteSet(held \ p.gone)
  BY <1>1, StackBricks, FS_Subset
<1>3. /\ Cardinality(held) \in Nat /\ Cardinality(p.gone) \in Nat
      /\ Cardinality(p.placed) \in Nat /\ Cardinality(held \ p.gone) \in Nat
      /\ PoolSlots \in Nat /\ Cardinality(held) <= PoolSlots
  BY <1>2, FS_CardinalityType, ViewerAssumption DEF PoolHolds
<1>4. Cardinality(p.placed) <= free + Cardinality(p.gone)
  BY <1>1, <1>3, UpToBounds
<1>5. Cardinality(held \ p.gone) = Cardinality(held) - Cardinality(p.gone)
  <2>1. held \cap p.gone = p.gone
    BY <1>1
  <2> QED BY <1>2, <2>1, FS_Difference
<1>6. Cardinality((held \ p.gone) \cup p.placed)
        <= Cardinality(held \ p.gone) + Cardinality(p.placed)
  <2>1. /\ Cardinality((held \ p.gone) \cup p.placed) =
             Cardinality(held \ p.gone) + Cardinality(p.placed)
               - Cardinality((held \ p.gone) \cap p.placed)
        /\ Cardinality((held \ p.gone) \cap p.placed) \in Nat
    BY <1>2, FS_Union, FS_Intersection, FS_CardinalityType
  <2> QED BY <1>3, <2>1
<1>7. IsFiniteSet((held \ p.gone) \cup p.placed)
  BY <1>2, FS_Union
<1>8. Cardinality((held \ p.gone) \cup p.placed) \in Nat
  BY <1>7, FS_CardinalityType
<1>9. Cardinality((held \ p.gone) \cup p.placed) <= PoolSlots
  BY <1>3, <1>4, <1>5, <1>6, <1>8
<1>10. batch = {} => p.gone = {} /\ p.placed = {}
  <2> SUFFICES ASSUME batch = {} PROVE p.gone = {} /\ p.placed = {}
    OBVIOUS
  <2>1. new = {} /\ Cardinality(new) = 0
    BY FS_EmptySet
  <2>2. Cardinality(p.gone) <= 0
    BY <1>1, <1>3, <2>1, UpToBounds
  <2> QED BY <1>1, <1>2, <2>1, <2>2, NoneFinite
<1> QED BY <1>1, <1>9, <1>10

-----------------------------------------------------------------------------
(* The pipelines: what BrickDelivery's steps keep, for either volume.        *)

(* A pump of the main pipeline keeps its type, what is held, and what is not wanted. *)
LEMMA MainPump ==
  ASSUME NEW d \in Main!Delivery, NEW e \in Main!Pumped(d)
  PROVE  /\ e \in Main!Delivery /\ Main!Awake(e)
         /\ e.unreleased = d.unreleased
         /\ \A k \in MainBricks : d.stage[k] = "no" => e.stage[k] = "no"
<1> DEFINE fresh == {k \in Main!AtStage(d, "queued") : d.missed[k] < 2}
           stale == Main!AtStage(d, "queued") \ fresh
<1>1. Main!Awake(e)
  BY DEF Main!Pumped
<1>2. PICK S \in [start : SUBSET fresh, drop : SUBSET stale] :
        e = [stage      |-> [k \in MainBricks |-> IF k \in S.start THEN "fetching"
                                            ELSE IF k \in S.drop THEN "no"
                                            ELSE d.stage[k]],
             missed     |-> [k \in MainBricks |-> IF k \in S.start \cup S.drop
                                            THEN 0 ELSE d.missed[k]],
             stopped    |-> d.stopped,
             unreleased |-> d.unreleased]
  BY Zenon DEF Main!Pumped
<1>3. /\ S.start \subseteq Main!AtStage(d, "queued")
      /\ S.drop \subseteq Main!AtStage(d, "queued")
  OBVIOUS
<1>4. /\ d.stage \in [MainBricks -> Main!Stage] /\ d.missed \in [MainBricks -> 0..2]
      /\ d.stopped \subseteq MainBricks /\ d.unreleased \subseteq MainBricks
  BY DEF Main!Delivery
<1>5. e \in Main!Delivery
  BY <1>2, <1>4 DEF Main!Delivery, Main!Stage
<1>6. ASSUME NEW k \in MainBricks, d.stage[k] = "no" PROVE e.stage[k] = "no"
  <2>1. k \notin S.start
    BY <1>3, <1>6 DEF Main!AtStage
  <2> QED BY <1>2, <1>6, <2>1
<1>7. e.unreleased = d.unreleased
  BY <1>2
<1> QED BY <1>1, <1>5, <1>6, <1>7

(* A submit keeps the type of the main pipeline.                              *)
LEMMA MainAskedTyped ==
  ASSUME NEW d \in Main!Delivery, NEW W
  PROVE  Main!Asked(d, W) \in Main!Delivery
<1>1. /\ d.stage \in [MainBricks -> Main!Stage] /\ d.missed \in [MainBricks -> 0..2]
      /\ d.stopped \subseteq MainBricks /\ d.unreleased \subseteq MainBricks
  BY DEF Main!Delivery
<1>2. Main!AtStage(d, "fetching") \subseteq MainBricks
  BY DEF Main!AtStage
<1> QED BY <1>1, <1>2 DEF Main!Delivery, Main!Asked, Main!Stage

(* A brick that is moved on keeps the pipeline awake.                         *)
LEMMA MainMovedTyped ==
  ASSUME NEW d \in Main!Delivery, NEW k \in MainBricks, NEW s \in Main!Stage
  PROVE  /\ Main!Moved(d, k, s) \in Main!Delivery
         /\ s \notin {"no", "queued"} => Main!Awake(Main!Moved(d, k, s))
<1>1. /\ d.stage \in [MainBricks -> Main!Stage] /\ d.missed \in [MainBricks -> 0..2]
      /\ d.stopped \subseteq MainBricks /\ d.unreleased \subseteq MainBricks
  BY DEF Main!Delivery
<1>2. Main!Moved(d, k, s) \in Main!Delivery /\ Main!Moved(d, k, s).stage[k] = s
  BY <1>1 DEF Main!Delivery, Main!Moved
<1>3. s \notin {"no", "queued"} => k \in Main!UnderWay(Main!Moved(d, k, s))
  BY <1>2 DEF Main!UnderWay
<1> QED BY <1>2, <1>3, Zenon DEF Main!Awake

(* A release touches nothing but what is held.                                *)
LEMMA MainReleasedTyped ==
  ASSUME NEW d \in Main!Delivery, NEW S
  PROVE  /\ Main!Released(d, S) \in Main!Delivery
         /\ Main!Released(d, S).unreleased = d.unreleased \ S
         /\ Main!Released(d, S).stage = d.stage
BY DEF Main!Delivery, Main!Released

(* The main pipeline's own steps keep it awake, and need a brick on its way.  *)
LEMMA MainDelivers ==
  ASSUME main \in Main!Delivery, Main!Awake(main), NEW k \in MainBricks,
         \/ Main!Fail(k) \/ Main!Fetched(k)
         \/ Main!Insert(k) \/ Main!Publish(k)
  PROVE  /\ main' \in Main!Delivery /\ Main!Awake(main')
         /\ main.stage[k] # "no"
<1>1. /\ "no" \in Main!Stage /\ "decoding" \in Main!Stage /\ "inserted" \in Main!Stage
  BY DEF Main!Stage
<1>2. CASE Main!Fail(k)
  <2>1. Main!Moved(main, k, "no") \in Main!Delivery
    BY <1>1, MainMovedTyped
  <2>2. main' \in Main!Pumped(Main!Moved(main, k, "no"))
    BY <1>2 DEF Main!Fail
  <2>3. main.stage[k] # "no"
    BY <1>2 DEF Main!Fail
  <2> QED BY <2>1, <2>2, <2>3, MainPump
<1>3. CASE Main!Fetched(k)
  BY <1>1, <1>3, MainMovedTyped DEF Main!Fetched
<1>4. CASE Main!Insert(k)
  BY <1>1, <1>4, MainMovedTyped DEF Main!Insert
<1>5. CASE Main!Publish(k)
  <2> DEFINE d == Main!Moved(main, k, "no")
             e == [d EXCEPT !.unreleased = @ \cup {k}]
  <2>1. d \in Main!Delivery
    BY <1>1, MainMovedTyped
  <2>2. main' \in Main!Pumped(e)
    BY <1>5 DEF Main!Publish
  <2>3. main.stage[k] # "no"
    BY <1>5 DEF Main!Publish
  <2> HIDE DEF d
  <2>4. e \in Main!Delivery
    BY <2>1 DEF Main!Delivery
  <2> HIDE DEF e
  <2> QED BY <2>2, <2>3, <2>4, MainPump
<1> QED BY <1>2, <1>3, <1>4, <1>5

(* A pump of the overlay pipeline keeps its type, what is held, and what is not wanted. *)
LEMMA OverlayPump ==
  ASSUME NEW d \in Overlay!Delivery, NEW e \in Overlay!Pumped(d)
  PROVE  /\ e \in Overlay!Delivery /\ Overlay!Awake(e)
         /\ e.unreleased = d.unreleased
         /\ \A k \in OverlayBricks : d.stage[k] = "no" => e.stage[k] = "no"
<1> DEFINE fresh == {k \in Overlay!AtStage(d, "queued") : d.missed[k] < 2}
           stale == Overlay!AtStage(d, "queued") \ fresh
<1>1. Overlay!Awake(e)
  BY DEF Overlay!Pumped
<1>2. PICK S \in [start : SUBSET fresh, drop : SUBSET stale] :
        e = [stage      |-> [k \in OverlayBricks |-> IF k \in S.start THEN "fetching"
                                            ELSE IF k \in S.drop THEN "no"
                                            ELSE d.stage[k]],
             missed     |-> [k \in OverlayBricks |-> IF k \in S.start \cup S.drop
                                            THEN 0 ELSE d.missed[k]],
             stopped    |-> d.stopped,
             unreleased |-> d.unreleased]
  BY Zenon DEF Overlay!Pumped
<1>3. /\ S.start \subseteq Overlay!AtStage(d, "queued")
      /\ S.drop \subseteq Overlay!AtStage(d, "queued")
  OBVIOUS
<1>4. /\ d.stage \in [OverlayBricks -> Overlay!Stage] /\ d.missed \in [OverlayBricks -> 0..2]
      /\ d.stopped \subseteq OverlayBricks /\ d.unreleased \subseteq OverlayBricks
  BY DEF Overlay!Delivery
<1>5. e \in Overlay!Delivery
  BY <1>2, <1>4 DEF Overlay!Delivery, Overlay!Stage
<1>6. ASSUME NEW k \in OverlayBricks, d.stage[k] = "no" PROVE e.stage[k] = "no"
  <2>1. k \notin S.start
    BY <1>3, <1>6 DEF Overlay!AtStage
  <2> QED BY <1>2, <1>6, <2>1
<1>7. e.unreleased = d.unreleased
  BY <1>2
<1> QED BY <1>1, <1>5, <1>6, <1>7

(* A submit keeps the type of the overlay pipeline.                           *)
LEMMA OverlayAskedTyped ==
  ASSUME NEW d \in Overlay!Delivery, NEW W
  PROVE  Overlay!Asked(d, W) \in Overlay!Delivery
<1>1. /\ d.stage \in [OverlayBricks -> Overlay!Stage] /\ d.missed \in [OverlayBricks -> 0..2]
      /\ d.stopped \subseteq OverlayBricks /\ d.unreleased \subseteq OverlayBricks
  BY DEF Overlay!Delivery
<1>2. Overlay!AtStage(d, "fetching") \subseteq OverlayBricks
  BY DEF Overlay!AtStage
<1> QED BY <1>1, <1>2 DEF Overlay!Delivery, Overlay!Asked, Overlay!Stage

(* A brick that is moved on keeps the pipeline awake.                         *)
LEMMA OverlayMovedTyped ==
  ASSUME NEW d \in Overlay!Delivery, NEW k \in OverlayBricks, NEW s \in Overlay!Stage
  PROVE  /\ Overlay!Moved(d, k, s) \in Overlay!Delivery
         /\ s \notin {"no", "queued"} => Overlay!Awake(Overlay!Moved(d, k, s))
<1>1. /\ d.stage \in [OverlayBricks -> Overlay!Stage] /\ d.missed \in [OverlayBricks -> 0..2]
      /\ d.stopped \subseteq OverlayBricks /\ d.unreleased \subseteq OverlayBricks
  BY DEF Overlay!Delivery
<1>2. Overlay!Moved(d, k, s) \in Overlay!Delivery /\ Overlay!Moved(d, k, s).stage[k] = s
  BY <1>1 DEF Overlay!Delivery, Overlay!Moved
<1>3. s \notin {"no", "queued"} => k \in Overlay!UnderWay(Overlay!Moved(d, k, s))
  BY <1>2 DEF Overlay!UnderWay
<1> QED BY <1>2, <1>3, Zenon DEF Overlay!Awake

(* A release touches nothing but what is held.                                *)
LEMMA OverlayReleasedTyped ==
  ASSUME NEW d \in Overlay!Delivery, NEW S
  PROVE  /\ Overlay!Released(d, S) \in Overlay!Delivery
         /\ Overlay!Released(d, S).unreleased = d.unreleased \ S
         /\ Overlay!Released(d, S).stage = d.stage
BY DEF Overlay!Delivery, Overlay!Released

(* The overlay pipeline's own steps keep it awake, and need a brick on its way. *)
LEMMA OverlayDelivers ==
  ASSUME overlay \in Overlay!Delivery, Overlay!Awake(overlay), NEW k \in OverlayBricks,
         \/ Overlay!Fail(k) \/ Overlay!Fetched(k)
         \/ Overlay!Insert(k) \/ Overlay!Publish(k)
  PROVE  /\ overlay' \in Overlay!Delivery /\ Overlay!Awake(overlay')
         /\ overlay.stage[k] # "no"
<1>1. /\ "no" \in Overlay!Stage /\ "decoding" \in Overlay!Stage /\ "inserted" \in Overlay!Stage
  BY DEF Overlay!Stage
<1>2. CASE Overlay!Fail(k)
  <2>1. Overlay!Moved(overlay, k, "no") \in Overlay!Delivery
    BY <1>1, OverlayMovedTyped
  <2>2. overlay' \in Overlay!Pumped(Overlay!Moved(overlay, k, "no"))
    BY <1>2 DEF Overlay!Fail
  <2>3. overlay.stage[k] # "no"
    BY <1>2 DEF Overlay!Fail
  <2> QED BY <2>1, <2>2, <2>3, OverlayPump
<1>3. CASE Overlay!Fetched(k)
  BY <1>1, <1>3, OverlayMovedTyped DEF Overlay!Fetched
<1>4. CASE Overlay!Insert(k)
  BY <1>1, <1>4, OverlayMovedTyped DEF Overlay!Insert
<1>5. CASE Overlay!Publish(k)
  <2> DEFINE d == Overlay!Moved(overlay, k, "no")
             e == [d EXCEPT !.unreleased = @ \cup {k}]
  <2>1. d \in Overlay!Delivery
    BY <1>1, OverlayMovedTyped
  <2>2. overlay' \in Overlay!Pumped(e)
    BY <1>5 DEF Overlay!Publish
  <2>3. overlay.stage[k] # "no"
    BY <1>5 DEF Overlay!Publish
  <2> HIDE DEF d
  <2>4. e \in Overlay!Delivery
    BY <2>1 DEF Overlay!Delivery
  <2> HIDE DEF e
  <2> QED BY <2>2, <2>3, <2>4, OverlayPump
<1> QED BY <1>2, <1>3, <1>4, <1>5

-----------------------------------------------------------------------------
(* The steps of the loop. *)

(* What the proofs need of the constants' assumption.                         *)
LEMMA LoopConstants ==
  /\ MaxUploadQueue \in Nat \ {0} /\ QuietTicks \in Nat \ {0} /\ PoolSlots \in Nat
  /\ \A c \in Scenes : /\ \A w \in c.views : w \subseteq Bricks
                       /\ c.fill \subseteq Bricks
BY ViewerAssumption

(* What the refill of the upload queue does to the queue and its keys.       *)
LEMMA Refeeds ==
  ASSUME uploadQueue \in Seq(Bricks), queuedKeys \subseteq Bricks,
         NEW missing \in SUBSET Bricks, Refeed(missing)
  PROVE  /\ uploadQueue' \in Seq(Bricks) /\ queuedKeys' \subseteq Bricks
         /\ uploadQueue' = <<>> =>
              /\ uploadQueue = <<>> /\ queuedKeys' = queuedKeys
              /\ missing \cap ram \subseteq queuedKeys
<1> DEFINE room == MaxUploadQueue - Len(uploadQueue)
           new  == (missing \cap ram) \ queuedKeys
<1>1. PICK fed \in UpTo(room, new) :
        /\ queuedKeys' = queuedKeys \cup fed
        /\ \E order \in [1..Cardinality(fed) -> fed] : uploadQueue' = uploadQueue \o order
  BY Zenon DEF Refeed
<1>2. PICK order \in [1..Cardinality(fed) -> fed] : uploadQueue' = uploadQueue \o order
  BY <1>1
<1>3. fed \subseteq new
  BY <1>1 DEF UpTo
<1>4. IsFiniteSet(new) /\ IsFiniteSet(fed)
  BY <1>3, FS_Subset, ViewerAssumption
<1>5. Cardinality(fed) \in Nat /\ Cardinality(new) \in Nat
      /\ (Cardinality(fed) = 0 <=> fed = {})
  BY <1>4, FS_CardinalityType, FS_EmptySet
<1>6. order \in Seq(Bricks) /\ Len(order) = Cardinality(fed)
  <2>1. order \in [1..Cardinality(fed) -> Bricks]
    BY <1>3
  <2>2. order \in Seq(Bricks)
    BY <1>5, <2>1, SeqDef
  <2> QED BY <1>5, <2>1, <2>2, LenProperties
<1>7. /\ uploadQueue' \in Seq(Bricks)
      /\ Len(uploadQueue') = Len(uploadQueue) + Cardinality(fed)
      /\ Len(uploadQueue) \in Nat
  BY <1>2, <1>6, ConcatProperties, LenProperties
<1>8. queuedKeys' \subseteq Bricks
  BY <1>1, <1>3
<1>9. ASSUME uploadQueue' = <<>>
      PROVE  /\ uploadQueue = <<>> /\ queuedKeys' = queuedKeys
             /\ missing \cap ram \subseteq queuedKeys
  <2>1. Len(uploadQueue) = 0 /\ fed = {}
    BY <1>5, <1>7, <1>9, EmptySeq
  <2>2. uploadQueue = <<>>
    BY <2>1, EmptySeq
  <2>3. room \in Nat \ {0}
    BY <2>1, LoopConstants
  <2>4. fed = new
    <3>1. CASE Cardinality(new) <= room
      BY <1>1, <3>1 DEF UpTo
    <3>2. CASE ~(Cardinality(new) <= room)
      <4>1. Cardinality(fed) = room
        BY <1>1, <3>2 DEF UpTo
      <4> QED BY <1>5, <2>1, <2>3, <4>1
    <3> QED BY <3>1, <3>2
  <2> QED BY <1>1, <2>1, <2>2, <2>4
<1> QED BY <1>7, <1>8, <1>9

(* What a stack misses are bricks of that stack.                              *)
LEMMA MissingTyped ==
  ASSUME ViewerTypeOK, NEW s \in Stacks
  PROVE  Missing(s) \subseteq Bricks /\ Missing(s) \subseteq BricksOf(s)
BY StackBricks DEF Missing

(* The loop starts within the invariant.                                      *)
LEMMA InitHolds ==
  ASSUME Init
  PROVE  VInv
<1>1. scene \in Scenes /\ view \subseteq Bricks
  BY LoopConstants DEF Init
<1>2. Main!Nothing \in Main!Delivery
  BY DEF Main!Nothing, Main!Delivery, Main!Stage
<1>3. Overlay!Nothing \in Overlay!Delivery
  BY DEF Overlay!Nothing, Overlay!Delivery, Overlay!Stage
<1>4. main \in Main!Delivery /\ Main!Awake(main)
  BY <1>2, MainAskedTyped, MainPump DEF Init
<1>5. overlay \in Overlay!Delivery /\ Overlay!Awake(overlay)
  BY <1>3, OverlayAskedTyped, OverlayPump DEF Init
<1>6. /\ uploadQueue = <<>> /\ queuedKeys = {} /\ resident = {} /\ empty = {}
      /\ ui = Idle /\ streamingActive = TRUE /\ convergedTicks = 0
      /\ rings = [k \in Bricks |-> [p \in Phases |-> 0]]
  BY DEF Init
<1>7. rings \in Rings
  BY <1>6 DEF Rings
<1>8. Idle \in UiState /\ Idle.at = "idle"
  BY DEF Idle, UiState
<1>9. uploadQueue \in Seq(Bricks)
  BY <1>6, EmptySeq
<1>10. convergedTicks \in 0..QuietTicks
  BY <1>6, LoopConstants
<1>11. ViewerTypeOK
  BY <1>1, <1>4, <1>5, <1>6, <1>7, <1>8, <1>9, <1>10 DEF ViewerTypeOK
<1>12. PoolHolds
  <2>1. \A s \in Stacks : resident \cap BricksOf(s) = {}
    BY <1>6
  <2>2. Cardinality({}) = 0
    BY FS_EmptySet
  <2> QED BY <2>1, <2>2, LoopConstants DEF PoolHolds
<1>13. PipelinesAwake /\ KeysAccountedFor /\ PlanHolds
  BY <1>4, <1>5, <1>6, <1>8 DEF PipelinesAwake, KeysAccountedFor, PlanHolds
<1>14. IdleIsDone
  BY <1>6 DEF IdleIsDone, Stopped
<1> QED BY <1>11, <1>12, <1>13, <1>14 DEF VInv

(* What a step that moves neither brick nor memory leaves as it was.         *)
Untouched ==
  UNCHANGED <<scene, view, main, overlay, uploadQueue, queuedKeys, rings, resident, empty>>

(* Such a step keeps all but what it says of the loop itself.                 *)
LEMMA UntouchedKeeps ==
  ASSUME VInv, Untouched
  PROVE  /\ PipelinesAwake' /\ KeysAccountedFor' /\ PoolHolds'
         /\ streamingActive' = streamingActive => IdleIsDone'
         /\ /\ streamingActive' \in BOOLEAN /\ convergedTicks' \in 0..QuietTicks
            /\ ui' \in UiState
            => ViewerTypeOK'
<1>1. /\ view' = view /\ main' = main /\ overlay' = overlay
      /\ uploadQueue' = uploadQueue /\ queuedKeys' = queuedKeys /\ rings' = rings
      /\ resident' = resident /\ empty' = empty /\ scene' = scene
  BY DEF Untouched
<1>2. PipelinesAwake'
  BY <1>1 DEF VInv, PipelinesAwake
<1>3. KeysAccountedFor'
  BY <1>1 DEF VInv, KeysAccountedFor
<1>4. PoolHolds'
  BY <1>1 DEF VInv, PoolHolds
<1>5. streamingActive' = streamingActive => IdleIsDone'
  BY <1>1 DEF VInv, IdleIsDone, Stopped, Shown, PendingCount
<1>6. /\ streamingActive' \in BOOLEAN /\ convergedTicks' \in 0..QuietTicks
      /\ ui' \in UiState
      => ViewerTypeOK'
  BY <1>1 DEF VInv, ViewerTypeOK
<1> QED BY <1>2, <1>3, <1>4, <1>5, <1>6

(* A move of the camera starts the loop again.                                *)
LEMMA CameraMoves ==
  ASSUME VInv, MoveCamera
  PROVE  VInv'
<1>1. /\ view' \in scene.views /\ streamingActive' = TRUE /\ ui = Idle /\ ui' = ui
      /\ scene' = scene /\ convergedTicks' = convergedTicks
      /\ main' = main /\ overlay' = overlay /\ uploadQueue' = uploadQueue
      /\ queuedKeys' = queuedKeys /\ rings' = rings /\ resident' = resident
      /\ empty' = empty
  BY DEF MoveCamera, queueVars, ringVars, gpuVars
<1>2. view' \subseteq Bricks
  BY <1>1, LoopConstants DEF VInv, ViewerTypeOK
<1>3. ViewerTypeOK'
  BY <1>1, <1>2 DEF VInv, ViewerTypeOK
<1>4. PipelinesAwake' /\ KeysAccountedFor'
  BY <1>1 DEF VInv, PipelinesAwake, KeysAccountedFor
<1>5. PlanHolds'
  BY <1>1 DEF PlanHolds, Idle
<1>6. PoolHolds'
  BY <1>1 DEF VInv, PoolHolds
<1>7. IdleIsDone'
  BY <1>1 DEF IdleIsDone, Stopped
<1> QED BY <1>3, <1>4, <1>5, <1>6, <1>7 DEF VInv

(* A frame that the window system asks for.                                   *)
LEMMA RepaintKeeps ==
  ASSUME VInv, Repaint
  PROVE  VInv'
<1>1. Untouched /\ streamingActive' = streamingActive
      /\ convergedTicks' = convergedTicks /\ ui' = InFrame
  BY DEF Repaint, Untouched, loopVars, cameraVars, queueVars, ringVars, gpuVars
<1>2. InFrame \in UiState /\ InFrame.at = "frame"
  BY DEF InFrame, Idle, UiState
<1>3. PlanHolds'
  BY <1>1, <1>2 DEF PlanHolds
<1>4. streamingActive \in BOOLEAN /\ convergedTicks \in 0..QuietTicks
  BY DEF VInv, ViewerTypeOK
<1>5. streamingActive' \in BOOLEAN /\ convergedTicks' \in 0..QuietTicks /\ ui' \in UiState
  BY <1>1, <1>2, <1>4
<1> QED BY <1>1, <1>3, <1>5, UntouchedKeeps DEF VInv

(* A plan may feed the queue, and is of the present view.                     *)
LEMMA PlanKeeps ==
  ASSUME VInv, Plan
  PROVE  VInv'
<1>1. /\ streamingActive /\ Refeed(Missing("main"))
      /\ ui' = [at |-> "planned", wanted |-> Missing("main") \ ram,
                missing |-> Missing("main") # {}]
      /\ streamingActive' = streamingActive /\ convergedTicks' = convergedTicks
      /\ scene' = scene /\ view' = view /\ main' = main /\ overlay' = overlay
      /\ rings' = rings /\ resident' = resident /\ empty' = empty
  BY DEF Plan, loopVars, cameraVars, ringVars
<1>2. ViewerTypeOK
  BY DEF VInv
<1>3. Missing("main") \subseteq Bricks
  BY <1>2, MissingTyped DEF Stacks
<1>4. /\ uploadQueue' \in Seq(Bricks) /\ queuedKeys' \subseteq Bricks
      /\ uploadQueue' = <<>> => uploadQueue = <<>> /\ queuedKeys' = queuedKeys
  BY <1>1, <1>2, <1>3, Refeeds DEF ViewerTypeOK
<1>5. ui' \in UiState /\ ui'.at = "planned" /\ ui'.missing = (Missing("main") # {})
  BY <1>1, <1>3 DEF UiState
<1>6. ViewerTypeOK'
  BY <1>1, <1>2, <1>4, <1>5 DEF ViewerTypeOK
<1>7. PipelinesAwake'
  BY <1>1 DEF VInv, PipelinesAwake
<1>8. KeysAccountedFor'
  BY <1>1, <1>4 DEF VInv, KeysAccountedFor
<1>9. PlanHolds'
  <2>1. Missing("main")' = Missing("main")
    BY <1>1 DEF Missing, Shown
  <2> QED BY <1>1, <1>5, <2>1 DEF PlanHolds
<1>10. PoolHolds'
  BY <1>1 DEF VInv, PoolHolds
<1>11. IdleIsDone'
  BY <1>1 DEF IdleIsDone, Stopped
<1> QED BY <1>6, <1>7, <1>8, <1>9, <1>10, <1>11 DEF VInv

(* The tick that finds nothing to do: nothing is on its way in either        *)
(* pipeline, the queue or the rings, so no key is queued either, so every    *)
(* overlay brick that is missing would have been fed or asked for.           *)
LEMMA QuietSubmit ==
  ASSUME VInv, Submit, ~AnythingPending(Missing("overlay") \ ram), ~ui.missing
  PROVE  /\ \A k \in view : Shown(k)
         /\ \A k \in MainBricks : main'.stage[k] = "no"
         /\ \A k \in OverlayBricks : overlay'.stage[k] = "no"
         /\ main'.unreleased = {} /\ overlay'.unreleased = {}
         /\ uploadQueue' = <<>>
         /\ \A s \in Stacks : PendingCount(s) = 0
<1>1. /\ Main!UnderWay(main)' = {} /\ main'.unreleased = {}
      /\ Overlay!UnderWay(overlay)' = {} /\ overlay'.unreleased = {}
      /\ uploadQueue' = <<>> /\ Missing("overlay") \subseteq ram
      /\ ~(PendingCount("main") > 0) /\ ~(PendingCount("overlay") > 0)
  BY DEF AnythingPending
<1>2. /\ ui.at = "planned" /\ Main!Submit(ui.wanted) /\ Refeed(Missing("overlay"))
      /\ Overlay!Submit(Missing("overlay") \ ram)
  BY Zenon DEF Submit
<1>3. ViewerTypeOK
  BY DEF VInv
<1>4. /\ main' \in Main!Delivery /\ Main!Awake(main')
      /\ overlay' \in Overlay!Delivery /\ Overlay!Awake(overlay')
  BY <1>2, <1>3, MainAskedTyped, MainPump, OverlayAskedTyped, OverlayPump
     DEF Main!Submit, Overlay!Submit, ViewerTypeOK
<1>5. \A k \in MainBricks : main'.stage[k] = "no"
  BY <1>1, <1>4 DEF Main!Awake, Main!AtStage, Main!UnderWay
<1>6. \A k \in OverlayBricks : overlay'.stage[k] = "no"
  BY <1>1, <1>4 DEF Overlay!Awake, Overlay!AtStage, Overlay!UnderWay
<1>7. ASSUME NEW s \in Stacks PROVE PendingCount(s) = 0
  BY <1>1, <1>3, CountZero DEF Stacks, PendingCount, ViewerTypeOK
<1>8. \A k \in MainBricks, p \in Phases : rings[k][p] = 0
  BY <1>3, <1>7, CountZero DEF Stacks, PendingCount, ViewerTypeOK, BricksOf
<1>9. Missing("overlay") \subseteq Bricks
  BY <1>3, MissingTyped DEF Stacks
<1>10. uploadQueue = <<>> /\ Missing("overlay") \cap ram \subseteq queuedKeys
  BY <1>1, <1>2, <1>3, <1>9, Refeeds DEF ViewerTypeOK
<1>11. queuedKeys = {}
  BY <1>8, <1>10 DEF VInv, KeysAccountedFor
<1>12. Missing("overlay") = {} /\ Missing("main") = {}
  <2>1. Missing("main") = {}
    BY <1>2 DEF VInv, PlanHolds
  <2> QED BY <1>1, <1>10, <1>11, <2>1
<1>13. \A k \in view : Shown(k)
  BY <1>3, <1>12 DEF Missing, ViewerTypeOK, Bricks, BricksOf
<1> QED BY <1>1, <1>5, <1>6, <1>7, <1>13

(* A submit leaves the loop running or stops it for a reason.                 *)
LEMMA SubmitKeeps ==
  ASSUME VInv, Submit
  PROVE  VInv'
<1> DEFINE ovWanted == Missing("overlay") \ ram
<1>1. /\ ui.at = "planned" /\ Main!Submit(ui.wanted) /\ Refeed(Missing("overlay"))
      /\ Overlay!Submit(ovWanted) /\ ui' = InFrame
      /\ scene' = scene /\ view' = view
      /\ rings' = rings /\ resident' = resident /\ empty' = empty
  BY Zenon DEF Submit, cameraVars, ringVars, gpuVars
<1>2. \/ AnythingPending(ovWanted) \/ ui.missing
      \/ convergedTicks' = IF convergedTicks < QuietTicks
                           THEN convergedTicks + 1 ELSE convergedTicks
  BY Zenon DEF Submit
<1>3. \/ AnythingPending(ovWanted) \/ ui.missing
      \/ streamingActive' = (convergedTicks + 1 < QuietTicks)
  BY Zenon DEF Submit
<1>4. AnythingPending(ovWanted) \/ ui.missing
      => convergedTicks' = 0 /\ streamingActive' = streamingActive
  BY Zenon DEF Submit
<1>5. ViewerTypeOK /\ PlanHolds
  BY DEF VInv
<1>6. streamingActive
  BY <1>1, <1>5 DEF PlanHolds
<1>7. streamingActive' \in BOOLEAN /\ convergedTicks' \in 0..QuietTicks
  <2>1. CASE AnythingPending(ovWanted) \/ ui.missing
    BY <1>4, <1>5, <2>1, LoopConstants DEF ViewerTypeOK
  <2>2. CASE ~(AnythingPending(ovWanted) \/ ui.missing)
    <3>1. streamingActive' = (convergedTicks + 1 < QuietTicks)
      BY <1>3, <2>2
    <3>2. convergedTicks' = IF convergedTicks < QuietTicks
                            THEN convergedTicks + 1 ELSE convergedTicks
      BY <1>2, <2>2
    <3>3. convergedTicks \in 0..QuietTicks
      BY <1>5 DEF ViewerTypeOK
    <3>4. convergedTicks' \in 0..QuietTicks
      BY <3>2, <3>3, LoopConstants
    <3>5. (convergedTicks + 1 < QuietTicks) \in BOOLEAN
      OBVIOUS
    <3>6. streamingActive' \in BOOLEAN
      BY ONLY <3>1, <3>5, Zenon
    <3> QED BY <3>4, <3>6
  <2> QED BY <2>1, <2>2
<1>8. Missing("overlay") \subseteq Bricks
  BY <1>5, MissingTyped DEF Stacks
<1>9. /\ uploadQueue' \in Seq(Bricks) /\ queuedKeys' \subseteq Bricks
      /\ uploadQueue' = <<>> => uploadQueue = <<>> /\ queuedKeys' = queuedKeys
  BY <1>1, <1>5, <1>8, Refeeds DEF ViewerTypeOK
<1>10. /\ main' \in Main!Delivery /\ Main!Awake(main')
       /\ overlay' \in Overlay!Delivery /\ Overlay!Awake(overlay')
  BY <1>1, <1>5, MainAskedTyped, MainPump, OverlayAskedTyped, OverlayPump
     DEF Main!Submit, Overlay!Submit, ViewerTypeOK
<1>11. InFrame \in UiState /\ InFrame.at = "frame"
  BY DEF InFrame, Idle, UiState
<1>12. ViewerTypeOK'
  BY <1>1, <1>5, <1>7, <1>9, <1>10, <1>11 DEF ViewerTypeOK
<1>13. PipelinesAwake'
  BY <1>10 DEF PipelinesAwake
<1>14. KeysAccountedFor'
  BY <1>1, <1>9 DEF VInv, KeysAccountedFor
<1>15. PlanHolds'
  BY <1>1, <1>11 DEF PlanHolds
<1>16. PoolHolds'
  BY <1>1 DEF VInv, PoolHolds
<1>17. IdleIsDone'
  <2>1. CASE AnythingPending(ovWanted) \/ ui.missing
    BY <1>4, <1>6, <2>1 DEF IdleIsDone, Stopped
  <2>2. CASE ~(AnythingPending(ovWanted) \/ ui.missing)
    <3>1. /\ \A k \in view : Shown(k)
          /\ \A k \in MainBricks : main'.stage[k] = "no"
          /\ \A k \in OverlayBricks : overlay'.stage[k] = "no"
          /\ main'.unreleased = {} /\ overlay'.unreleased = {}
          /\ uploadQueue' = <<>>
          /\ \A s \in Stacks : PendingCount(s) = 0
      BY <2>2, QuietSubmit
    <3>2. \A k \in view' : Shown(k)'
      BY <1>1, <3>1 DEF Shown
    <3>3. \A s \in Stacks : PendingCount(s)' = 0
      BY <1>1, <3>1 DEF PendingCount
    <3> QED BY <3>1, <3>2, <3>3 DEF IdleIsDone
  <2> QED BY <2>1, <2>2
<1> QED BY <1>12, <1>13, <1>14, <1>15, <1>16, <1>17 DEF VInv

(* The pipelines' steps need a brick on its way, so they happen only while the loop runs. *)
LEMMA DeliverKeeps ==
  ASSUME VInv, NEW k \in Bricks, Deliver(k)
  PROVE  VInv'
<1>1. /\ scene' = scene /\ view' = view /\ streamingActive' = streamingActive
      /\ convergedTicks' = convergedTicks
      /\ uploadQueue' = uploadQueue /\ queuedKeys' = queuedKeys /\ rings' = rings
      /\ resident' = resident /\ empty' = empty /\ ui' = ui
  BY Zenon DEF Deliver, Fetch, InsertInRam, loopVars, cameraVars, queueVars, ringVars, gpuVars
<1>2. \/ k \in MainBricks /\ overlay' = overlay
         /\ (Main!Fail(k) \/ Main!Fetched(k) \/ Main!Insert(k) \/ Main!Publish(k))
      \/ k \in OverlayBricks /\ main' = main
         /\ (Overlay!Fail(k) \/ Overlay!Fetched(k) \/ Overlay!Insert(k) \/ Overlay!Publish(k))
  BY Zenon DEF Deliver, Fetch, InsertInRam
<1>3. /\ ViewerTypeOK /\ main \in Main!Delivery /\ overlay \in Overlay!Delivery
      /\ Main!Awake(main) /\ Overlay!Awake(overlay)
  BY DEF VInv, ViewerTypeOK, PipelinesAwake
<1>4. /\ main' \in Main!Delivery /\ overlay' \in Overlay!Delivery
      /\ Main!Awake(main') /\ Overlay!Awake(overlay')
      /\ \/ k \in MainBricks /\ main.stage[k] # "no"
         \/ k \in OverlayBricks /\ overlay.stage[k] # "no"
  <2>1. CASE k \in MainBricks /\ overlay' = overlay
             /\ (Main!Fail(k) \/ Main!Fetched(k) \/ Main!Insert(k) \/ Main!Publish(k))
    <3>1. main' \in Main!Delivery /\ Main!Awake(main') /\ main.stage[k] # "no"
      BY <1>3, <2>1, MainDelivers, Zenon
    <3> QED BY <1>3, <2>1, <3>1
  <2>2. CASE k \in OverlayBricks /\ main' = main
             /\ (Overlay!Fail(k) \/ Overlay!Fetched(k) \/ Overlay!Insert(k)
                  \/ Overlay!Publish(k))
    <3>1. overlay' \in Overlay!Delivery /\ Overlay!Awake(overlay') /\ overlay.stage[k] # "no"
      BY <1>3, <2>2, OverlayDelivers, Zenon
    <3> QED BY <1>3, <2>2, <3>1
  <2> QED BY <1>2, <2>1, <2>2
<1>5. streamingActive'
  BY <1>1, <1>4 DEF VInv, IdleIsDone, Stopped
<1>6. ViewerTypeOK'
  BY <1>1, <1>3, <1>4 DEF ViewerTypeOK
<1>7. PipelinesAwake'
  BY <1>4 DEF PipelinesAwake
<1>8. KeysAccountedFor'
  BY <1>1 DEF VInv, KeysAccountedFor
<1>9. PlanHolds'
  <2>1. Missing("main")' = Missing("main")
    BY <1>1 DEF Missing, Shown
  <2> QED BY <1>1, <2>1 DEF VInv, PlanHolds
<1>10. PoolHolds'
  BY <1>1 DEF VInv, PoolHolds
<1>11. IdleIsDone'
  BY <1>5 DEF IdleIsDone, Stopped
<1> QED BY <1>6, <1>7, <1>8, <1>9, <1>10, <1>11 DEF VInv

(* The assembly moves a brick within its ring.                               *)
Assembled(k) ==
  rings' = [rings EXCEPT ![k] = With(With(rings[k], "waiting", rings[k]["waiting"] - 1),
                                     "ready", rings[k]["ready"] + 1)]

(* An assembled brick was in its ring before and is after.                    *)
LEMMA AssembledAt ==
  ASSUME rings \in Rings, NEW k \in Bricks, rings[k]["waiting"] > 0, Assembled(k)
  PROVE  /\ rings' \in Rings
         /\ \A j \in Bricks \ {k} : rings'[j] = rings[j]
         /\ \E p \in Phases : rings'[k][p] # 0
         /\ \E p \in Phases : rings[k][p] # 0
<1> DEFINE m == rings[k]["waiting"] - 1
           n == rings[k]["ready"] + 1
<1>1. rings[k] \in [Phases -> Nat] /\ rings[k]["waiting"] \in Nat /\ rings[k]["ready"] \in Nat
  BY RingAt, PhaseNames
<1>2. m \in Nat /\ n \in Nat /\ n # 0
  BY <1>1
<1>3. rings' = [rings EXCEPT ![k] = With(With(rings[k], "waiting", m), "ready", n)]
  BY DEF Assembled
<1> HIDE DEF m, n
<1>4. With(rings[k], "waiting", m) \in [Phases -> Nat]
  BY <1>1, <1>2, PhaseNames, WithAt, Zenon
<1> DEFINE g == With(With(rings[k], "waiting", m), "ready", n)
<1>5. g \in [Phases -> Nat]
  BY <1>2, <1>4, PhaseNames, WithAt, Zenon
<1>6. PICK p \in Phases : p = "ready"
  BY PhaseNames
<1>7. With(With(rings[k], "waiting", m), p, n)[p] = n
  BY <1>2, <1>4, <1>6, WithAt, Zenon
<1>8. g[p] = n
  BY <1>6, <1>7
<1> HIDE DEF g
<1>9. rings' \in Rings /\ rings'[k] = g /\ \A j \in Bricks \ {k} : rings'[j] = rings[j]
  <2>1. rings' = [rings EXCEPT ![k] = g]
    BY <1>3 DEF g
  <2> QED BY <1>5, <2>1 DEF Rings
<1>10. \E q \in Phases : rings[k][q] # 0
  BY <1>1, PhaseNames
<1> QED BY <1>2, <1>6, <1>8, <1>9, <1>10

(* An assembly needs a brick in a ring, so it happens only while the loop runs. *)
LEMMA AssembleKeeps ==
  ASSUME VInv, NEW k \in Bricks, Assemble(k)
  PROVE  VInv'
<1>1. /\ scene' = scene /\ view' = view /\ streamingActive' = streamingActive
      /\ convergedTicks' = convergedTicks /\ main' = main /\ overlay' = overlay
      /\ uploadQueue' = uploadQueue /\ queuedKeys' = queuedKeys
      /\ resident' = resident /\ empty' = empty /\ ui' = ui
      /\ rings[k]["waiting"] > 0
  BY Zenon DEF Assemble, loopVars, cameraVars, queueVars, gpuVars
<1>2. Assembled(k)
  BY Zenon DEF Assemble, Assembled, With
<1>3. ViewerTypeOK /\ rings \in Rings
  BY DEF VInv, ViewerTypeOK
<1>4. /\ rings' \in Rings
      /\ \A j \in Bricks \ {k} : rings'[j] = rings[j]
      /\ \E p \in Phases : rings'[k][p] # 0
      /\ \E p \in Phases : rings[k][p] # 0
  BY <1>1, <1>2, <1>3, AssembledAt
<1>5. streamingActive
  <2> SUFFICES ASSUME ~streamingActive PROVE FALSE
    OBVIOUS
  <2>1. \A s \in Stacks : PendingCount(s) = 0
    BY DEF VInv, IdleIsDone, Stopped
  <2>2. \A s \in Stacks : \A j \in BricksOf(s), p \in Phases : rings[j][p] = 0
    BY <1>3, <2>1, CountZero DEF PendingCount
  <2>3. \E s \in Stacks : k \in BricksOf(s)
    BY DEF Bricks, BricksOf, Stacks
  <2> QED BY <1>4, <2>2, <2>3
<1>6. ViewerTypeOK'
  BY <1>1, <1>3, <1>4 DEF ViewerTypeOK
<1>7. PipelinesAwake'
  BY <1>1 DEF VInv, PipelinesAwake
<1>8. KeysAccountedFor'
  <2> SUFFICES ASSUME queuedKeys' # {}, uploadQueue' = <<>>
               PROVE  \E j \in MainBricks, p \in Phases : rings'[j][p] # 0
    BY DEF KeysAccountedFor
  <2>1. PICK j \in MainBricks : \E p \in Phases : rings[j][p] # 0
    BY <1>1 DEF VInv, KeysAccountedFor
  <2>2. CASE j = k
    BY <1>4, <2>2
  <2>3. CASE j # k
    BY <1>4, <2>1, <2>3 DEF Bricks
  <2> QED BY <2>2, <2>3
<1>9. PlanHolds'
  <2>1. Missing("main")' = Missing("main")
    BY <1>1 DEF Missing, Shown
  <2> QED BY <1>1, <2>1 DEF VInv, PlanHolds
<1>10. PoolHolds'
  BY <1>1 DEF VInv, PoolHolds
<1>11. IdleIsDone'
  BY <1>1, <1>5 DEF IdleIsDone, Stopped
<1> QED BY <1>6, <1>7, <1>8, <1>9, <1>10, <1>11 DEF VInv

(* What a frame does to the rings, the queue and the caches, whichever       *)
(* bricks it takes, feeds, uploads and evicts.                               *)
Hands(r, fromMain, c, batch, fromOverlay) ==
  Enqueued(Drained(Enqueued(Enqueued(r, Each(fromMain)), c), batch), Each(fromOverlay))

FrameDoes(fromMain, c, batch, fromOverlay, stop, I, J, m, o) ==
  /\ fromMain \subseteq main.unreleased /\ fromOverlay \subseteq overlay.unreleased
  /\ batch \subseteq {k \in Bricks : rings[k]["ready"] > 0}
  /\ c \in [Bricks -> Nat] /\ (uploadQueue = <<>> => \A k \in Bricks : c[k] = 0)
  /\ stop \in 1 .. Len(uploadQueue) + 1
  /\ I \subseteq 1 .. Len(uploadQueue)
  /\ J \subseteq queuedKeys \cup fromMain \cup fromOverlay
  /\ m \in Placements("main", batch) /\ o \in Placements("overlay", batch)
  /\ rings' = Hands(rings, fromMain, c, batch, fromOverlay)
  /\ uploadQueue' = SubSeq(uploadQueue, stop + 1, Len(uploadQueue))
  /\ queuedKeys' = KeysLeft(rings', J)
  /\ empty' = empty \cup {uploadQueue[i] : i \in I} \cup
                (scene.fill \cap (main.unreleased \cup overlay.unreleased))
  /\ resident' = (resident \ (m.gone \cup o.gone)) \cup m.placed \cup o.placed

(* A frame does this for some choice of bricks.                               *)
LEMMA FrameFacts ==
  ASSUME VInv, Frame
  PROVE  \E fromMain, c, batch, fromOverlay, stop, I, J, m, o :
            FrameDoes(fromMain, c, batch, fromOverlay, stop, I, J, m, o)
<1> DEFINE R(fromMain) == Enqueued(rings, Each(fromMain))
           Stop(fromMain) == FirstRejected(R(fromMain))
           Fills(fromMain) == {i \in 1 .. Stop(fromMain) - 1 : uploadQueue[i] \in scene.fill}
           Fed(fromMain) == (1 .. Stop(fromMain) - 1) \ Fills(fromMain)
           Keys(fromMain) == (queuedKeys \cup fromMain)
              \ {uploadQueue[i] : i \in Fills(fromMain)
                                    \cup ({Stop(fromMain)} \cap DOMAIN uploadQueue)}
           C(fromMain) == [k \in Bricks |->
              Cardinality({i \in Fed(fromMain) : uploadQueue[i] = k})]
           Q(fromMain) == Enqueued(R(fromMain), C(fromMain))
<1>1. PICK fromMain \in Accepted("main", main.unreleased), batch \in Batches :
       LET r     == Enqueued(rings, Each(fromMain))
           stop  == FirstRejected(r)
           fills == {i \in 1 .. stop - 1 : uploadQueue[i] \in scene.fill}
           fed   == (1 .. stop - 1) \ fills
           Of(I) == {uploadQueue[i] : i \in I}
           keys  == (queuedKeys \cup fromMain)
                      \ Of(fills \cup ({stop} \cap DOMAIN uploadQueue))
           q     == Enqueued(r, [k \in Bricks |->
                      Cardinality({i \in fed : uploadQueue[i] = k})])
       IN  \E fromOverlay \in
              UpTo(MaxPending - Waiting(q, "overlay"),
                   (overlay.unreleased \ scene.fill) \ keys) :
            /\ empty' = empty \cup Of(fills) \cup
                          (scene.fill \cap (main.unreleased \cup overlay.unreleased))
            /\ uploadQueue' = SubSeq(uploadQueue, stop + 1, Len(uploadQueue))
            /\ rings' = Enqueued(Drained(q, batch), Each(fromOverlay))
            /\ queuedKeys' = KeysLeft(rings', keys \cup fromOverlay)
            /\ LET early == Of(fed) \cap OverlayBricks
                   kicks == fromOverlay \cup (batch \cap OverlayBricks) \cup
                            {k \in OverlayBricks : rings[k]["copying"] > 0}
               IN asleep' \in IF kicks # {} THEN {FALSE}
                              ELSE IF early = {} THEN {asleep}
                              ELSE IF overlayReady THEN {FALSE} ELSE BOOLEAN
            /\ \E m \in Placements("main", batch),
                  o \in Placements("overlay", batch) :
                 /\ resident' = (resident \ (m.gone \cup o.gone))
                                  \cup m.placed \cup o.placed
                 /\ recent' = resident' \cap MainBricks \cap (recent \cup batch)
  BY DEF Frame
<1>2. PICK fromOverlay \in UpTo(MaxPending - Waiting(Q(fromMain), "overlay"),
                               (overlay.unreleased \ scene.fill) \ Keys(fromMain)) :
          /\ empty' = empty \cup {uploadQueue[i] : i \in Fills(fromMain)} \cup
                        (scene.fill \cap (main.unreleased \cup overlay.unreleased))
          /\ uploadQueue' = SubSeq(uploadQueue, Stop(fromMain) + 1, Len(uploadQueue))
          /\ rings' = Enqueued(Drained(Q(fromMain), batch), Each(fromOverlay))
          /\ queuedKeys' = KeysLeft(rings', Keys(fromMain) \cup fromOverlay)
          /\ \E m \in Placements("main", batch), o \in Placements("overlay", batch) :
               resident' = (resident \ (m.gone \cup o.gone)) \cup m.placed \cup o.placed
  BY <1>1, Zenon
<1>3. PICK m \in Placements("main", batch), o \in Placements("overlay", batch) :
        resident' = (resident \ (m.gone \cup o.gone)) \cup m.placed \cup o.placed
  BY <1>2, Zenon
<1> DEFINE stop == Stop(fromMain)
           I == Fills(fromMain)
           J == Keys(fromMain) \cup fromOverlay
           c == C(fromMain)
           n == Len(uploadQueue)
<1>4. uploadQueue \in Seq(Bricks) /\ n \in Nat
  BY LenProperties DEF VInv, ViewerTypeOK
<1>5. stop \in 1 .. n + 1
  BY <1>4, FirstRejectedIn
<1>6. /\ empty' = empty \cup {uploadQueue[i] : i \in I} \cup
                  (scene.fill \cap (main.unreleased \cup overlay.unreleased))
      /\ uploadQueue' = SubSeq(uploadQueue, stop + 1, Len(uploadQueue))
      /\ queuedKeys' = KeysLeft(rings', J)
  BY <1>2, Zenon
<1>7. rings' = Hands(rings, fromMain, c, batch, fromOverlay)
  BY <1>2, Zenon DEF Hands
<1>8. fromMain \subseteq main.unreleased
  BY <1>1 DEF UpTo, Accepted
<1>9. fromOverlay \subseteq overlay.unreleased
  <2>1. fromOverlay \subseteq (overlay.unreleased \ scene.fill) \ Keys(fromMain)
    BY <1>2 DEF UpTo
  <2> QED BY <2>1
<1>10. batch \subseteq {k \in Bricks : rings[k]["ready"] > 0}
  BY <1>1 DEF Batches
<1>11. J \subseteq queuedKeys \cup fromMain \cup fromOverlay
  OBVIOUS
<1> HIDE DEF J
<1>12. I \subseteq 1 .. stop - 1 /\ Fed(fromMain) \subseteq 1 .. stop - 1
  OBVIOUS
<1>13. I \subseteq 1 .. n
  BY <1>4, <1>5, <1>12
<1>14. ASSUME NEW k \in Bricks
       PROVE  /\ c[k] \in Nat
              /\ uploadQueue = <<>> => c[k] = 0
  <2> DEFINE D == {i \in Fed(fromMain) : uploadQueue[i] = k}
  <2>1. D \subseteq 1 .. stop - 1
    BY <1>12
  <2>2. c[k] = Cardinality(D)
    OBVIOUS
  <2> HIDE DEF D, c, stop
  <2>3. IsFiniteSet(D)
    <3>1. 1 \in Int /\ stop - 1 \in Int
      BY <1>4, <1>5
    <3>2. IsFiniteSet(1 .. stop - 1)
      BY <3>1, FS_Interval
    <3> QED BY <2>1, <3>2, FS_Subset
  <2>4. uploadQueue = <<>> => 1 .. stop - 1 = {}
    BY <1>4, <1>5, EmptySeq
  <2> QED BY <2>1, <2>2, <2>3, <2>4, FS_CardinalityType, FS_EmptySet
<1>15. c \in [Bricks -> Nat]
  BY <1>14
<1> HIDE DEF I, c, stop
<1>16. FrameDoes(fromMain, c, batch, fromOverlay, stop, I, J, m, o)
  BY <1>3, <1>5, <1>6, <1>7, <1>8, <1>9, <1>10, <1>11, <1>13, <1>14, <1>15
     DEF FrameDoes
<1> QED BY <1>16, Zenon

(* A frame keeps all it changes of its type.                                  *)
LEMMA FrameTyped ==
  ASSUME VInv, NEW fromMain, NEW c, NEW batch, NEW fromOverlay, NEW stop, NEW I, NEW J,
         NEW m, NEW o, FrameDoes(fromMain, c, batch, fromOverlay, stop, I, J, m, o)
  PROVE  /\ rings' \in Rings /\ uploadQueue' \in Seq(Bricks)
         /\ queuedKeys' \subseteq Bricks /\ empty' \subseteq Bricks
         /\ resident' \subseteq Bricks
<1>1. /\ scene \in Scenes /\ uploadQueue \in Seq(Bricks) /\ queuedKeys \subseteq Bricks
      /\ rings \in Rings /\ resident \subseteq Bricks /\ empty \subseteq Bricks
      /\ main.unreleased \subseteq MainBricks /\ overlay.unreleased \subseteq OverlayBricks
  BY DEF VInv, ViewerTypeOK, Main!Delivery, Overlay!Delivery
<1>2. MainBricks \subseteq Bricks /\ OverlayBricks \subseteq Bricks
  BY DEF Bricks
<1>3. /\ fromMain \subseteq Bricks /\ fromOverlay \subseteq Bricks
      /\ c \in [Bricks -> Nat]
      /\ stop \in 1 .. Len(uploadQueue) + 1 /\ I \subseteq 1 .. Len(uploadQueue)
      /\ J \subseteq Bricks
  BY <1>1, <1>2 DEF FrameDoes
<1>4. rings' \in Rings
  <2>1. Enqueued(rings, Each(fromMain)) \in Rings
    BY <1>1, EachTyped, EnqueuedAt
  <2>2. Enqueued(Enqueued(rings, Each(fromMain)), c) \in Rings
    BY <1>3, <2>1, EnqueuedAt
  <2>3. Drained(Enqueued(Enqueued(rings, Each(fromMain)), c), batch) \in Rings
    BY <2>2, DrainedAt
  <2>4. Hands(rings, fromMain, c, batch, fromOverlay) \in Rings
    BY <2>3, EachTyped, EnqueuedAt DEF Hands
  <2> QED BY <2>4 DEF FrameDoes
<1>5. \A i \in 1 .. Len(uploadQueue) : uploadQueue[i] \in Bricks
  BY <1>1, ElementOfSeq
<1>6. uploadQueue' \in Seq(Bricks)
  <2>1. Len(uploadQueue) \in Nat
    BY <1>1, LenProperties
  <2>2. stop + 1 \in Int /\ Len(uploadQueue) \in Int
        /\ \A i \in stop + 1 .. Len(uploadQueue) : uploadQueue[i] \in Bricks
    BY <1>3, <1>5, <2>1
  <2>3. uploadQueue' = SubSeq(uploadQueue, stop + 1, Len(uploadQueue))
    BY DEF FrameDoes
  <2> QED BY <2>2, <2>3, SubSeqProperties
<1>7. queuedKeys' \subseteq Bricks
  BY <1>3 DEF FrameDoes, KeysLeft
<1>8. empty' \subseteq Bricks
  <2>1. scene.fill \subseteq Bricks
    BY <1>1, LoopConstants
  <2>2. {uploadQueue[i] : i \in I} \subseteq Bricks
    BY <1>3, <1>5
  <2> QED BY <1>1, <2>1, <2>2 DEF FrameDoes
<1>9. resident' \subseteq Bricks
  <2>1. m.placed \subseteq Bricks /\ o.placed \subseteq Bricks
    BY <1>1, StackBricks DEF FrameDoes, Placements, Stacks
  <2> QED BY <1>1, <2>1 DEF FrameDoes
<1> QED BY <1>4, <1>6, <1>7, <1>8, <1>9

(* A frame leaves each cache within its slots, and as it was if it uploads nothing. *)
LEMMA FramePools ==
  ASSUME VInv, NEW fromMain, NEW c, NEW batch, NEW fromOverlay, NEW stop, NEW I, NEW J,
         NEW m, NEW o, FrameDoes(fromMain, c, batch, fromOverlay, stop, I, J, m, o)
  PROVE  /\ PoolHolds'
         /\ batch = {} => resident' = resident
<1>1. /\ resident \subseteq Bricks /\ PoolHolds
      /\ m \in Placements("main", batch) /\ o \in Placements("overlay", batch)
      /\ resident' = (resident \ (m.gone \cup o.gone)) \cup m.placed \cup o.placed
  BY DEF FrameDoes, VInv, ViewerTypeOK
<1>2. /\ BricksOf("main") = MainBricks /\ BricksOf("overlay") = OverlayBricks
      /\ MainBricks \cap OverlayBricks = {}
      /\ "main" \in Stacks /\ "overlay" \in Stacks
  BY ViewerAssumption DEF BricksOf, Stacks
<1>3. /\ m.gone \subseteq resident \cap MainBricks /\ m.placed \subseteq MainBricks
      /\ Cardinality(((resident \cap MainBricks) \ m.gone) \cup m.placed) <= PoolSlots
      /\ batch = {} => m.gone = {} /\ m.placed = {}
  BY <1>1, <1>2, PlacementsFit
<1>4. /\ o.gone \subseteq resident \cap OverlayBricks /\ o.placed \subseteq OverlayBricks
      /\ Cardinality(((resident \cap OverlayBricks) \ o.gone) \cup o.placed) <= PoolSlots
      /\ batch = {} => o.gone = {} /\ o.placed = {}
  BY <1>1, <1>2, PlacementsFit
<1>5. resident' \cap MainBricks = ((resident \cap MainBricks) \ m.gone) \cup m.placed
  BY <1>1, <1>2, <1>3, <1>4
<1>6. resident' \cap OverlayBricks = ((resident \cap OverlayBricks) \ o.gone) \cup o.placed
  BY <1>1, <1>2, <1>3, <1>4
<1>7. PoolHolds'
  BY <1>2, <1>3, <1>4, <1>5, <1>6 DEF PoolHolds, Stacks
<1> QED BY <1>1, <1>3, <1>4, <1>7

(* A frame of the stopped loop finds nothing to do.                          *)
LEMMA FrameRests ==
  ASSUME VInv, Stopped, NEW fromMain, NEW c, NEW batch, NEW fromOverlay, NEW stop,
         NEW I, NEW J, NEW m, NEW o,
         FrameDoes(fromMain, c, batch, fromOverlay, stop, I, J, m, o)
  PROVE  /\ \A k \in Bricks, p \in Phases : rings'[k][p] = 0
         /\ uploadQueue' = <<>> /\ resident' = resident /\ empty \subseteq empty'
<1>1. /\ main.unreleased = {} /\ overlay.unreleased = {} /\ uploadQueue = <<>>
      /\ \A s \in Stacks : PendingCount(s) = 0
  BY DEF VInv, IdleIsDone
<1>2. rings \in Rings
  BY DEF VInv, ViewerTypeOK
<1>3. \A k \in Bricks, p \in Phases : rings[k][p] = 0
  <2>1. \A s \in Stacks : \A k \in BricksOf(s), p \in Phases : rings[k][p] = 0
    BY <1>1, <1>2, CountZero DEF PendingCount
  <2>2. \A k \in Bricks : \E s \in Stacks : k \in BricksOf(s)
    BY DEF Bricks, BricksOf, Stacks
  <2> QED BY <2>1, <2>2
<1>4. fromMain = {} /\ fromOverlay = {} /\ c \in [Bricks -> Nat]
      /\ \A k \in Bricks : c[k] = 0
  BY <1>1 DEF FrameDoes
<1>5. batch = {}
  <2>1. batch \subseteq {k \in Bricks : rings[k]["ready"] > 0}
    BY DEF FrameDoes
  <2>2. \A k \in Bricks : rings[k]["ready"] = 0
    BY <1>3, PhaseNames
  <2> QED BY <2>1, <2>2
<1> DEFINE a == Enqueued(rings, Each(fromMain))
           b == Enqueued(a, c)
           d == Drained(b, batch)
<1>6. a \in Rings /\ \A k \in Bricks, p \in Phases : a[k][p] = 0
  BY <1>2, <1>3, <1>4, EachTyped, EnqueuedAt
<1> HIDE DEF a
<1>7. b \in Rings /\ \A k \in Bricks, p \in Phases : b[k][p] = 0
  BY <1>4, <1>6, EnqueuedAt
<1> HIDE DEF b
<1>8. d \in Rings /\ \A k \in Bricks, p \in Phases : d[k][p] = 0
  BY <1>5, <1>7, DrainedAt
<1> HIDE DEF d
<1>9. \A k \in Bricks, p \in Phases : Enqueued(d, Each(fromOverlay))[k][p] = 0
  BY <1>4, <1>8, EachTyped, EnqueuedAt
<1>10. rings' = Enqueued(d, Each(fromOverlay))
  BY Zenon DEF FrameDoes, Hands, d, b, a
<1>11. uploadQueue' = <<>>
  <2>1. /\ uploadQueue' = SubSeq(uploadQueue, stop + 1, Len(uploadQueue))
        /\ stop \in 1 .. Len(uploadQueue) + 1
    BY DEF FrameDoes
  <2>2. Len(uploadQueue) = 0
    BY <1>1, EmptySeq
  <2>3. stop + 1 \in Int /\ Len(uploadQueue) \in Int /\ Len(uploadQueue) < stop + 1
    BY <2>1, <2>2
  <2> QED BY <2>1, <2>3, SubSeqEmpty
<1>12. resident' = resident
  BY <1>5, FramePools
<1>13. empty \subseteq empty'
  BY DEF FrameDoes
<1> QED BY <1>9, <1>10, <1>11, <1>12, <1>13

(* A frame keeps the invariant.                                               *)
LEMMA FrameKeeps ==
  ASSUME VInv, Frame
  PROVE  VInv'
<1>1. PICK fromMain, c, batch, fromOverlay, stop, I, J, m, o :
        FrameDoes(fromMain, c, batch, fromOverlay, stop, I, J, m, o)
  BY FrameFacts, Zenon
<1>2. /\ scene' = scene /\ view' = view /\ streamingActive' = streamingActive
      /\ convergedTicks' = convergedTicks /\ ui' = Idle
      /\ Main!Release(main.unreleased) /\ Overlay!Release(overlay.unreleased)
  BY Zenon DEF Frame, loopVars, cameraVars
<1>3. /\ ViewerTypeOK /\ main \in Main!Delivery /\ overlay \in Overlay!Delivery
  BY DEF VInv, ViewerTypeOK
<1>4. /\ main' \in Main!Delivery /\ Main!Awake(main') /\ main'.unreleased = {}
      /\ \A k \in MainBricks : main.stage[k] = "no" => main'.stage[k] = "no"
  <2>1. main' \in Main!Pumped(Main!Released(main, main.unreleased))
    BY <1>2 DEF Main!Release
  <2>2. /\ Main!Released(main, main.unreleased) \in Main!Delivery
        /\ Main!Released(main, main.unreleased).unreleased = {}
        /\ Main!Released(main, main.unreleased).stage = main.stage
    BY <1>3, MainReleasedTyped
  <2> QED BY <2>1, <2>2, MainPump
<1>5. /\ overlay' \in Overlay!Delivery /\ Overlay!Awake(overlay') /\ overlay'.unreleased = {}
      /\ \A k \in OverlayBricks : overlay.stage[k] = "no" => overlay'.stage[k] = "no"
  <2>1. overlay' \in Overlay!Pumped(Overlay!Released(overlay, overlay.unreleased))
    BY <1>2 DEF Overlay!Release
  <2>2. /\ Overlay!Released(overlay, overlay.unreleased) \in Overlay!Delivery
        /\ Overlay!Released(overlay, overlay.unreleased).unreleased = {}
        /\ Overlay!Released(overlay, overlay.unreleased).stage = overlay.stage
    BY <1>3, OverlayReleasedTyped
  <2> QED BY <2>1, <2>2, OverlayPump
<1>6. /\ rings' \in Rings /\ uploadQueue' \in Seq(Bricks) /\ queuedKeys' \subseteq Bricks
      /\ empty' \subseteq Bricks /\ resident' \subseteq Bricks
  BY <1>1, FrameTyped
<1>7. Idle \in UiState /\ Idle.at = "idle"
  BY DEF Idle, UiState
<1>8. ViewerTypeOK'
  BY <1>2, <1>3, <1>4, <1>5, <1>6, <1>7 DEF ViewerTypeOK
<1>9. PipelinesAwake'
  BY <1>4, <1>5 DEF PipelinesAwake
<1>10. KeysAccountedFor'
  <2> SUFFICES ASSUME queuedKeys' # {}
               PROVE  \E k \in MainBricks, p \in Phases : rings'[k][p] # 0
    BY DEF KeysAccountedFor
  <2>1. Count(rings', "main", Phases) # 0
    BY <1>1 DEF FrameDoes, KeysLeft
  <2> QED BY <1>6, <2>1, CountZero DEF Stacks, BricksOf
<1>11. PlanHolds'
  BY <1>2, <1>7 DEF PlanHolds
<1>12. PoolHolds'
  BY <1>1, FramePools
<1>13. IdleIsDone'
  <2> SUFFICES ASSUME Stopped' PROVE IdleIsDone'
    BY DEF IdleIsDone
  <2>1. Stopped /\ IdleIsDone
    BY <1>2 DEF Stopped, VInv
  <2>2. /\ \A k \in Bricks, p \in Phases : rings'[k][p] = 0
        /\ uploadQueue' = <<>> /\ resident' = resident /\ empty \subseteq empty'
    BY <1>1, <2>1, FrameRests
  <2>3. \A k \in view' : Shown(k)'
    BY <1>2, <2>1, <2>2 DEF IdleIsDone, Shown
  <2>4. \A s \in Stacks : PendingCount(s)' = 0
    BY <1>6, <2>2, CountZero, StackBricks DEF PendingCount
  <2>5. /\ \A k \in MainBricks : main'.stage[k] = "no"
        /\ \A k \in OverlayBricks : overlay'.stage[k] = "no"
    BY <1>4, <1>5, <2>1 DEF IdleIsDone
  <2> QED BY <1>4, <1>5, <2>2, <2>3, <2>4, <2>5 DEF IdleIsDone
<1> QED BY <1>8, <1>9, <1>10, <1>11, <1>12, <1>13 DEF VInv

-----------------------------------------------------------------------------
(* The theorems. *)

(* So does a stuttering step.                                                 *)
LEMMA StutterKeeps ==
  ASSUME VInv, UNCHANGED vars
  PROVE  VInv'
<1>1. /\ Untouched /\ streamingActive' = streamingActive
      /\ convergedTicks' = convergedTicks /\ ui' = ui
  BY Zenon DEF vars, Untouched, loopVars, cameraVars, queueVars, ringVars, gpuVars
<1>2. streamingActive \in BOOLEAN /\ convergedTicks \in 0..QuietTicks /\ ui \in UiState
  BY DEF VInv, ViewerTypeOK
<1>3. streamingActive' \in BOOLEAN /\ convergedTicks' \in 0..QuietTicks /\ ui' \in UiState
  BY <1>1, <1>2
<1>4. PlanHolds'
  <2>1. Missing("main")' = Missing("main")
    BY <1>1 DEF Untouched, Missing, Shown
  <2> QED BY <1>1, <2>1 DEF VInv, PlanHolds
<1> QED BY <1>1, <1>3, <1>4, UntouchedKeeps DEF VInv

(* And any other.                                                             *)
LEMMA StepKeeps ==
  ASSUME VInv, [Next]_vars
  PROVE  VInv'
<1>1. CASE MoveCamera
  BY <1>1, CameraMoves
<1>2. CASE Plan
  BY <1>2, PlanKeeps
<1>3. CASE Submit
  BY <1>3, SubmitKeeps
<1>4. CASE Repaint
  BY <1>4, RepaintKeeps
<1>5. CASE Frame
  BY <1>5, FrameKeeps
<1>6. ASSUME NEW k \in Bricks, Deliver(k) PROVE VInv'
  BY <1>6, DeliverKeeps
<1>7. ASSUME NEW k \in Bricks, Assemble(k) PROVE VInv'
  BY <1>7, AssembleKeeps
<1>8. CASE UNCHANGED vars
  BY <1>8, StutterKeeps
<1> QED BY <1>1, <1>2, <1>3, <1>4, <1>5, <1>6, <1>7, <1>8, Zenon DEF Next

(* The inductive invariant holds throughout.                                  *)
LEMMA ViewerInvariant == Spec => []VInv
<1>1. Init => VInv
  BY InitHolds
<1>2. VInv /\ [Next]_vars => VInv'
  BY StepKeeps
<1> QED BY <1>1, <1>2, PTL DEF Spec

(* The streaming loop stops only when every brick in view, of both volumes,  *)
(* is shown, and neither pipeline, queue nor ring has anything left; and     *)
(* then nothing but a move of the camera starts it again                     *)
(* (ViewerWindow.cpp, pumpStreaming and preRenderUpload).                    *)
THEOREM LoopStopsWhenDone == Spec => []IdleIsDone
<1>1. VInv => IdleIsDone
  BY DEF VInv
<1> QED BY <1>1, ViewerInvariant, PTL

(* Each GPU cache keeps to its slots, whatever the frames upload and evict.  *)
THEOREM PoolsNeverOverflow == Spec => []PoolHolds
<1>1. VInv => PoolHolds
  BY DEF VInv
<1> QED BY <1>1, ViewerInvariant, PTL

-----------------------------------------------------------------------------
(* The fences of the feedback buffers. *)

(* What the actions need to know of the types.  Which requests a frame       *)
(* carries does not matter here.                                             *)
FramesOf(A) == [buffer : {Nobody, 0, 1}, asks : A]

FeedbackTyped ==
  /\ frameFences \in [{0, 1} -> Nat]
  /\ writeIndex \in {0, 1}
  /\ DOMAIN buffers = {0, 1}
  /\ \E A : frames \in Seq(FramesOf(A))

(* Without buffers no frame has one: those under way when resources are      *)
(* released write to buffers that are no longer there.                       *)
OnlyMapped == ~mapped => \A j \in DOMAIN frames : frames[j].buffer = Nobody

FInv == FeedbackTyped /\ FencesGuard /\ OnlyMapped

(* What a sequence of frames holds. *)
LEMMA FrameOfSeq ==
  ASSUME NEW A, NEW s \in Seq(FramesOf(A)), NEW j \in DOMAIN s
  PROVE  /\ s[j] \in FramesOf(A)
         /\ s[j].buffer # Nobody => s[j].buffer \in {0, 1}
<1>1. s[j] \in FramesOf(A)
  <2> HIDE DEF FramesOf
  <2> QED OBVIOUS
<1> QED BY <1>1 DEF FramesOf

(* Initially there is neither a frame nor a fence. *)
LEMMA FeedbackStarts == FeedbackInit => FInv
<1> SUFFICES ASSUME FeedbackInit PROVE FInv
  OBVIOUS
<1>1. FeedbackTyped
  <2>1. <<>> \in Seq(FramesOf({}))
    OBVIOUS
  <2> QED BY <2>1 DEF FeedbackInit, FeedbackTyped
<1>2. FencesGuard /\ OnlyMapped
  BY DEF FeedbackInit, FencesGuard, OnlyMapped
<1> QED BY <1>1, <1>2 DEF FInv

(* A frame retires: the frames behind it and their fences move up by one.    *)
LEMMA RetireKeepsFInv == FInv /\ Retire => FInv'
<1> SUFFICES ASSUME FInv, Retire PROVE FInv'
  OBVIOUS
<1> PICK A : frames \in Seq(FramesOf(A))
  BY DEF FInv, FeedbackTyped
<1>1. /\ frames # <<>>
      /\ frames' = Tail(frames)
      /\ frameFences' = [i \in {0, 1} |-> IF frameFences[i] = 0 THEN 0
                                                               ELSE frameFences[i] - 1]
      /\ writeIndex' = writeIndex
  BY DEF Retire
<1>2. FeedbackTyped'
  <2>1. frames' \in Seq(FramesOf(A))
    BY <1>1
  <2>2. frameFences' \in [{0, 1} -> Nat]
    BY <1>1 DEF FInv, FeedbackTyped
  <2>3. DOMAIN buffers' = DOMAIN buffers
    BY DEF Retire
  <2> QED BY <1>1, <2>1, <2>2, <2>3 DEF FInv, FeedbackTyped
<1>3. FencesGuard'
  <2> SUFFICES ASSUME NEW j \in DOMAIN frames', frames'[j].buffer # Nobody
               PROVE  frameFences'[frames'[j].buffer] >= j
    BY DEF FencesGuard
  <2>1. j \in Nat /\ j + 1 \in DOMAIN frames /\ frames'[j] = frames[j + 1]
    BY <1>1
  <2>2. frames[j + 1].buffer \in {0, 1}
    BY <2>1, FrameOfSeq
  <2>3. frameFences[frames[j + 1].buffer] >= j + 1
    BY <2>1 DEF FInv, FencesGuard
  <2> QED BY <1>1, <2>1, <2>2, <2>3 DEF FInv, FeedbackTyped
<1>4. OnlyMapped'
  <2>1. mapped' = mapped /\ \A j \in DOMAIN frames' : j + 1 \in DOMAIN frames
                                                     /\ frames'[j] = frames[j + 1]
    BY <1>1 DEF Retire
  <2> QED BY <2>1 DEF FInv, OnlyMapped
<1> QED BY <1>2, <1>3, <1>4 DEF FInv

(* A frame is issued: its fence, behind it, is behind all the others too.    *)
LEMMA RenderKeepsFInv == FInv /\ Render => FInv'
<1> SUFFICES ASSUME FInv, Render PROVE FInv'
  OBVIOUS
<1> PICK A : frames \in Seq(FramesOf(A))
  BY DEF FInv, FeedbackTyped
<1> DEFINE frame == [buffer |-> writeIndex, asks |-> Asks]
           B     == A \cup {Asks}
<1> HIDE DEF B
<1>1. /\ frames' = Append(frames, frame)
      /\ frameFences' = [frameFences EXCEPT ![writeIndex] = Len(frames) + 1]
      /\ writeIndex' = 1 - writeIndex
  BY DEF Render, FencesAfter, Other
<1>2. writeIndex \in {0, 1} /\ frameFences \in [{0, 1} -> Nat] /\ Len(frames) \in Nat
  BY DEF FInv, FeedbackTyped
<1>3. FeedbackTyped'
  <2>1. frames \in Seq(FramesOf(B))
    <3>1. FramesOf(A) \subseteq FramesOf(B)
      BY DEF B, FramesOf
    <3> QED BY <3>1
  <2>2. frame \in FramesOf(B)
    BY <1>2 DEF B, FramesOf
  <2>3. frames' \in Seq(FramesOf(B))
    BY <1>1, <2>1, <2>2
  <2>4. frameFences' \in [{0, 1} -> Nat] /\ writeIndex' \in {0, 1}
    BY <1>1, <1>2
  <2>5. DOMAIN buffers' = {0, 1}
    BY DEF FInv, FeedbackTyped, Render, ReadFeedback
  <2> QED BY <2>3, <2>4, <2>5 DEF FeedbackTyped
<1>4. FencesGuard'
  <2> SUFFICES ASSUME NEW j \in DOMAIN frames', frames'[j].buffer # Nobody
               PROVE  frameFences'[frames'[j].buffer] >= j
    BY DEF FencesGuard
  <2>1. j \in 1 .. Len(frames) + 1
    BY <1>1
  <2>2. CASE j = Len(frames) + 1
    <3>1. frames'[j].buffer = writeIndex
      BY <1>1, <2>2
    <3> QED BY <1>1, <1>2, <2>2, <3>1
  <2>3. CASE j \in 1 .. Len(frames)
    <3>1. frames'[j] = frames[j] /\ j \in DOMAIN frames
      BY <1>1, <2>3
    <3>2. frames[j].buffer # Nobody /\ frames[j].buffer \in {0, 1}
      BY <3>1, FrameOfSeq
    <3>3. frameFences[frames[j].buffer] >= j
      BY <3>1, <3>2 DEF FInv, FencesGuard
    <3> QED BY <1>1, <1>2, <2>3, <3>1, <3>2, <3>3
  <2> QED BY <1>2, <2>1, <2>2, <2>3
<1>5. OnlyMapped'
  BY DEF Render, OnlyMapped
<1> QED BY <1>3, <1>4, <1>5 DEF FInv

(* Graphics resources are released: no frame has a buffer any more.          *)
LEMMA ReleaseKeepsFInv == FInv /\ ReleaseResources => FInv'
<1> SUFFICES ASSUME FInv, ReleaseResources PROVE FInv'
  OBVIOUS
<1> PICK A : frames \in Seq(FramesOf(A))
  BY DEF FInv, FeedbackTyped
<1>1. /\ frames' = [j \in DOMAIN frames |-> [frames[j] EXCEPT !.buffer = Nobody]]
      /\ frameFences' = [i \in {0, 1} |-> 0]
      /\ writeIndex' = writeIndex
      /\ buffers' = buffers
  BY DEF ReleaseResources
<1>2. ASSUME NEW j \in DOMAIN frames
      PROVE  /\ [frames[j] EXCEPT !.buffer = Nobody] \in FramesOf(A)
             /\ [frames[j] EXCEPT !.buffer = Nobody].buffer = Nobody
  <2>1. frames[j] \in FramesOf(A)
    BY FrameOfSeq
  <2> QED BY <2>1 DEF FramesOf
<1>3. frames' \in Seq(FramesOf(A))
  BY <1>1, <1>2
<1>4. FeedbackTyped'
  BY <1>1, <1>3 DEF FInv, FeedbackTyped
<1>5. FencesGuard' /\ OnlyMapped'
  <2> SUFFICES ASSUME NEW j \in DOMAIN frames' PROVE frames'[j].buffer = Nobody
    BY DEF FencesGuard, OnlyMapped
  <2> QED BY <1>1, <1>2
<1> QED BY <1>4, <1>5 DEF FInv

(* Every other step leaves frames and fences alone.                          *)
LEMMA FeedbackSteps == FInv /\ [FeedbackNext]_feedbackVars => FInv'
<1> SUFFICES ASSUME FInv, [FeedbackNext]_feedbackVars PROVE FInv'
  OBVIOUS
<1>1. ASSUME UNCHANGED <<mapped, buffers, frameFences, writeIndex, frames>> PROVE FInv'
  BY <1>1 DEF FInv, FeedbackTyped, FencesGuard, OnlyMapped
<1>2. CASE Open
  BY <1>1, <1>2 DEF Open
<1>3. CASE Render
  BY <1>3, RenderKeepsFInv
<1>4. CASE Retire
  BY <1>4, RetireKeepsFInv
<1>5. CASE ReleaseResources
  BY <1>5, ReleaseKeepsFInv
<1>6. CASE TakeRequests
  BY <1>1, <1>6 DEF TakeRequests
<1>7. ASSUME NEW b \in RayBricks, Arrive(b) \/ Lose(b) PROVE FInv'
  BY <1>1, <1>7 DEF Arrive, Lose
<1>8. CASE UNCHANGED feedbackVars
  BY <1>1, <1>8 DEF feedbackVars
<1> QED BY <1>2, <1>3, <1>4, <1>5, <1>6, <1>7, <1>8 DEF FeedbackNext

(* The invariant of the feedback buffers holds throughout.                   *)
LEMMA FInvAlways == FeedbackSpec => []FInv
<1> QED BY FeedbackStarts, FeedbackSteps, PTL DEF FeedbackSpec

-----------------------------------------------------------------------------
(* No frame writes a buffer after the fence kept for it has signaled, also   *)
(* when that fence has replaced an older one (vtkScrollVolumeMapper.cpp, end *)
(* of Render()).                                                             *)
THEOREM SignaledMeansRetired == FeedbackSpec => []FencesGuard
<1>1. FInv => FencesGuard
  BY DEF FInv
<1> QED BY <1>1, FInvAlways, PTL

(* The buffer the CPU reads and resets without waiting, in ReadFeedback(), is *)
(* one no frame will write to.                                               *)
THEOREM CpuNeverRacesGpu == FeedbackSpec => CpuReadsRetired
<1> DEFINE Retired ==
      \A i \in {0, 1} : Len(frames') > Len(frames) /\ buffers'[i] # buffers[i] =>
        \A j \in DOMAIN frames : frames[j].buffer # i
<1>1. ASSUME FInv, Render PROVE Retired
  <2> SUFFICES ASSUME NEW i \in {0, 1}, buffers'[i] # buffers[i],
                      NEW j \in DOMAIN frames, frames[j].buffer = i
               PROVE  FALSE
    OBVIOUS
  <2>1. i # Nobody
    BY DEF Nobody
  <2>2. mapped
    BY <1>1, <2>1 DEF FInv, OnlyMapped
  <2>3. writeIndex \in {0, 1} /\ Other \in {0, 1} /\ Other # writeIndex
    BY <1>1 DEF FInv, FeedbackTyped, Other
  <2>4. ReadFeedback(buffers, Other)
    BY <1>1, <2>2 DEF Render
  <2>5. FencesAfter[Other] = 0 /\ buffers' = [buffers EXCEPT ![Other] = Fresh]
    <3>1. buffers' # buffers
      OBVIOUS
    <3> QED BY <2>4, <3>1 DEF ReadFeedback
  <2>6. i = Other
    <3>1. DOMAIN buffers = {0, 1}
      BY <1>1 DEF FInv, FeedbackTyped
    <3> QED BY <2>5, <3>1
  <2>7. frameFences[Other] = 0
    BY <1>1, <2>3, <2>5 DEF FInv, FeedbackTyped, FencesAfter
  <2>8. frameFences[Other] >= j
    BY <1>1, <2>1, <2>6 DEF FInv, FencesGuard
  <2>9. j \in Nat /\ j > 0
    <3> PICK A : frames \in Seq(FramesOf(A))
      BY <1>1 DEF FInv, FeedbackTyped
    <3> QED OBVIOUS
  <2> QED BY <2>7, <2>8, <2>9
<1>2. ASSUME FInv, Retire PROVE Retired
  <2> PICK A : frames \in Seq(FramesOf(A))
    BY <1>2 DEF FInv, FeedbackTyped
  <2>1. frames # <<>> /\ frames' = Tail(frames)
    BY <1>2 DEF Retire
  <2>2. ~(Len(frames') > Len(frames))
    BY <2>1
  <2> QED BY <2>2
<1>3. ASSUME [FeedbackNext]_feedbackVars, ~Render, ~Retire PROVE Retired
  <2>1. ASSUME UNCHANGED buffers PROVE Retired
    BY <2>1
  <2>2. UNCHANGED buffers
    BY <1>3 DEF FeedbackNext, Open, ReleaseResources, TakeRequests, Arrive, Lose,
                feedbackVars
  <2> QED BY <2>1, <2>2
<1>4. FInv /\ [FeedbackNext]_feedbackVars => [Retired]_feedbackVars
  BY <1>1, <1>2, <1>3
<1> QED BY <1>4, FInvAlways, PTL DEF FeedbackSpec, CpuReadsRetired

=============================================================================

----------------------------- MODULE Segmentation -----------------------------
(***************************************************************************)
(* Segmentation into supervoxels (ViewerWindow::runSegmentation,             *)
(* data/Snic3D): a thread of its own reads a whole coarse level, finds the   *)
(* threshold below which there is only air, floods the level from a grid of  *)
(* seeds through a bucketed priority queue, and posts the clusters back to   *)
(* the main thread.                                                          *)
(*                                                                         *)
(* Abstractions.  The level has two axes and intensities 0..Brightest.  The  *)
(* distance of a voxel to a cluster, which moves with the cluster's centroid *)
(* and mean, is any bucket.  A chunk is ChunkWide voxels of each row, and a  *)
(* read that fails or does not decode leaves air.  That the thread is        *)
(* detached, and uses a window that may be gone, is not modelled.            *)
(*                                                                         *)
(* AnyBucket and PostIfSeeded are faulty variants of the definitions they    *)
(* precede; nothing uses them.                                               *)
(***************************************************************************)
EXTENDS Integers, Sequences, FiniteSets, FiniteSetsExt, SequencesExt

CONSTANTS
  Dx, Dy,       \* dimsZyx
  ChunkWide,    \* voxels of a chunk along x
  Brightest,    \* the greatest intensity
  Scrolls,      \* what the level may hold: functions from voxels to intensities
  Steps,        \* grid steps of the seeds
  Floors,       \* values of the floor slider: above 0, it is the threshold
  Buckets,      \* kBuckets
  MinCount,     \* clusters with fewer voxels are not shown
  MaxClicks     \* bound on the clicks

VARIABLES
  scroll,      \* what is stored
  segRunning,  \* segRunning_
  enabled,     \* segButton_ is enabled
  segThread,   \* "none", or where the thread is
  settings,    \* the step of the seeds and the floor slider, at the click
  nextChunk,   \* the next chunk to read
  vol,         \* vol: what has been assembled
  air,         \* minIntensity: what is not above it is air
  label,       \* label
  acc,         \* acc: voxels of each cluster
  buckets,     \* buckets_ of the queue: pairs of a voxel and a cluster
  cursor,      \* cur_
  spheres,     \* what the mapper shows: the size of each cluster
  clicks       \* number of clicks

segVars == <<scroll, segRunning, enabled, segThread, settings, nextChunk, vol, air,
             label, acc, buckets, cursor, spheres, clicks>>

Voxels == 0 .. Dx * Dy - 1

(* A level and its chunks hold voxels; settings are what the sliders give.   *)
ASSUME SegAssumption ==
  /\ Dx \in Nat \ {0} /\ Dy \in Nat \ {0} /\ ChunkWide \in Nat \ {0}
  /\ Brightest \in Nat
  /\ Scrolls \subseteq [Voxels -> 0 .. Brightest]
  /\ Steps \subseteq Nat \ {0} /\ Floors \subseteq Nat
  /\ Buckets \in Nat \ {0}

Chunks == (Dx + ChunkWide - 1) \div ChunkWide

Blank     == [v \in Voxels |-> 0]
Unlabeled == [v \in Voxels |-> -1]
NoBuckets == [b \in 0 .. Buckets - 1 |-> <<>>]

-----------------------------------------------------------------------------
(* The variance between the classes of a split at t is greater than at u.    *)
FartherApart(v, t, u) ==
  LET below(s) == {i \in Voxels : v[i] <= s}
      above(s) == {i \in Voxels : v[i] > s}
      Sum(S)   == MapThenSumSet(LAMBDA i : v[i], S)
      pairs(s) == Cardinality(below(s)) * Cardinality(above(s))
      gap(s)   == Cardinality(above(s)) * Sum(below(s)) - Cardinality(below(s)) * Sum(above(s))
  IN gap(t) * gap(t) * pairs(u) > gap(u) * gap(u) * pairs(t)

(* A split leaves voxels on both sides; u is the best before, if it is one.  *)
BetterSplit(v, t, u) ==
  /\ \E i \in Voxels : v[i] <= t
  /\ \E i \in Voxels : v[i] > t
  /\ (\A i \in Voxels : v[i] > u) \/ FartherApart(v, t, u)

(* otsuThreshold(): the first of the best splits; 0 if there is none.        *)
Otsu(v) ==
  LET next(t) == [u \in 0 .. Brightest |-> IF BetterSplit(v, t, u) THEN t ELSE u]
      thr[n \in 0 .. Brightest + 1] == IF n = 0 THEN 0 ELSE next(n - 1)[thr[n - 1]]
  IN thr[Brightest + 1]

Material(i) == vol[i] > air

(* Seeds lie on a regular grid, except in air. *)
SeedsOf(v, threshold, step) ==
  LET onGrid(i) == /\ (i % Dx) % step = step \div 2
                   /\ (i \div Dx) % step = step \div 2
      found[n \in 0 .. Dx * Dy] ==
        IF n = 0 THEN <<>>
        ELSE IF onGrid(n - 1) /\ v[n - 1] > threshold THEN Append(found[n - 1], n - 1)
        ELSE found[n - 1]
  IN found[Dx * Dy]

(* The six neighbours of a voxel, here four, in the order they are pushed.   *)
Neighbours(i) ==
  (IF i % Dx > 0 THEN <<i - 1>> ELSE <<>>) \o
  (IF (i % Dx) + 1 < Dx THEN <<i + 1>> ELSE <<>>) \o
  (IF i \div Dx > 0 THEN <<i - Dx>> ELSE <<>>) \o
  (IF (i \div Dx) + 1 < Dy THEN <<i + Dx>> ELSE <<>>)

AnyBucket(b, c) == b

(* push(): a distance below the cursor goes into the cursor's bucket. *)
BucketFor(b, c) == Max({b, c})

(* What bucket b gets, in order, of the at most four neighbours of a voxel    *)
(* of cluster k, at the distances near.                                      *)
Arrivals(next, near, k, c, b) ==
  LET push(j) == IF j \in DOMAIN near /\ BucketFor(near[j], c) = b
                 THEN <<<<next[j], k>>>> ELSE <<>>
  IN push(1) \o push(2) \o push(3) \o push(4)

Queued == {b \in 0 .. Buckets - 1 : buckets[b] # <<>>}

-----------------------------------------------------------------------------
(* Only one at a time: exchange(true). *)
RunSegmentation ==
  /\ enabled
  /\ ~segRunning
  /\ clicks < MaxClicks
  /\ scroll' \in IF clicks = 0 THEN Scrolls ELSE {scroll}
  /\ settings' \in [step : Steps, floor : Floors]
  /\ segRunning' = TRUE
  /\ enabled' = FALSE
  /\ segThread' = "reading"
  /\ nextChunk' = 0
  /\ vol' = Blank
  /\ clicks' = clicks + 1
  /\ UNCHANGED <<air, label, acc, buckets, cursor, spheres>>

(* A missing chunk is left as it is. *)
ReadChunk ==
  /\ segThread = "reading"
  /\ nextChunk < Chunks
  /\ nextChunk' = nextChunk + 1
  /\ \/ vol' = [i \in Voxels |->
                 IF (i % Dx) \div ChunkWide = nextChunk THEN scroll[i] ELSE vol[i]]
     \/ UNCHANGED vol
  /\ UNCHANGED <<scroll, segRunning, enabled, segThread, settings, air, label, acc,
                 buckets, cursor, spheres, clicks>>

(* The threshold and the seeds. *)
Seed ==
  /\ segThread = "reading"
  /\ nextChunk = Chunks
  /\ air' = IF settings.floor > 0 THEN settings.floor ELSE Otsu(vol)
  /\ LET seeds == SeedsOf(vol, air', settings.step) IN
     /\ acc' = [k \in DOMAIN seeds |-> 0]
     /\ buckets' = [NoBuckets EXCEPT ![0] = [k \in DOMAIN seeds |-> <<seeds[k], k>>]]
  /\ label' = Unlabeled
  /\ cursor' = 0
  /\ segThread' = "flooding"
  /\ UNCHANGED <<scroll, segRunning, enabled, settings, nextChunk, vol, spheres,
                 clicks>>

Floodable(i) == label[i] = -1 /\ Material(i)

(* pop() and what follows: a voxel already labeled is passed over, another   *)
(* joins the cluster, and its neighbours are pushed for it.                  *)
Flood ==
  /\ segThread = "flooding"
  /\ Queued # {}
  /\ LET here  == Min({b \in Queued : b >= cursor})
         voxel == Last(buckets[here])[1]
         k     == Last(buckets[here])[2]
         rest  == [buckets EXCEPT ![here] = Front(@)]
         next  == Neighbours(voxel)
     IN /\ cursor' = here
        /\ IF label[voxel] # -1
           THEN buckets' = rest /\ UNCHANGED <<label, acc>>
           ELSE /\ label' = [label EXCEPT ![voxel] = k]
                /\ acc' = [acc EXCEPT ![k] = @ + 1]
                /\ \E near \in [{j \in DOMAIN next : Floodable(next[j])} -> 0 .. Buckets - 1] :
                     buckets' = [b \in DOMAIN rest |->
                                   rest[b] \o Arrivals(next, near, k, here, b)]
  /\ UNCHANGED <<scroll, segRunning, enabled, segThread, settings, nextChunk, vol,
                 air, spheres, clicks>>

PostIfSeeded ==
  /\ segThread = "flooding"
  /\ Queued = {}
  /\ acc # <<>>
  /\ segThread' = "posted"
  /\ UNCHANGED <<scroll, segRunning, enabled, settings, nextChunk, vol, air, label,
                 acc, buckets, cursor, spheres, clicks>>

PostClusters ==
  /\ segThread = "flooding"
  /\ Queued = {}
  /\ segThread' = "posted"
  /\ UNCHANGED <<scroll, segRunning, enabled, settings, nextChunk, vol, air, label,
                 acc, buckets, cursor, spheres, clicks>>

(* The call that waits in the main thread's event queue.                     *)
ShowClusters ==
  /\ segThread = "posted"
  /\ spheres' = Restrict(acc, {k \in DOMAIN acc : acc[k] > 0 /\ acc[k] >= MinCount})
  /\ enabled' = TRUE
  /\ segRunning' = FALSE
  /\ segThread' = "none"
  /\ UNCHANGED <<scroll, settings, nextChunk, vol, air, label, acc, buckets, cursor,
                 clicks>>

SegInit ==
  /\ scroll = Blank
  /\ segRunning = FALSE
  /\ enabled = TRUE
  /\ segThread = "none"
  /\ settings = [step |-> 2, floor |-> 0]
  /\ nextChunk = 0
  /\ vol = Blank
  /\ air = 0
  /\ label = Unlabeled
  /\ acc = <<>>
  /\ buckets = NoBuckets
  /\ cursor = 0
  /\ spheres = <<>>
  /\ clicks = 0

SegWork == ReadChunk \/ Seed \/ Flood \/ PostClusters

SegNext == RunSegmentation \/ SegWork \/ ShowClusters

SegSpec == SegInit /\ [][SegNext]_segVars

(* The thread runs, its reads are answered, and so does the event loop.      *)
SegFairness == WF_segVars(SegWork) /\ WF_segVars(ShowClusters)

-----------------------------------------------------------------------------
(* Properties. *)

(* SegTypeOK: every label and every entry of the queue names a cluster, and  *)
(* the queue's cursor one of its buckets.                                    *)
SegTypeOK ==
  /\ scroll \in [Voxels -> 0 .. Brightest]
  /\ {segRunning, enabled} \subseteq BOOLEAN
  /\ segThread \in {"none", "reading", "flooding", "posted"}
  /\ settings \in [step : Nat \ {0}, floor : Nat]
  /\ nextChunk \in 0 .. Chunks
  /\ vol \in [Voxels -> 0 .. Brightest]
  /\ air \in Nat
  /\ acc \in Seq(Nat)
  /\ label \in [Voxels -> {-1} \cup DOMAIN acc]
  /\ buckets \in [0 .. Buckets - 1 -> Seq(Voxels \X DOMAIN acc)]
  /\ cursor \in 0 .. Buckets - 1
  /\ \A k \in DOMAIN spheres : spheres[k] \in Nat
  /\ clicks \in Nat

Members(k) == {i \in Voxels : label[i] = k}

(* Spread(S, V): V and what is connected to it inside S, the least set that  *)
(* has V and its own neighbours.                                             *)
Whole(W, S, V) ==
  /\ V \cap S \subseteq W
  /\ \A n \in W : ToSet(Neighbours(n)) \cap S \subseteq W

Spread(S, V) ==
  LET wholes == {W \in SUBSET S : Whole(W, S, V)}
  IN {i \in S : \A W \in wholes : i \in W}

(* SnicPartition: the queue is only nearly sorted, distances shrink below    *)
(* its cursor, and a voxel waits in it once for each neighbour that reached  *)
(* it, for clusters that race for it; yet no entry is ever behind the        *)
(* cursor, where pop() would run past the last bucket, and in the end every  *)
(* voxel of material that is connected with a seed is in exactly one         *)
(* cluster, no voxel of air is in any, and each cluster is connected with    *)
(* its own seed ("exact connectivity by construction", Snic3D.h:22) and     *)
(* has as many voxels as it counted.  Otsu's threshold never takes the       *)
(* brightest voxels for air.                                                 *)
SnicPartition ==
  /\ segThread = "flooding" => \A b \in Queued : b >= cursor
  /\ segThread = "posted" =>
       LET seeds    == SeedsOf(vol, air, settings.step)
           material == {i \in Voxels : Material(i)}
       IN /\ {i \in Voxels : label[i] # -1} = Spread(material, ToSet(seeds))
          /\ \A k \in DOMAIN seeds :
               /\ Spread(Members(k), {seeds[k]}) = Members(k)
               /\ acc[k] = Cardinality(Members(k))
          /\ settings.floor = 0 /\ vol # Blank => material # {}

(* SegmentationEnds: whatever the level holds and whichever reads fail, the  *)
(* flood ends, and the button can be clicked again.                          *)
SegmentationEnds == segRunning ~> ~segRunning /\ enabled

=============================================================================

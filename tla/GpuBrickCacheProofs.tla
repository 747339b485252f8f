------------------------ MODULE GpuBrickCacheProofs ------------------------
(***************************************************************************)
(* Proofs about GpuBrickCache, for any tiles, levels, slots and size of the  *)
(* tile pool: the four indexes of the brick pool agree, what a frame draws   *)
(* are a brick's own voxels, the oldest brick goes, and with tiles enough    *)
(* the sparse tables are a flat page table.                                  *)
(*                                                                         *)
(* OneIndex needs that no two tiles of the directory share a page-table tile *)
(* (TablesApart), or writing one brick's entry would change another's.       *)
(* DrawSeesOwnBrick needs that what the textures lack is always marked dirty *)
(* (MirrorsTracked) and that the pool holds what the slots say (PoolFilled). *)
(***************************************************************************)
EXTENDS GpuBrickCache, FiniteSetTheorems, TLAPS

Pages == [dir       : [Tiles -> 0 .. TileCapacity + 1],
          tile      : [TileSlots -> [Offsets -> Entry]],
          allocated : 0..TileCapacity,
          dirDirty  : [Levels -> BOOLEAN],
          tileDirty : [TileSlots -> BOOLEAN]]

(* What the tables say of brick k. *)
EntryFor(p, k) == Lookup(p.dir, p.tile, k)

(* The tiles of the directory that have no page-table tile, and the case     *)
(* that there is one for each of them, as TilesSuffice says of the mirrors. *)
Bare(p) == {t \in Tiles : p.dir[t] < 2}
Suffices(p) == Cardinality(Bare(p)) <= TileCapacity - p.allocated

(* The directory's page-table tiles are in use, and none has two owners. *)
TablesApart(p) ==
  /\ \A t \in Tiles : p.dir[t] < p.allocated + 2
  /\ \A t, u \in Tiles : p.dir[t] >= 2 /\ p.dir[t] = p.dir[u] => t = u

(* What is not marked dirty in p is the same in the textures. *)
Tracked(p) ==
  /\ \A t \in Tiles : ~p.dirDirty[LevelOf[t]] => textures.dir[t] = p.dir[t]
  /\ \A i \in TileSlots : ~p.tileDirty[i] => textures.tile[i] = p.tile[i]
  /\ \A i \in TileSlots : p.tileDirty[i] => i < p.allocated

(* While frames are drawn nothing is dirty. *)
MirrorsTracked ==
  /\ Tracked(pages)
  /\ phase = "drawing" =>
       /\ \A l \in Levels : ~pages.dirDirty[l]
       /\ \A i \in TileSlots : ~pages.tileDirty[i]

(* A slot's voxels are those of its brick; a free one was never written. *)
PoolFilled ==
  \A s \in Slots : /\ pool[s] = slots[s].key
                   /\ slots[s].occupied => slots[s].key \in Keys
                   /\ ~slots[s].occupied => slots[s].key = NoBrick

(* The parts of OneIndex: the CPU's indexes agree with each other, the page  *)
(* entries with them, and with tiles enough no resident brick is without one. *)
SlotsAgree ==
  /\ \A k \in Keys, s \in Slots :
       slotOf[k] = s <=> slots[s].occupied /\ slots[s].key = k
  /\ \A s \in Slots : slots[s].occupied <=> s \notin Range(freeSlots)
  /\ IsInjective(freeSlots)

EntriesAgree ==
  \A k \in Keys, s \in Slots : EntryFor(pages, k) = Resident(s) => slotOf[k] = s

NoHoles ==
  Suffices(pages) => \A k \in Keys : slotOf[k] \in Slots => EntryFor(pages, k) # Unknown

CInv == /\ TypeOK
        /\ TablesApart(pages)
        /\ MirrorsTracked
        /\ PoolFilled
        /\ SlotsAgree
        /\ EntriesAgree
        /\ NoHoles

-----------------------------------------------------------------------------
(* The page tables. *)

(* Tables p have, or can get, a page-table tile for t. *)
HasRoom(p, t) == p.dir[t] >= 2 \/ HasTile(p)

(* Tables q say v of the bricks in S and what p says of the others; what     *)
(* they changed is marked dirty, and the shortage of tiles is the same.      *)
Rewrites(p, q, S, v) ==
  /\ q \in Pages
  /\ TablesApart(q)
  /\ \A k \in Keys : EntryFor(q, k) = IF k \in S THEN v ELSE EntryFor(p, k)
  /\ \A t \in Tiles : ~q.dirDirty[LevelOf[t]] =>
        ~p.dirDirty[LevelOf[t]] /\ q.dir[t] = p.dir[t]
  /\ \A i \in TileSlots : ~q.tileDirty[i] =>
        ~p.tileDirty[i] /\ q.tile[i] = p.tile[i]
  /\ \A i \in TileSlots : q.tileDirty[i] => p.tileDirty[i] \/ i < q.allocated
  /\ p.allocated <= q.allocated
  /\ Suffices(p) <=> Suffices(q)

LEMMA PagesFields ==
  ASSUME NEW p \in Pages
  PROVE  /\ p.dir \in [Tiles -> 0 .. TileCapacity + 1]
         /\ p.tile \in [TileSlots -> [Offsets -> Entry]]
         /\ p.allocated \in 0..TileCapacity
         /\ p.dirDirty \in [Levels -> BOOLEAN]
         /\ p.tileDirty \in [TileSlots -> BOOLEAN]
BY DEF Pages

LEMMA EntryTypes ==
  /\ Unknown \in Entry /\ Empty \in Entry /\ Unknown # Empty
  /\ \A s \in Slots : /\ Resident(s) \in Entry
                      /\ Resident(s) # Unknown /\ Resident(s) # Empty
                      /\ \A r \in Slots : Resident(s) = Resident(r) => s = r
BY DEF Entry, Unknown, Empty, Resident

(* Writing tiles and their flags leaves the rest of the tables alone. *)
Retiled(p, a, b) == [p EXCEPT !.tile = a, !.tileDirty = b]

LEMMA TileChanges ==
  ASSUME NEW p \in Pages,
         NEW a \in [TileSlots -> [Offsets -> Entry]],
         NEW b \in [TileSlots -> BOOLEAN],
         NEW q, q = Retiled(p, a, b)
  PROVE  /\ q \in Pages
         /\ q.dir = p.dir /\ q.allocated = p.allocated /\ q.dirDirty = p.dirDirty
         /\ q.tile = a /\ q.tileDirty = b
BY DEF Pages, Retiled

(* And so for the directory. *)
Redirected(p, a, b) == [p EXCEPT !.dir = a, !.dirDirty = b]

LEMMA DirChanges ==
  ASSUME NEW p \in Pages,
         NEW a \in [Tiles -> 0 .. TileCapacity + 1],
         NEW b \in [Levels -> BOOLEAN],
         NEW q, q = Redirected(p, a, b)
  PROVE  /\ q \in Pages
         /\ q.tile = p.tile /\ q.allocated = p.allocated /\ q.tileDirty = p.tileDirty
         /\ q.dir = a /\ q.dirDirty = b
BY DEF Pages, Redirected

LEMMA KeyParts ==
  ASSUME NEW k \in Keys
  PROVE  k[1] \in Tiles /\ k[2] \in Offsets /\ k = <<k[1], k[2]>>
BY DEF Keys

(* What the tables say is an entry, found by the directory's tag. *)
LEMMA EntryCases ==
  ASSUME NEW p \in Pages, TablesApart(p), NEW k \in Keys
  PROVE  /\ p.dir[k[1]] \in Nat
         /\ p.dir[k[1]] = 0 => EntryFor(p, k) = Unknown
         /\ p.dir[k[1]] = 1 => EntryFor(p, k) = Empty
         /\ p.dir[k[1]] >= 2 => /\ p.dir[k[1]] - 2 \in TileSlots
                                /\ EntryFor(p, k) = p.tile[p.dir[k[1]] - 2][k[2]]
         /\ EntryFor(p, k) \in Entry
<1> DEFINE d == p.dir[k[1]]
<1>1. /\ d \in 0 .. TileCapacity + 1
      /\ d < p.allocated + 2
      /\ p.allocated \in 0..TileCapacity
      /\ p.tile \in [TileSlots -> [Offsets -> Entry]]
      /\ TileCapacity \in Nat
      /\ k[2] \in Offsets
  BY KeyParts, PagesFields, CacheAssumption DEF TablesApart, CacheAssumption
<1>2. d >= 2 => d - 2 \in TileSlots
  BY <1>1 DEF TileSlots
<1>3. EntryFor(p, k) = IF d = 0 THEN Unknown
                      ELSE IF d = 1 THEN Empty ELSE p.tile[d - 2][k[2]]
  BY DEF EntryFor, Lookup, kDirUnknown, kDirAllEmpty
<1>4. d >= 2 => p.tile[d - 2][k[2]] \in Entry
  BY <1>1, <1>2
<1> QED BY <1>1, <1>2, <1>3, <1>4, EntryTypes

LEMMA BareFinite ==
  ASSUME NEW p
  PROVE  IsFiniteSet(Bare(p)) /\ Cardinality(Bare(p)) \in Nat
BY FS_Subset, FS_CardinalityType, CacheAssumption DEF Bare, CacheAssumption

(* With tiles enough there is one for every tile of the directory. *)
LEMMA SufficesHasRoom ==
  ASSUME NEW p \in Pages, NEW t \in Tiles, Suffices(p)
  PROVE  HasRoom(p, t)
<1>1. p.dir[t] \in Nat /\ p.allocated \in Nat /\ TileCapacity \in Nat
  BY PagesFields, CacheAssumption DEF CacheAssumption
<1>2. p.dir[t] < 2 => Cardinality(Bare(p)) # 0
  <2>1. p.dir[t] < 2 => Bare(p) # {}
    BY DEF Bare
  <2> QED BY <2>1, BareFinite, FS_EmptySet
<1> QED BY <1>1, <1>2, BareFinite DEF HasRoom, HasTile, Suffices

(* allocateTile() changes no brick's entry: a tile that was all empty still  *)
(* says so, brick by brick. *)
LEMMA AllocateKeepsEntries ==
  ASSUME NEW p \in Pages, TablesApart(p), NEW t \in Tiles,
         p.dir[t] < 2, HasTile(p),
         NEW q, q = AllocateTile(p, t)
  PROVE  /\ Rewrites(p, q, {}, Unknown)
         /\ q.dir[t] >= 2
         /\ q.allocated = p.allocated + 1
         /\ \A u \in Tiles \ {t} : q.dir[u] = p.dir[u]
<1> DEFINE n == p.allocated
           fill == IF p.dir[t] = kDirAllEmpty THEN Empty ELSE Unknown
<1>0. /\ p.dir \in [Tiles -> 0 .. TileCapacity + 1]
      /\ p.tile \in [TileSlots -> [Offsets -> Entry]]
      /\ p.dirDirty \in [Levels -> BOOLEAN]
      /\ p.tileDirty \in [TileSlots -> BOOLEAN]
  BY PagesFields
<1>1. /\ n \in TileSlots /\ n + 1 \in 0..TileCapacity
      /\ n + 2 \in 0 .. TileCapacity + 1 /\ n + 2 >= 2
      /\ n \in Nat /\ TileCapacity \in Nat
  BY PagesFields, CacheAssumption DEF TileSlots, HasTile, CacheAssumption
<1>2. /\ q.dir = [p.dir EXCEPT ![t] = n + 2]
      /\ q.tile = [p.tile EXCEPT ![n] = [o \in Offsets |-> fill]]
      /\ q.allocated = n + 1
      /\ q.dirDirty = [p.dirDirty EXCEPT ![LevelOf[t]] = TRUE]
      /\ q.tileDirty = [p.tileDirty EXCEPT ![n] = TRUE]
  BY DEF AllocateTile
<1>3. fill \in Entry /\ [o \in Offsets |-> fill] \in [Offsets -> Entry]
  BY EntryTypes
<1>4. LevelOf[t] \in Levels
  BY CacheAssumption DEF CacheAssumption
<1>11. \/ p.dir[t] = 0 /\ fill = Unknown
       \/ p.dir[t] = 1 /\ fill = Empty
  <2>1. p.dir[t] \in 0 .. TileCapacity + 1
    BY <1>0
  <2>2. p.dir[t] = 0 \/ p.dir[t] = 1
    BY <2>1
  <2> QED BY <2>2 DEF kDirAllEmpty
<1> HIDE DEF fill
<1>5. /\ q.dir \in [Tiles -> 0 .. TileCapacity + 1]
      /\ q.tile \in [TileSlots -> [Offsets -> Entry]]
      /\ q.allocated \in 0..TileCapacity
      /\ q.dirDirty \in [Levels -> BOOLEAN]
      /\ q.tileDirty \in [TileSlots -> BOOLEAN]
  <2>1. q.dir \in [Tiles -> 0 .. TileCapacity + 1]
    BY <1>0, <1>1, <1>2
  <2>2. q.tile \in [TileSlots -> [Offsets -> Entry]]
    BY <1>0, <1>2, <1>3
  <2>3. q.dirDirty \in [Levels -> BOOLEAN] /\ q.tileDirty \in [TileSlots -> BOOLEAN]
    BY <1>0, <1>2
  <2> QED BY <1>1, <1>2, <2>1, <2>2, <2>3
<1>6. q \in Pages
  BY <1>5 DEF Pages, AllocateTile
<1>7. /\ q.dir[t] = n + 2
      /\ \A u \in Tiles \ {t} : q.dir[u] = p.dir[u]
      /\ \A i \in TileSlots \ {n} : q.tile[i] = p.tile[i]
      /\ \A o \in Offsets : q.tile[n][o] = fill
  BY <1>1, <1>2, PagesFields
<1>8. TablesApart(q)
  <2>1. \A u \in Tiles : p.dir[u] \in Nat /\ p.dir[u] < n + 2
    BY PagesFields DEF TablesApart
  <2> QED BY <1>1, <1>2, <1>7, <2>1 DEF TablesApart
<1>9. ASSUME NEW k \in Keys PROVE EntryFor(q, k) = EntryFor(p, k)
  <2>1. k[1] \in Tiles /\ k[2] \in Offsets
    BY KeyParts
  <2>2. CASE k[1] = t
    <3>1. EntryFor(q, k) = q.tile[n][k[2]]
      BY <1>1, <1>6, <1>7, <1>8, <2>2, EntryCases
    <3>2. EntryFor(q, k) = fill
      BY <1>7, <2>1, <3>1
    <3> QED BY <1>11, <2>2, <3>2, EntryCases
  <2>3. CASE k[1] # t
    <3>1. q.dir[k[1]] = p.dir[k[1]]
      BY <1>7, <2>1, <2>3
    <3>2. p.dir[k[1]] >= 2 =>
            /\ p.dir[k[1]] - 2 \in TileSlots /\ p.dir[k[1]] - 2 # n
      BY <1>1, <2>1, EntryCases DEF TablesApart
    <3>3. p.dir[k[1]] \in Nat
      BY EntryCases
    <3>4. p.dir[k[1]] >= 2 => q.tile[p.dir[k[1]] - 2] = p.tile[p.dir[k[1]] - 2]
      BY <1>7, <3>2
    <3> QED BY <1>6, <1>8, <3>1, <3>3, <3>4, EntryCases
  <2> QED BY <2>2, <2>3
<1>10. /\ \A u \in Tiles : ~q.dirDirty[LevelOf[u]] =>
            ~p.dirDirty[LevelOf[u]] /\ q.dir[u] = p.dir[u]
       /\ \A i \in TileSlots : ~q.tileDirty[i] =>
            ~p.tileDirty[i] /\ q.tile[i] = p.tile[i]
       /\ \A i \in TileSlots : q.tileDirty[i] => p.tileDirty[i] \/ i < q.allocated
  <2>1. \A u \in Tiles : LevelOf[u] \in Levels
    BY CacheAssumption DEF CacheAssumption
  <2>2. /\ q.dirDirty[LevelOf[t]]
        /\ \A l \in Levels \ {LevelOf[t]} : q.dirDirty[l] = p.dirDirty[l]
    BY <1>0, <1>2, <1>4
  <2>3. /\ q.tileDirty[n]
        /\ \A i \in TileSlots \ {n} : q.tileDirty[i] = p.tileDirty[i]
    BY <1>0, <1>1, <1>2
  <2>4. \A u \in Tiles : ~q.dirDirty[LevelOf[u]] =>
             ~p.dirDirty[LevelOf[u]] /\ q.dir[u] = p.dir[u]
    BY <1>7, <2>1, <2>2
  <2>5. \A i \in TileSlots : ~q.tileDirty[i] =>
            ~p.tileDirty[i] /\ q.tile[i] = p.tile[i]
    BY <1>7, <2>3
  <2>6. \A i \in TileSlots : q.tileDirty[i] => p.tileDirty[i] \/ i < q.allocated
    BY <1>1, <1>2, <2>3
  <2> QED BY <2>4, <2>5, <2>6
<1>12. Suffices(p) <=> Suffices(q)
  <2>1. \A u \in Tiles : p.dir[u] \in Nat
    BY <1>0
  <2>2. Bare(q) = Bare(p) \ {t} /\ t \in Bare(p)
    BY <1>1, <1>7, <2>1 DEF Bare
  <2>3. Cardinality(Bare(p)) \in Nat
        /\ Cardinality(Bare(q)) = Cardinality(Bare(p)) - 1
    BY <2>2, BareFinite, FS_RemoveElement
  <2> QED BY <1>1, <1>2, <2>3 DEF Suffices
<1> QED BY <1>1, <1>2, <1>6, <1>7, <1>8, <1>9, <1>10, <1>12 DEF Rewrites

LEMMA WithTileKeepsEntries ==
  ASSUME NEW p \in Pages, TablesApart(p), NEW t \in Tiles,
         NEW q, q = WithTile(p, t)
  PROVE  /\ Rewrites(p, q, {}, Unknown)
         /\ HasRoom(p, t) => q.dir[t] >= 2
         /\ q.dir[t] < 2 => q = p
<1>1. p.dir[t] \in Nat
  BY PagesFields
<1>2. CASE p.dir[t] < 2 /\ HasTile(p)
  <2>1. q = AllocateTile(p, t)
    BY <1>2 DEF WithTile
  <2>2. Rewrites(p, q, {}, Unknown) /\ q.dir[t] >= 2
    BY <1>2, <2>1, AllocateKeepsEntries
  <2>3. q.dir[t] \in Nat
    BY <2>2, PagesFields DEF Rewrites
  <2> QED BY <2>2, <2>3
<1>3. CASE ~(p.dir[t] < 2 /\ HasTile(p))
  <2>1. q = p
    BY <1>3 DEF WithTile
  <2>2. p.allocated \in Nat
    BY PagesFields
  <2> QED BY <1>1, <1>3, <2>1, <2>2 DEF Rewrites, HasRoom
<1> QED BY <1>2, <1>3

(* New content c for the page-table tile of t. *)
LEMMA TileRewritten ==
  ASSUME NEW p \in Pages, TablesApart(p), NEW t \in Tiles, p.dir[t] >= 2,
         NEW c \in [Offsets -> Entry], NEW q,
         q = Retiled(p, [p.tile EXCEPT ![p.dir[t] - 2] = c],
                        [p.tileDirty EXCEPT ![p.dir[t] - 2] = TRUE])
  PROVE  /\ q \in Pages /\ TablesApart(q)
         /\ \A k \in Keys :
               EntryFor(q, k) = IF k[1] = t THEN c[k[2]] ELSE EntryFor(p, k)
         /\ q.dir = p.dir /\ q.dirDirty = p.dirDirty /\ q.allocated = p.allocated
         /\ \A i \in TileSlots : ~q.tileDirty[i] =>
               ~p.tileDirty[i] /\ q.tile[i] = p.tile[i]
         /\ \A i \in TileSlots : q.tileDirty[i] => p.tileDirty[i] \/ i < q.allocated
<1> DEFINE i == p.dir[t] - 2
           a == [p.tile EXCEPT ![i] = c]
           b == [p.tileDirty EXCEPT ![i] = TRUE]
<1>1. /\ p.tile \in [TileSlots -> [Offsets -> Entry]]
      /\ p.tileDirty \in [TileSlots -> BOOLEAN]
  BY PagesFields
<1>2. i \in TileSlots /\ i < p.allocated
  <2>1. p.dir[t] \in 0 .. TileCapacity + 1 /\ p.dir[t] < p.allocated + 2
        /\ p.allocated \in 0..TileCapacity /\ TileCapacity \in Nat
    BY PagesFields, CacheAssumption DEF TablesApart, CacheAssumption
  <2> QED BY <2>1 DEF TileSlots
<1>3. /\ a \in [TileSlots -> [Offsets -> Entry]]
      /\ a[i] = c /\ \A j \in TileSlots \ {i} : a[j] = p.tile[j]
  BY <1>1, <1>2
<1>4. /\ b \in [TileSlots -> BOOLEAN]
      /\ b[i] /\ \A j \in TileSlots \ {i} : b[j] = p.tileDirty[j]
  BY <1>1, <1>2
<1>5. q = Retiled(p, a, b)
  OBVIOUS
<1> HIDE DEF i, a, b
<1>6. /\ q \in Pages
      /\ q.dir = p.dir /\ q.allocated = p.allocated /\ q.dirDirty = p.dirDirty
      /\ q.tile = a /\ q.tileDirty = b
  BY <1>3, <1>4, <1>5, TileChanges
<1>7. TablesApart(q)
  BY <1>6 DEF TablesApart
<1>8. ASSUME NEW k \in Keys
      PROVE  EntryFor(q, k) = IF k[1] = t THEN c[k[2]] ELSE EntryFor(p, k)
  <2>1. k[1] \in Tiles /\ k[2] \in Offsets
    BY KeyParts
  <2>2. k[1] = t => EntryFor(q, k) = c[k[2]]
    BY <1>3, <1>6, <1>7, EntryCases DEF i
  <2>3. ASSUME k[1] # t PROVE EntryFor(q, k) = EntryFor(p, k)
    <3>1. p.dir[k[1]] >= 2 => /\ p.dir[k[1]] - 2 \in TileSlots
                              /\ p.dir[k[1]] # p.dir[t]
      BY <2>1, <2>3, EntryCases DEF TablesApart
    <3>2. p.dir[k[1]] \in Nat /\ p.dir[t] \in Nat
      BY <2>1, PagesFields
    <3>3. p.dir[k[1]] >= 2 => p.dir[k[1]] - 2 \in TileSlots \ {i}
      BY <3>1, <3>2 DEF i
    <3>4. p.dir[k[1]] >= 2 => a[p.dir[k[1]] - 2] = p.tile[p.dir[k[1]] - 2]
      BY <1>3, <3>3
    <3>5. p.dir[k[1]] < 2 => EntryFor(q, k) = EntryFor(p, k)
      BY <1>6, <1>7, <3>2, EntryCases
    <3>6. p.dir[k[1]] >= 2 => EntryFor(q, k) = EntryFor(p, k)
      BY <1>6, <1>7, <3>4, EntryCases
    <3> QED BY <3>2, <3>5, <3>6
  <2> QED BY <2>2, <2>3
<1>9. /\ \A j \in TileSlots : ~b[j] => ~p.tileDirty[j] /\ a[j] = p.tile[j]
      /\ \A j \in TileSlots : b[j] => p.tileDirty[j] \/ j < p.allocated
  BY <1>2, <1>3, <1>4
<1> QED BY <1>6, <1>7, <1>8, <1>9

(* The fields of a tile that is rewritten, as the model writes them. *)
LEMMA OneEntryRetiled ==
  ASSUME NEW r, NEW i, NEW o, NEW v
  PROVE  [r EXCEPT !.tile[i][o] = v, !.tileDirty[i] = TRUE] =
           Retiled(r, [r.tile EXCEPT ![i] = [r.tile[i] EXCEPT ![o] = v]],
                      [r.tileDirty EXCEPT ![i] = TRUE])
BY Zenon DEF Retiled

LEMMA WriteEntryIsRetiled ==
  ASSUME NEW p, NEW k, NEW v, NEW r, r = WithTile(p, k[1]), ~(r.dir[k[1]] < 2),
         NEW i, i = r.dir[k[1]] - 2, NEW o, o = k[2]
  PROVE  WriteEntry(p, k, v) =
           Retiled(r, [r.tile EXCEPT ![i] = [r.tile[i] EXCEPT ![o] = v]],
                      [r.tileDirty EXCEPT ![i] = TRUE])
<1>1. WriteEntry(p, k, v) =
        [r EXCEPT !.tile[i][o] = v, !.tileDirty[i] = TRUE]
  BY Zenon DEF WriteEntry
<1>2. [r EXCEPT !.tile[i][o] = v, !.tileDirty[i] = TRUE] =
        Retiled(r, [r.tile EXCEPT ![i] = [r.tile[i] EXCEPT ![o] = v]],
                   [r.tileDirty EXCEPT ![i] = TRUE])
  BY Zenon DEF Retiled
<1> QED BY Zenon, <1>1, <1>2

LEMMA SeededTileIsRetiled ==
  ASSUME NEW p, NEW t, NEW E, E # {}, ~(E = Offsets /\ p.dir[t] = kDirUnknown),
         NEW r, r = WithTile(p, t), ~(r.dir[t] < 2), NEW i, i = r.dir[t] - 2
  PROVE  SeededTile(p, t, E) =
           Retiled(r, [r.tile EXCEPT ![i] =
                         [o \in Offsets |-> IF o \in E THEN Empty ELSE r.tile[i][o]]],
                      [r.tileDirty EXCEPT ![i] = TRUE])
<1>1. SeededTile(p, t, E) =
        [r EXCEPT !.tile[i] = [o \in Offsets |-> IF o \in E THEN Empty ELSE @[o]],
                  !.tileDirty[i] = TRUE]
  BY Zenon DEF SeededTile
<1> QED BY Zenon, <1>1 DEF Retiled

(* Rewriting after a tile was made rewrites the tables as they were. *)
LEMMA RewritesAgain ==
  ASSUME NEW p \in Pages, NEW r \in Pages, NEW q \in Pages, NEW S, NEW v,
         Rewrites(p, r, {}, Unknown), TablesApart(q),
         \A k \in Keys : EntryFor(q, k) = IF k \in S THEN v ELSE EntryFor(r, k),
         q.dir = r.dir, q.dirDirty = r.dirDirty, q.allocated = r.allocated,
         \A i \in TileSlots : ~q.tileDirty[i] => ~r.tileDirty[i] /\ q.tile[i] = r.tile[i],
         \A i \in TileSlots : q.tileDirty[i] => r.tileDirty[i] \/ i < q.allocated
  PROVE  Rewrites(p, q, S, v)
<1>1. \A k \in Keys : EntryFor(q, k) = IF k \in S THEN v ELSE EntryFor(p, k)
  BY DEF Rewrites
<1>2. /\ \A t \in Tiles : ~q.dirDirty[LevelOf[t]] =>
           ~p.dirDirty[LevelOf[t]] /\ q.dir[t] = p.dir[t]
      /\ \A i \in TileSlots : ~q.tileDirty[i] =>
           ~p.tileDirty[i] /\ q.tile[i] = p.tile[i]
      /\ \A i \in TileSlots : q.tileDirty[i] => p.tileDirty[i] \/ i < q.allocated
      /\ p.allocated <= q.allocated
  BY DEF Rewrites
<1>3. Suffices(p) <=> Suffices(q)
  BY DEF Rewrites, Suffices, Bare
<1> QED BY <1>1, <1>2, <1>3 DEF Rewrites

(* writeEntry() sets one brick's entry, or with the tile pool exhausted none. *)
LEMMA WriteEntryRewrites ==
  ASSUME NEW p \in Pages, TablesApart(p), NEW k \in Keys, NEW v \in Entry,
         NEW q, q = WriteEntry(p, k, v)
  PROVE  \/ Rewrites(p, q, {k}, v)
         \/ q = p /\ ~HasRoom(p, k[1])
<1> DEFINE r == WithTile(p, k[1])
<1>1. k[1] \in Tiles /\ k[2] \in Offsets
  BY KeyParts
<1>2. /\ Rewrites(p, r, {}, Unknown)
      /\ HasRoom(p, k[1]) => r.dir[k[1]] >= 2
  BY <1>1, WithTileKeepsEntries
<1>3. r \in Pages /\ TablesApart(r) /\ r.dir[k[1]] \in Nat
  BY <1>1, <1>2, PagesFields DEF Rewrites
<1>4. CASE r.dir[k[1]] < 2
  <2>1. q = p
    BY <1>4 DEF WriteEntry
  <2> QED BY <1>2, <1>3, <1>4, <2>1
<1>5. CASE r.dir[k[1]] >= 2
  <2> DEFINE i == r.dir[k[1]] - 2
             c == [r.tile[i] EXCEPT ![k[2]] = v]
  <2>1. q = Retiled(r, [r.tile EXCEPT ![i] = c], [r.tileDirty EXCEPT ![i] = TRUE])
    BY <1>3, <1>5, WriteEntryIsRetiled
  <2>2. r.tile \in [TileSlots -> [Offsets -> Entry]] /\ i \in TileSlots
    BY <1>3, <1>5, PagesFields, EntryCases
  <2>3. /\ c \in [Offsets -> Entry] /\ c[k[2]] = v
        /\ \A o \in Offsets \ {k[2]} : c[o] = r.tile[i][o]
    BY <1>1, <2>2
  <2> HIDE DEF c, i
  <2> DEFINE t == k[1]
  <2>7. t \in Tiles /\ r.dir[t] >= 2 /\ i = r.dir[t] - 2
    BY <1>1, <1>5 DEF i
  <2> HIDE DEF t, r
  <2>4. /\ q \in Pages /\ TablesApart(q)
        /\ \A j \in Keys :
              EntryFor(q, j) = IF j[1] = t THEN c[j[2]] ELSE EntryFor(r, j)
        /\ q.dir = r.dir /\ q.dirDirty = r.dirDirty /\ q.allocated = r.allocated
        /\ \A n \in TileSlots : ~q.tileDirty[n] =>
              ~r.tileDirty[n] /\ q.tile[n] = r.tile[n]
        /\ \A n \in TileSlots : q.tileDirty[n] => r.tileDirty[n] \/ n < q.allocated
    BY <1>3, <2>1, <2>3, <2>7, TileRewritten
  <2>5. ASSUME NEW j \in Keys
        PROVE  EntryFor(q, j) = IF j \in {k} THEN v ELSE EntryFor(r, j)
    <3>1. CASE j = k
      BY <2>3, <2>4, <3>1 DEF t
    <3>2. CASE j # k /\ j[1] = k[1]
      <4>1. j[2] \in Offsets \ {k[2]}
        BY <3>2, KeyParts
      <4>2. EntryFor(r, j) = r.tile[i][j[2]]
        BY <1>3, <1>5, <3>2, EntryCases DEF i
      <4> QED BY <2>3, <2>4, <3>2, <4>1, <4>2 DEF t
    <3>3. CASE j[1] # k[1]
      BY <2>4, <3>3 DEF t
    <3> QED BY <3>1, <3>2, <3>3
  <2>6. Rewrites(p, q, {k}, v)
    BY <1>2, <1>3, <2>4, <2>5, RewritesAgain
  <2> QED BY <2>6
<1> QED BY <1>3, <1>4, <1>5

(* seedEmpties() makes bricks of one tile empty, or for want of a page-table *)
(* tile none. *)
LEMMA SeededTileRewrites ==
  ASSUME NEW p \in Pages, TablesApart(p), NEW t \in Tiles, NEW E \in SUBSET Offsets,
         NEW q, q = SeededTile(p, t, E)
  PROVE  \/ Rewrites(p, q, {t} \X E, Empty)
         \/ q = p /\ ~HasRoom(p, t)
<1> DEFINE r == WithTile(p, t)
<1>1. /\ Rewrites(p, r, {}, Unknown)
      /\ HasRoom(p, t) => r.dir[t] >= 2
  BY WithTileKeepsEntries
<1>2. r \in Pages /\ TablesApart(r) /\ r.dir[t] \in Nat
  BY <1>1, PagesFields DEF Rewrites
<1>3. ASSUME NEW j \in Keys PROVE j \in {t} \X E <=> j[1] = t /\ j[2] \in E
  BY KeyParts
<1>4. CASE E = {}
  <2>1. q = p
    BY Zenon, <1>4, CacheAssumption DEF SeededTile, CacheAssumption
  <2>2. {t} \X E = {} /\ p.allocated \in Nat
    BY <1>4, PagesFields
  <2> QED BY <2>1, <2>2 DEF Rewrites
<1>5. CASE E # {} /\ E = Offsets /\ p.dir[t] = kDirUnknown
  <2> DEFINE a == [p.dir EXCEPT ![t] = kDirAllEmpty]
             b == [p.dirDirty EXCEPT ![LevelOf[t]] = TRUE]
  <2>1. q = Redirected(p, a, b)
    BY Zenon, <1>5 DEF SeededTile, Redirected
  <2>2. /\ p.dir \in [Tiles -> 0 .. TileCapacity + 1]
        /\ p.dirDirty \in [Levels -> BOOLEAN]
        /\ LevelOf \in [Tiles -> Levels]
        /\ TileCapacity \in Nat /\ p.allocated \in Nat
    BY PagesFields, CacheAssumption DEF CacheAssumption
  <2>3. /\ a \in [Tiles -> 0 .. TileCapacity + 1] /\ a[t] = 1
        /\ \A u \in Tiles \ {t} : a[u] = p.dir[u]
    BY <2>2 DEF kDirAllEmpty
  <2>4. /\ b \in [Levels -> BOOLEAN] /\ b[LevelOf[t]]
        /\ \A l \in Levels \ {LevelOf[t]} : b[l] = p.dirDirty[l]
    BY <2>2
  <2> HIDE DEF a, b
  <2>5. /\ q \in Pages
        /\ q.tile = p.tile /\ q.allocated = p.allocated /\ q.tileDirty = p.tileDirty
        /\ q.dir = a /\ q.dirDirty = b
    BY <2>1, <2>3, <2>4, DirChanges
  <2>6. TablesApart(q)
    <3>1. p.dir[t] = 0
      BY <1>5 DEF kDirUnknown
    <3> QED BY <2>2, <2>3, <2>5, <3>1 DEF TablesApart
  <2>7. ASSUME NEW j \in Keys
        PROVE  EntryFor(q, j) = IF j \in {t} \X E THEN Empty ELSE EntryFor(p, j)
    <3>1. CASE j[1] = t
      <4>1. EntryFor(q, j) = Empty
        BY <2>3, <2>5, <2>6, <3>1, EntryCases
      <4> QED BY <1>3, <1>5, <3>1, <4>1, KeyParts
    <3>2. CASE j[1] # t
      <4>1. q.dir[j[1]] = p.dir[j[1]] /\ q.tile = p.tile
        BY <2>3, <2>5, <3>2, KeyParts
      <4>2. EntryFor(q, j) = EntryFor(p, j)
        BY <4>1 DEF EntryFor, Lookup
      <4> QED BY <1>3, <3>2, <4>2
    <3> QED BY <3>1, <3>2
  <2>8. \A u \in Tiles : ~q.dirDirty[LevelOf[u]] =>
           ~p.dirDirty[LevelOf[u]] /\ q.dir[u] = p.dir[u]
    BY <2>2, <2>3, <2>4, <2>5
  <2>9. Suffices(p) <=> Suffices(q)
    <3>1. \A u \in Tiles : q.dir[u] < 2 <=> p.dir[u] < 2
      BY <1>5, <2>2, <2>3, <2>5 DEF kDirUnknown
    <3>2. Bare(q) = Bare(p)
      BY <3>1 DEF Bare
    <3> QED BY <2>5, <3>2 DEF Suffices
  <2> QED BY <2>2, <2>5, <2>6, <2>7, <2>8, <2>9 DEF Rewrites
<1>6. CASE E # {} /\ ~(E = Offsets /\ p.dir[t] = kDirUnknown) /\ r.dir[t] < 2
  <2>1. q = p
    BY <1>6 DEF SeededTile
  <2> QED BY <1>1, <1>2, <1>6, <2>1
<1>7. CASE E # {} /\ ~(E = Offsets /\ p.dir[t] = kDirUnknown) /\ r.dir[t] >= 2
  <2> DEFINE i == r.dir[t] - 2
             c == [o \in Offsets |-> IF o \in E THEN Empty ELSE r.tile[i][o]]
  <2>1. q = Retiled(r, [r.tile EXCEPT ![i] = c], [r.tileDirty EXCEPT ![i] = TRUE])
    BY <1>2, <1>7, SeededTileIsRetiled
  <2>2. r.tile \in [TileSlots -> [Offsets -> Entry]]
    BY <1>2, PagesFields
  <2>3. ASSUME NEW j \in Keys, j[1] = t
        PROVE  i \in TileSlots /\ EntryFor(r, j) = r.tile[i][j[2]]
    BY <1>2, <1>7, <2>3, EntryCases
  <2>4. i \in TileSlots
    <3>1. PICK o \in Offsets : TRUE
      BY <1>7
    <3>2. <<t, o>> \in Keys
      BY DEF Keys
    <3> QED BY <2>3, <3>2
  <2>5. c \in [Offsets -> Entry]
    BY <2>2, <2>4, EntryTypes
  <2>6. \A o \in Offsets : c[o] = IF o \in E THEN Empty ELSE r.tile[i][o]
    OBVIOUS
  <2> HIDE DEF c, i
  <2>7. /\ q \in Pages /\ TablesApart(q)
        /\ \A j \in Keys :
              EntryFor(q, j) = IF j[1] = t THEN c[j[2]] ELSE EntryFor(r, j)
        /\ q.dir = r.dir /\ q.dirDirty = r.dirDirty /\ q.allocated = r.allocated
        /\ \A n \in TileSlots : ~q.tileDirty[n] =>
              ~r.tileDirty[n] /\ q.tile[n] = r.tile[n]
        /\ \A n \in TileSlots : q.tileDirty[n] => r.tileDirty[n] \/ n < q.allocated
    BY <1>2, <1>7, <2>1, <2>5, TileRewritten DEF i
  <2>8. ASSUME NEW j \in Keys
        PROVE  EntryFor(q, j) = IF j \in {t} \X E THEN Empty ELSE EntryFor(r, j)
    <3>1. j[2] \in Offsets
      BY KeyParts
    <3> QED BY <1>3, <2>3, <2>6, <2>7, <3>1
  <2>9. Rewrites(p, q, {t} \X E, Empty)
    BY <1>1, <1>2, <2>7, <2>8, RewritesAgain
  <2> QED BY <2>9
<1> QED BY <1>2, <1>4, <1>5, <1>6, <1>7

-----------------------------------------------------------------------------
(* The invariant. *)

LEMMA OneIndexParts == OneIndex <=> SlotsAgree /\ EntriesAgree /\ NoHoles
BY DEF OneIndex, SlotsAgree, EntriesAgree, NoHoles, TilesSuffice, Suffices, Bare,
       ReadEntry, EntryFor

SlotRecord == [key : Keys \cup {NoBrick}, occupied : BOOLEAN,
               pinned : BOOLEAN, lastTouched : Nat]

LEMMA TouchedSlot ==
  ASSUME NEW r \in SlotRecord, NEW f \in Nat,
         NEW q, q = [r EXCEPT !.lastTouched = f]
  PROVE  /\ q \in SlotRecord /\ q.key = r.key
         /\ q.occupied = r.occupied /\ q.pinned = r.pinned
BY DEF SlotRecord

LEMMA CacheStarts == Init => CInv
<1> SUFFICES ASSUME Init PROVE CInv
  OBVIOUS
<1> USE CacheAssumption DEF CacheAssumption
<1>1. /\ pages.dir = [t \in Tiles |-> 0] /\ pages.tile = NoTiles
      /\ pages.allocated \in 0..TileCapacity
      /\ pages.dirDirty = [l \in Levels |-> FALSE]
      /\ pages.tileDirty = [i \in TileSlots |-> FALSE]
      /\ textures.dir = [t \in Tiles |-> 0] /\ textures.tile = NoTiles
  BY DEF Init, kDirUnknown
<1>2. NoTiles \in [TileSlots -> [Offsets -> Entry]]
  BY EntryTypes DEF NoTiles
<1>3. pages \in Pages
  <2>1. PICK taken \in Taken :
          pages = [dir       |-> [t \in Tiles |-> 0],
                   tile      |-> NoTiles,
                   allocated |-> taken,
                   dirDirty  |-> [l \in Levels |-> FALSE],
                   tileDirty |-> [i \in TileSlots |-> FALSE]]
    BY DEF Init, kDirUnknown
  <2> QED BY <1>2, <2>1 DEF Pages
<1>4. freeSlots \in Seq(Slots)
  BY DEF Init, Slots
<1>5. TypeOK
  <2>1. textures \in [dir  : [Tiles -> 0 .. TileCapacity + 1],
                      tile : [TileSlots -> [Offsets -> Entry]]]
    BY <1>2 DEF Init, kDirUnknown
  <2> QED BY <1>3, <1>4, <2>1 DEF Init, TypeOK, Pages
<1>6. TablesApart(pages)
  BY <1>1 DEF TablesApart
<1>7. MirrorsTracked
  BY <1>1 DEF Init, MirrorsTracked, Tracked
<1>8. PoolFilled
  BY DEF Init, PoolFilled
<1>9. SlotsAgree
  <2>1. \A k \in Keys, s \in Slots : slotOf[k] # s
    BY DEF Init, NoSlot, Slots
  <2>2. \A s \in Slots : ~slots[s].occupied
    BY DEF Init
  <2>3. \A s \in Slots : SlotCount - s \in DOMAIN freeSlots /\ freeSlots[SlotCount - s] = s
    BY DEF Init, Slots
  <2>4. IsInjective(freeSlots)
    BY DEF Init, IsInjective
  <2> QED BY <2>1, <2>2, <2>3, <2>4 DEF SlotsAgree, Range
<1>10. EntriesAgree /\ NoHoles
  <2>1. \A k \in Keys : EntryFor(pages, k) = Unknown
    BY <1>1, <1>3, <1>6, KeyParts, EntryCases
  <2>2. \A k \in Keys : slotOf[k] \notin Slots
    BY DEF Init, NoSlot, Slots
  <2> QED BY <2>1, <2>2, EntryTypes DEF EntriesAgree, NoHoles
<1> QED BY <1>5, <1>6, <1>7, <1>8, <1>9, <1>10 DEF CInv

(* What the textures lack stays marked. *)
LEMMA RewritesTracked ==
  ASSUME NEW p \in Pages, NEW q, NEW S, NEW v, Tracked(p), Rewrites(p, q, S, v)
  PROVE  Tracked(q)
<1>1. p.allocated \in Nat /\ q.allocated \in Nat /\ \A i \in TileSlots : i \in Nat
  BY PagesFields DEF Rewrites, TileSlots
<1> QED BY <1>1 DEF Tracked, Rewrites

LEMMA TypedPages == TypeOK => pages \in Pages
BY DEF TypeOK, Pages

(* Steps that only rewrite page entries, while nothing is drawn, to Empty. *)
LEMMA EmptyStepsKeepCInv ==
  ASSUME CInv, NEW S,
         \/ Rewrites(pages, pages', S, Empty)
         \/ UNCHANGED pages,
         UNCHANGED <<textures, slotVars, frame>>,
         unseeded' \subseteq unseeded,
         UNCHANGED phase, phase # "drawing"
  PROVE  CInv'
<1>1. pages \in Pages /\ TablesApart(pages) /\ Tracked(pages) /\ TypeOK
  BY TypedPages DEF CInv, MirrorsTracked
<1>2. CASE UNCHANGED pages
  <2>1. TypeOK'
    BY <1>1, <1>2 DEF TypeOK, slotVars
  <2> QED BY <1>2, <2>1 DEF CInv, MirrorsTracked, Tracked, PoolFilled, SlotsAgree,
                            EntriesAgree, NoHoles, slotVars
<1>3. CASE Rewrites(pages, pages', S, Empty)
  <2>1. pages' \in Pages /\ TablesApart(pages') /\ Tracked(pages')
    BY <1>1, <1>3, RewritesTracked DEF Rewrites
  <2>2. TypeOK'
    BY <1>1, <2>1 DEF TypeOK, Pages, slotVars
  <2>3. MirrorsTracked'
    BY <2>1 DEF MirrorsTracked, Tracked
  <2>4. PoolFilled' /\ SlotsAgree'
    BY DEF CInv, PoolFilled, SlotsAgree, slotVars
  <2>5. \A k \in Keys : EntryFor(pages', k) = Empty \/ EntryFor(pages', k) = EntryFor(pages, k)
    BY <1>3 DEF Rewrites
  <2>6. EntriesAgree'
    BY <2>5, EntryTypes DEF CInv, EntriesAgree, slotVars
  <2>7. NoHoles'
    BY <1>3, <2>5, EntryTypes DEF CInv, NoHoles, Rewrites, slotVars
  <2> QED BY <2>1, <2>2, <2>3, <2>4, <2>6, <2>7 DEF CInv
<1> QED BY <1>2, <1>3

LEMMA SeedEmptiesKeepsCInv ==
  ASSUME CInv, NEW t \in Tiles, NEW E \in SUBSET Offsets, SeedEmpties(t, E)
  PROVE  CInv'
<1>1. \/ Rewrites(pages, pages', {t} \X E, Empty)
      \/ UNCHANGED pages
  <2>1. pages \in Pages /\ TablesApart(pages)
    BY TypedPages DEF CInv
  <2> QED BY <2>1, SeededTileRewrites DEF SeedEmpties
<1> QED BY <1>1, EmptyStepsKeepCInv DEF SeedEmpties

LEMMA MarkEmptyKeepsCInv ==
  ASSUME CInv, NEW k \in Keys, MarkEmpty(k)
  PROVE  CInv'
<1>1. \/ Rewrites(pages, pages', {k}, Empty)
      \/ UNCHANGED pages
  <2>1. pages \in Pages /\ TablesApart(pages)
    BY TypedPages DEF CInv
  <2> QED BY <2>1, WriteEntryRewrites, EntryTypes DEF MarkEmpty
<1>2. /\ UNCHANGED <<textures, slotVars, frame, unseeded, phase>>
      /\ phase # "drawing"
  BY DEF MarkEmpty
<1> QED BY <1>1, <1>2, EmptyStepsKeepCInv

(* A touch changes nothing but a time. *)
LEMMA TouchesKeepCInv ==
  ASSUME CInv, NEW k \in Keys, Touch(k) \/ Refresh(k)
  PROVE  CInv'
<1>1. /\ slotOf[k] \in Slots
      /\ slots' = [slots EXCEPT ![slotOf[k]].lastTouched = frame]
      /\ UNCHANGED <<pages, textures, freeSlots, slotOf, pool, frame, unseeded, phase>>
  BY DEF Touch, Refresh
<1>2. slots \in [Slots -> SlotRecord] /\ frame \in Nat
  BY DEF CInv, TypeOK, SlotRecord
<1>3. ASSUME NEW s \in Slots
      PROVE  /\ slots'[s] \in SlotRecord /\ slots'[s].key = slots[s].key
             /\ slots'[s].occupied = slots[s].occupied
  <2>1. CASE s = slotOf[k]
    <3>1. slots'[s] = [slots[s] EXCEPT !.lastTouched = frame]
      BY <1>1, <1>2, <2>1
    <3> QED BY <1>2, <3>1, TouchedSlot
  <2>2. CASE s # slotOf[k]
    BY <1>1, <1>2, <2>2
  <2> QED BY <2>1, <2>2
<1>4. slots' \in [Slots -> SlotRecord]
  <2>1. slots' = [s \in Slots |-> slots'[s]]
    BY <1>1, <1>2
  <2> QED BY <1>3, <2>1
<1>5. TypeOK'
  BY <1>1, <1>4 DEF CInv, TypeOK, SlotRecord
<1>6. PoolFilled' /\ SlotsAgree'
  <2>1. PoolFilled'
    BY <1>1, <1>3 DEF CInv, PoolFilled
  <2>2. SlotsAgree'
    BY <1>1, <1>3 DEF CInv, SlotsAgree
  <2> QED BY <2>1, <2>2
<1> QED BY <1>1, <1>5, <1>6
        DEF CInv, MirrorsTracked, Tracked, EntriesAgree, NoHoles

LEMMA FrameBeginKeepsCInv == CInv /\ FrameBegin => CInv'
<1> SUFFICES ASSUME CInv, FrameBegin PROVE CInv'
  OBVIOUS
<1>1. TypeOK'
  BY DEF FrameBegin, CInv, TypeOK, slotVars
<1> QED BY <1>1 DEF FrameBegin, CInv, MirrorsTracked, Tracked, PoolFilled, SlotsAgree,
                    EntriesAgree, NoHoles, slotVars

(* Resetting flags leaves the tables alone. *)
Flagged(p, a, b) == [p EXCEPT !.dirDirty = a, !.tileDirty = b]

LEMMA FlagChanges ==
  ASSUME NEW p \in Pages, NEW a \in [Levels -> BOOLEAN], NEW b \in [TileSlots -> BOOLEAN],
         NEW q, q = Flagged(p, a, b)
  PROVE  /\ q \in Pages
         /\ q.dir = p.dir /\ q.tile = p.tile /\ q.allocated = p.allocated
         /\ q.dirDirty = a /\ q.tileDirty = b
BY DEF Pages, Flagged

(* The textures are typed like the mirrors they are copied from. *)
Textures == [dir  : [Tiles -> 0 .. TileCapacity + 1],
             tile : [TileSlots -> [Offsets -> Entry]]]

(* Copies to the textures change no entry of the mirrors. *)
LEMMA CopiesKeepCInv ==
  ASSUME CInv, pages' \in Pages, textures' \in Textures,
         pages'.dir = pages.dir, pages'.tile = pages.tile,
         pages'.allocated = pages.allocated,
         MirrorsTracked', UNCHANGED <<slotVars, frame, unseeded>>,
         phase' \in {"initialized", "drawing"}
  PROVE  CInv'
<1>1. TypeOK'
  BY DEF CInv, TypeOK, Pages, Textures, slotVars
<1>2. TablesApart(pages')
  BY DEF CInv, TablesApart
<1>3. PoolFilled' /\ SlotsAgree'
  BY DEF CInv, PoolFilled, SlotsAgree, slotVars
<1>4. EntriesAgree' /\ NoHoles'
  BY DEF CInv, EntriesAgree, NoHoles, EntryFor, Suffices, Bare, slotVars
<1> QED BY <1>1, <1>2, <1>3, <1>4 DEF CInv

LEMMA InitializeKeepsCInv == CInv /\ Initialize => CInv'
<1> SUFFICES ASSUME CInv, Initialize PROVE CInv'
  OBVIOUS
<1> DEFINE a == [l \in Levels |-> FALSE]
<1>1. pages \in Pages
  BY TypedPages DEF CInv
<1>2. /\ pages' \in Pages
      /\ pages'.dir = pages.dir /\ pages'.tile = pages.tile
      /\ pages'.allocated = pages.allocated
      /\ pages'.dirDirty = a /\ pages'.tileDirty = pages.tileDirty
  BY <1>1 DEF Initialize, Pages
<1>3. /\ textures' \in Textures
      /\ textures'.dir = pages.dir /\ textures'.tile = pages.tile
  BY <1>1 DEF Initialize, Textures, Pages
<1>4. /\ UNCHANGED <<slotVars, frame, unseeded>>
      /\ phase' = "initialized"
  BY DEF Initialize
<1>5. MirrorsTracked'
  BY <1>2, <1>3, <1>4 DEF CInv, MirrorsTracked, Tracked
<1> QED BY <1>2, <1>3, <1>4, <1>5, CopiesKeepCInv

(* syncPageTables() copies whatever the textures lack. *)
LEMMA SyncCopiesEverything ==
  ASSUME CInv, SyncPageTables
  PROVE  /\ pages' \in Pages
         /\ pages'.dir = pages.dir /\ pages'.tile = pages.tile
         /\ pages'.allocated = pages.allocated
         /\ \A l \in Levels : ~pages'.dirDirty[l]
         /\ \A i \in TileSlots : ~pages'.tileDirty[i]
         /\ textures' \in Textures
         /\ textures'.dir = pages.dir
         /\ textures'.tile = pages.tile
<1> DEFINE a == [l \in Levels |-> FALSE]
           b == [i \in TileSlots |-> i >= pages.allocated /\ pages.tileDirty[i]]
<1>1. pages \in Pages /\ Tracked(pages)
  BY TypedPages DEF CInv, MirrorsTracked
<1>2. /\ pages.dir \in [Tiles -> 0 .. TileCapacity + 1]
      /\ pages.tile \in [TileSlots -> [Offsets -> Entry]]
      /\ pages.tileDirty \in [TileSlots -> BOOLEAN]
      /\ pages.allocated \in Nat
      /\ \A i \in TileSlots : i \in Nat
  BY <1>1, PagesFields DEF TileSlots
<1>3. pages' = Flagged(pages, a, b)
  BY Zenon DEF SyncPageTables, Flagged
<1>4. a \in [Levels -> BOOLEAN] /\ b \in [TileSlots -> BOOLEAN]
  BY <1>2
<1>5. \A i \in TileSlots : ~b[i]
  <2>1. \A i \in TileSlots : pages.tileDirty[i] => i < pages.allocated
    BY <1>1 DEF Tracked
  <2>2. \A i \in TileSlots : ~(i >= pages.allocated /\ pages.tileDirty[i])
    BY <1>2, <2>1
  <2> QED BY Zenon, <2>2
<1>6. \A l \in Levels : ~a[l]
  OBVIOUS
<1> HIDE DEF a, b
<1>7. /\ pages' \in Pages
      /\ pages'.dir = pages.dir /\ pages'.tile = pages.tile
      /\ pages'.allocated = pages.allocated
      /\ pages'.dirDirty = a /\ pages'.tileDirty = b
  BY <1>1, <1>3, <1>4, FlagChanges
<1>8. /\ textures' = [dir |-> textures'.dir, tile |-> textures'.tile]
      /\ textures'.dir = [t \in Tiles |-> IF pages.dirDirty[LevelOf[t]]
                                          THEN pages.dir[t] ELSE textures.dir[t]]
      /\ textures'.tile = [i \in TileSlots |->
                             IF i < pages.allocated /\ pages.tileDirty[i]
                             THEN pages.tile[i] ELSE textures.tile[i]]
  BY DEF SyncPageTables
<1>9. \A t \in Tiles : textures'.dir[t] = pages.dir[t]
  BY <1>1, <1>8 DEF Tracked
<1>10. \A i \in TileSlots : textures'.tile[i] = pages.tile[i]
  BY <1>1, <1>8 DEF Tracked
<1>11. textures'.dir = pages.dir
  BY <1>2, <1>8, <1>9
<1>12. textures'.tile = pages.tile
  BY <1>2, <1>8, <1>10
<1>13. textures' \in Textures
  BY <1>2, <1>8, <1>11, <1>12 DEF Textures
<1> QED BY <1>5, <1>6, <1>7, <1>11, <1>12, <1>13

LEMMA SyncKeepsCInv == CInv /\ SyncPageTables => CInv'
<1> SUFFICES ASSUME CInv, SyncPageTables PROVE CInv'
  OBVIOUS
<1>1. UNCHANGED <<slotVars, frame, unseeded>> /\ phase' = "drawing"
  BY DEF SyncPageTables
<1>2. MirrorsTracked'
  BY SyncCopiesEverything DEF MirrorsTracked, Tracked
<1> QED BY <1>1, <1>2, SyncCopiesEverything, CopiesKeepCInv

-----------------------------------------------------------------------------
(* Uploads. *)

(* What an upload has established, with the tables p, when it places brick k *)
(* in slot s: no page entry points to the slot.                              *)
PlacePre(p, k, s) ==
  /\ phase = "uploading"
  /\ p \in Pages /\ TablesApart(p) /\ Tracked(p)
  /\ freeSlots' \in Seq(Slots)
  /\ slotOf' \in [Keys -> Slots \cup {NoSlot}]
  /\ slotOf'[k] = s
  /\ \A j \in Keys, r \in Slots :
       EntryFor(p, j) = Resident(r) => r # s /\ slotOf'[j] = r
  /\ Suffices(p) =>
       \A j \in Keys \ {k} : slotOf'[j] \in Slots => EntryFor(p, j) # Unknown

LEMMA PlaceKeepsPages ==
  ASSUME CInv, NEW p, NEW k \in Keys, NEW s \in Slots, Place(p, k, s),
         PlacePre(p, k, s)
  PROVE  TypeOK' /\ TablesApart(pages') /\ MirrorsTracked' /\ PoolFilled'
         /\ EntriesAgree' /\ NoHoles'
<1> USE DEF PlacePre
<1>1. /\ pages' = WriteEntry(p, k, Resident(s))
      /\ slots' = [slots EXCEPT ![s] = [key |-> k, occupied |-> TRUE,
                                       pinned |-> LevelOf[k[1]] \in PinnedLevels,
                                       lastTouched |-> frame]]
      /\ pool' = [pool EXCEPT ![s] = k]
      /\ UNCHANGED <<textures, frame, unseeded, phase>>
  BY DEF Place
<1>2. \/ Rewrites(p, pages', {k}, Resident(s))
      \/ pages' = p /\ ~HasRoom(p, k[1])
  BY <1>1, WriteEntryRewrites, EntryTypes
<1>3. k[1] \in Tiles
  BY KeyParts
<1>4. pages' \in Pages /\ TablesApart(pages') /\ Tracked(pages')
  <2>1. CASE Rewrites(p, pages', {k}, Resident(s))
    <3>1. Tracked(pages')
      BY <2>1, RewritesTracked
    <3> QED BY <2>1, <3>1 DEF Rewrites
  <2>2. CASE pages' = p
    BY <2>2
  <2> QED BY <1>2, <2>1, <2>2
<1>5. TypeOK'
  <2>1. [key |-> k, occupied |-> TRUE, pinned |-> LevelOf[k[1]] \in PinnedLevels,
         lastTouched |-> frame] \in SlotRecord
    BY DEF CInv, TypeOK, SlotRecord
  <2>2. slots' \in [Slots -> SlotRecord]
    BY <1>1, <2>1 DEF CInv, TypeOK, SlotRecord
  <2>3. pool' \in [Slots -> Keys \cup {NoBrick}]
    BY <1>1 DEF CInv, TypeOK
  <2> QED BY <1>1, <1>4, <2>2, <2>3 DEF CInv, TypeOK, Pages, SlotRecord
<1>6. MirrorsTracked'
  BY <1>1, <1>4 DEF MirrorsTracked, Tracked
<1>7. PoolFilled'
  BY <1>1 DEF CInv, TypeOK, PoolFilled
<1>8. EntriesAgree'
  <2>1. CASE Rewrites(p, pages', {k}, Resident(s))
    <3>1. \A j \in Keys : EntryFor(pages', j) = IF j = k THEN Resident(s) ELSE EntryFor(p, j)
      BY <2>1 DEF Rewrites
    <3> QED BY <3>1, EntryTypes DEF EntriesAgree
  <2>2. CASE pages' = p
    BY <2>2 DEF EntriesAgree
  <2> QED BY <1>2, <2>1, <2>2
<1>9. NoHoles'
  <2>1. CASE Rewrites(p, pages', {k}, Resident(s))
    <3>1. /\ \A j \in Keys : EntryFor(pages', j) = IF j = k THEN Resident(s) ELSE EntryFor(p, j)
          /\ Suffices(p) <=> Suffices(pages')
      BY <2>1 DEF Rewrites
    <3> QED BY <3>1, EntryTypes DEF NoHoles
  <2>2. CASE pages' = p /\ ~HasRoom(p, k[1])
    BY <1>3, <2>2, SufficesHasRoom DEF NoHoles
  <2> QED BY <1>2, <2>1, <2>2
<1> QED BY <1>4, <1>5, <1>6, <1>7, <1>8, <1>9

(* The last free slot is taken from the list. *)
LEMMA PopFreeSlot ==
  ASSUME freeSlots \in Seq(Slots), IsInjective(freeSlots), freeSlots # <<>>,
         NEW s, s = freeSlots[Len(freeSlots)],
         NEW f, f = [i \in 1 .. Len(freeSlots) - 1 |-> freeSlots[i]]
  PROVE  /\ s \in Slots /\ s \in Range(freeSlots)
         /\ f \in Seq(Slots) /\ IsInjective(f)
         /\ \A r \in Slots : r \in Range(f) <=> r \in Range(freeSlots) /\ r # s
<1>1. Len(freeSlots) \in Nat \ {0}
  OBVIOUS
<1>2. \A i \in 1 .. Len(freeSlots) : freeSlots[i] \in Slots
  OBVIOUS
<1>3. f \in Seq(Slots)
  BY <1>1, <1>2
<1>4. DOMAIN freeSlots = 1 .. Len(freeSlots) /\ DOMAIN f = 1 .. Len(freeSlots) - 1
  OBVIOUS
<1>5. \A i, j \in 1 .. Len(freeSlots) : freeSlots[i] = freeSlots[j] => i = j
  BY <1>4 DEF IsInjective
<1>6. IsInjective(f)
  BY <1>1, <1>4, <1>5 DEF IsInjective
<1>7. ASSUME NEW r \in Slots PROVE r \in Range(f) <=> r \in Range(freeSlots) /\ r # s
  <2>1. r \in Range(f) <=> \E i \in 1 .. Len(freeSlots) - 1 : r = freeSlots[i]
    BY <1>4 DEF Range
  <2>2. r \in Range(freeSlots) <=> \E i \in 1 .. Len(freeSlots) : r = freeSlots[i]
    BY <1>4 DEF Range
  <2> QED BY <1>1, <1>5, <2>1, <2>2
<1> QED BY <1>1, <1>2, <1>3, <1>4, <1>6, <1>7 DEF Range

LEMMA UploadToFreeSlotKeepsCInv ==
  ASSUME CInv, NEW k \in Keys, UploadToFreeSlot(k)
  PROVE  CInv'
<1> DEFINE s == freeSlots[Len(freeSlots)]
<1>1. /\ phase = "uploading" /\ slotOf[k] \notin Slots /\ freeSlots # <<>>
      /\ Place(pages, k, s)
      /\ slotOf' = [slotOf EXCEPT ![k] = s]
      /\ freeSlots' = [i \in 1 .. Len(freeSlots) - 1 |-> freeSlots[i]]
  BY DEF UploadToFreeSlot
<1>2. /\ freeSlots \in Seq(Slots) /\ slotOf \in [Keys -> Slots \cup {NoSlot}]
      /\ IsInjective(freeSlots)
      /\ pages \in Pages /\ TablesApart(pages) /\ Tracked(pages)
      /\ slots \in [Slots -> SlotRecord]
  BY TypedPages DEF CInv, TypeOK, SlotsAgree, MirrorsTracked, SlotRecord
<1> HIDE DEF s
<1>3. /\ s \in Slots /\ s \in Range(freeSlots)
      /\ freeSlots' \in Seq(Slots) /\ IsInjective(freeSlots')
      /\ \A r \in Slots : r \in Range(freeSlots') <=> r \in Range(freeSlots) /\ r # s
  BY <1>1, <1>2, PopFreeSlot DEF s
<1>4. ~slots[s].occupied /\ \A j \in Keys : slotOf[j] # s
  BY <1>3 DEF CInv, SlotsAgree
<1>5. /\ slotOf' \in [Keys -> Slots \cup {NoSlot}] /\ slotOf'[k] = s
      /\ \A j \in Keys : j # k => slotOf'[j] = slotOf[j]
  BY <1>1, <1>2, <1>3
<1>6. \A j \in Keys, r \in Slots :
         EntryFor(pages, j) = Resident(r) => r # s /\ slotOf'[j] = r
  BY <1>1, <1>3, <1>4, <1>5 DEF CInv, EntriesAgree
<1>7. Suffices(pages) =>
        \A j \in Keys \ {k} : slotOf'[j] \in Slots => EntryFor(pages, j) # Unknown
  BY <1>5 DEF CInv, NoHoles
<1>8. /\ TypeOK' /\ TablesApart(pages') /\ MirrorsTracked' /\ PoolFilled'
      /\ EntriesAgree' /\ NoHoles'
  <2>1. PlacePre(pages, k, s)
    BY <1>1, <1>2, <1>3, <1>5, <1>6, <1>7 DEF PlacePre
  <2> QED BY <1>1, <1>3, <2>1, PlaceKeepsPages
<1>9. SlotsAgree'
  <2>1. /\ slots'[s].occupied /\ slots'[s].key = k
        /\ \A r \in Slots \ {s} : slots'[r] = slots[r]
    BY <1>1, <1>2, <1>3 DEF Place
  <2>2. \A j \in Keys, r \in Slots :
          slotOf'[j] = r <=> slots'[r].occupied /\ slots'[r].key = j
    BY <1>1, <1>3, <1>4, <1>5, <2>1 DEF CInv, SlotsAgree
  <2>3. \A r \in Slots : slots'[r].occupied <=> r \notin Range(freeSlots')
    BY <1>3, <2>1 DEF CInv, SlotsAgree
  <2> QED BY <1>3, <2>2, <2>3 DEF SlotsAgree
<1> QED BY <1>8, <1>9 DEF CInv

(* What the tables say once the victim's entry was taken back.               *)
LEMMA EvictLemma ==
  ASSUME CInv, phase # "drawing", NEW s \in Slots, slots[s].occupied,
         NEW p, p = Evict(s), NEW old, old = slots[s].key
  PROVE  /\ old \in Keys /\ slotOf[old] = s
         /\ p \in Pages /\ TablesApart(p) /\ Tracked(p)
         /\ Suffices(p) <=> Suffices(pages)
         /\ \A j \in Keys \ {old} : EntryFor(p, j) = EntryFor(pages, j)
         /\ \A r \in Slots : EntryFor(p, old) # Resident(r)
         /\ Suffices(pages) => EntryFor(p, old) = Unknown
<1>1. pages \in Pages /\ TablesApart(pages) /\ Tracked(pages)
  BY TypedPages DEF CInv, MirrorsTracked
<1>2. old \in Keys
  BY DEF CInv, PoolFilled
<1>3. slotOf[old] = s
  BY <1>2 DEF CInv, SlotsAgree
<1>4. \/ Rewrites(pages, p, {old}, Unknown)
      \/ p = pages /\ ~HasRoom(pages, old[1])
  BY <1>1, <1>2, WriteEntryRewrites, EntryTypes DEF Evict
<1>5. CASE Rewrites(pages, p, {old}, Unknown)
  <2>1. Tracked(p)
    BY <1>1, <1>5, RewritesTracked
  <2>2. EntryFor(p, old) = Unknown
    BY <1>2, <1>5 DEF Rewrites
  <2> QED BY <1>2, <1>3, <1>5, <2>1, <2>2, EntryTypes DEF Rewrites
<1>6. CASE p = pages /\ ~HasRoom(pages, old[1])
  <2>1. old[1] \in Tiles
    BY <1>2, KeyParts
  <2>2. ~Suffices(pages)
    BY <1>1, <1>6, <2>1, SufficesHasRoom
  <2>3. pages.dir[old[1]] = 0 \/ pages.dir[old[1]] = 1
    BY <1>1, <1>2, <1>6, EntryCases DEF HasRoom
  <2>4. \A r \in Slots : EntryFor(p, old) # Resident(r)
    BY <1>1, <1>2, <1>6, <2>3, EntryCases, EntryTypes
  <2> QED BY <1>1, <1>2, <1>3, <1>6, <2>2, <2>4
<1> QED BY <1>4, <1>5, <1>6

LEMMA UploadToVictimKeepsCInv ==
  ASSUME CInv, NEW k \in Keys, NEW s \in Slots, UploadToVictim(k, s)
  PROVE  CInv'
<1> DEFINE old == slots[s].key
           p == Evict(s)
<1>1. /\ phase = "uploading" /\ slotOf[k] \notin Slots
      /\ slots[s].occupied
      /\ Place(p, k, s)
      /\ slotOf' = [slotOf EXCEPT ![old] = NoSlot, ![k] = s]
      /\ freeSlots' = freeSlots
  BY DEF UploadToVictim, Victim, Evictable
<1>2. /\ freeSlots \in Seq(Slots) /\ slotOf \in [Keys -> Slots \cup {NoSlot}]
      /\ slots \in [Slots -> SlotRecord]
  BY DEF CInv, TypeOK, SlotRecord
<1> HIDE DEF old, p
<1>3. /\ old \in Keys /\ slotOf[old] = s
      /\ p \in Pages /\ TablesApart(p) /\ Tracked(p)
      /\ Suffices(p) <=> Suffices(pages)
      /\ \A j \in Keys \ {old} : EntryFor(p, j) = EntryFor(pages, j)
      /\ \A r \in Slots : EntryFor(p, old) # Resident(r)
      /\ Suffices(pages) => EntryFor(p, old) = Unknown
  BY <1>1, EvictLemma DEF old, p
<1>4. k # old
  BY <1>1, <1>3
<1>5. /\ slotOf' \in [Keys -> Slots \cup {NoSlot}]
      /\ slotOf'[k] = s /\ slotOf'[old] = NoSlot
      /\ \A j \in Keys : j # k /\ j # old => slotOf'[j] = slotOf[j]
  BY <1>1, <1>2, <1>3, <1>4
<1>6. NoSlot \notin Slots
  BY CacheAssumption DEF NoSlot, Slots, CacheAssumption
<1>7. \A j \in Keys : slotOf[j] = s => j = old
  BY DEF CInv, SlotsAgree, old
<1>8. \A j \in Keys, r \in Slots : EntryFor(p, j) = Resident(r) => r # s /\ slotOf'[j] = r
  BY <1>1, <1>3, <1>5, <1>7 DEF CInv, EntriesAgree
<1>9. Suffices(p) =>
        \A j \in Keys \ {k} : slotOf'[j] \in Slots => EntryFor(p, j) # Unknown
  BY <1>3, <1>5, <1>6 DEF CInv, NoHoles
<1>10. /\ TypeOK' /\ TablesApart(pages') /\ MirrorsTracked' /\ PoolFilled'
       /\ EntriesAgree' /\ NoHoles'
  <2>1. PlacePre(p, k, s)
    BY <1>1, <1>2, <1>3, <1>5, <1>8, <1>9 DEF PlacePre
  <2> QED BY <1>1, <2>1, PlaceKeepsPages
<1>11. SlotsAgree'
  <2>1. /\ slots'[s].occupied /\ slots'[s].key = k
        /\ \A r \in Slots \ {s} : slots'[r] = slots[r]
    BY <1>1, <1>2 DEF Place
  <2>2. ASSUME NEW j \in Keys, NEW r \in Slots
        PROVE  slotOf'[j] = r <=> slots'[r].occupied /\ slots'[r].key = j
    <3>1. slotOf[j] = r <=> slots[r].occupied /\ slots[r].key = j
      BY DEF CInv, SlotsAgree
    <3>2. CASE r = s
      BY <1>4, <1>5, <1>6, <1>7, <2>1, <3>2
    <3>3. CASE r # s
      <4>1. slots'[r].occupied /\ slots'[r].key = j <=> slotOf[j] = r
        BY <2>1, <3>1, <3>3
      <4>2. slotOf'[j] = r <=> slotOf[j] = r
        BY <1>1, <1>3, <1>4, <1>5, <1>6, <3>3
      <4> QED BY <4>1, <4>2
    <3> QED BY <3>2, <3>3
  <2>3. \A r \in Slots : slots'[r].occupied <=> r \notin Range(freeSlots')
    BY <1>1, <2>1 DEF CInv, SlotsAgree
  <2>4. IsInjective(freeSlots')
    BY <1>1 DEF CInv, SlotsAgree
  <2> QED BY <2>2, <2>3, <2>4 DEF SlotsAgree
<1> QED BY <1>10, <1>11 DEF CInv

LEMMA CacheKeepsCInv == CInv /\ [Next]_vars => CInv'
<1> SUFFICES ASSUME CInv, [Next]_vars PROVE CInv'
  OBVIOUS
<1>1. ASSUME NEW t \in Tiles, NEW E \in SUBSET Offsets, SeedEmpties(t, E) PROVE CInv'
  BY <1>1, SeedEmptiesKeepsCInv
<1>2. CASE Initialize
  BY <1>2, InitializeKeepsCInv
<1>3. CASE FrameBegin
  BY <1>3, FrameBeginKeepsCInv
<1>4. ASSUME NEW k \in Keys, MarkEmpty(k) PROVE CInv'
  BY <1>4, MarkEmptyKeepsCInv
<1>5. ASSUME NEW k \in Keys, Touch(k) \/ Refresh(k) PROVE CInv'
  BY <1>5, TouchesKeepCInv
<1>6. ASSUME NEW k \in Keys, UploadToFreeSlot(k) PROVE CInv'
  BY <1>6, UploadToFreeSlotKeepsCInv
<1>7. ASSUME NEW k \in Keys, NEW s \in Slots, UploadToVictim(k, s) PROVE CInv'
  BY <1>7, UploadToVictimKeepsCInv
<1>8. CASE SyncPageTables
  BY <1>8, SyncKeepsCInv
<1>9. CASE UNCHANGED vars
  BY <1>9 DEF vars, slotVars, CInv, TypeOK, MirrorsTracked, Tracked, PoolFilled,
              SlotsAgree, EntriesAgree, NoHoles
<1> QED BY <1>1, <1>2, <1>3, <1>4, <1>5, <1>6, <1>7, <1>8, <1>9 DEF Next, Upload

(* The strengthened invariant holds of every behaviour.                      *)
LEMMA CacheInvariant == Spec => []CInv
BY CacheStarts, CacheKeepsCInv, PTL DEF Spec

-----------------------------------------------------------------------------
(* Every variable stays in its type: the tile counter stays within the pool  *)
(* and the directory never names a tile past it (GpuBrickCache.cpp,          *)
(* allocateTile).                                                            *)
THEOREM CacheTyped == Spec => []TypeOK
<1>1. CInv => TypeOK
  BY DEF CInv
<1> QED BY <1>1, CacheInvariant, PTL

(* slots_, slotOf_, freeSlots_ and the page entries agree; with tiles enough *)
(* no resident brick is without an entry.                                    *)
THEOREM IndexesAgree == Spec => []OneIndex
<1>1. CInv => OneIndex
  BY OneIndexParts DEF CInv
<1> QED BY <1>1, CacheInvariant, PTL

(* What the shaders' page tables say when nothing is dirty.                  *)
LEMMA ShadersSeeTheMirrors ==
  ASSUME CInv, phase = "drawing", NEW k \in Keys
  PROVE  ShaderEntry(k) = EntryFor(pages, k)
<1>1. pages \in Pages /\ TablesApart(pages) /\ k[1] \in Tiles
  BY TypedPages, KeyParts DEF CInv
<1>2. \A t \in Tiles : LevelOf[t] \in Levels
  BY CacheAssumption DEF CacheAssumption
<1>3. textures.dir[k[1]] = pages.dir[k[1]]
  BY <1>1, <1>2 DEF CInv, MirrorsTracked, Tracked
<1>4. \A i \in TileSlots : textures.tile[i] = pages.tile[i]
  BY DEF CInv, MirrorsTracked, Tracked
<1>5. pages.dir[k[1]] \in Nat
      /\ (pages.dir[k[1]] >= 2 => pages.dir[k[1]] - 2 \in TileSlots)
  BY <1>1, EntryCases
<1> QED BY <1>3, <1>4, <1>5 DEF ShaderEntry, EntryFor, Lookup, kDirUnknown, kDirAllEmpty

(* In a frame that is drawn an entry leads to the voxels of its own brick:   *)
(* reuse of a slot, the dirty flags and the copy never let a stale entry     *)
(* through (GpuBrickCache.cpp, uploadFromBoundPbo and syncPageTables).       *)
THEOREM DrawsOwnBricks == Spec => []DrawSeesOwnBrick
<1>1. CInv => DrawSeesOwnBrick
  <2> SUFFICES ASSUME CInv, phase = "drawing", NEW k \in Keys, NEW s \in Slots,
                      ShaderEntry(k) = Resident(s)
               PROVE  pool[s] = k
    BY DEF DrawSeesOwnBrick
  <2>1. slotOf[k] = s
    BY ShadersSeeTheMirrors DEF CInv, EntriesAgree
  <2>2. slots[s].key = k
    BY <2>1 DEF CInv, SlotsAgree
  <2> QED BY <2>2 DEF CInv, PoolFilled
<1> QED BY <1>1, CacheInvariant, PTL

(* A coarse brick is never given up, a brick goes only when no slot is free, *)
(* and of those that may go the one touched longest ago (acquireSlot).       *)
THEOREM OldestGoes == Spec => EvictsOldest
<1> DEFINE Leaves(s) ==
      slots[s].occupied /\ slots'[s].key # slots[s].key =>
        /\ ~slots[s].pinned
        /\ \A r \in Slots :
             /\ slots[r].occupied
             /\ ~slots[r].pinned => slots[s].lastTouched <= slots[r].lastTouched
<1>1. ASSUME CInv, [Next]_vars, NEW s \in Slots PROVE Leaves(s)
  <2>1. slots \in [Slots -> SlotRecord]
    BY <1>1 DEF CInv, TypeOK, SlotRecord
  <2>2. CASE UNCHANGED slots
    BY <2>2
  <2>3. ASSUME NEW k \in Keys, Touch(k) \/ Refresh(k) PROVE Leaves(s)
    <3>1. slots' = [slots EXCEPT ![slotOf[k]].lastTouched = frame] /\ frame \in Nat
      BY <1>1, <2>3 DEF Touch, Refresh, CInv, TypeOK
    <3>2. s = slotOf[k] => slots'[s] = [slots[s] EXCEPT !.lastTouched = frame]
      BY <2>1, <3>1
    <3>3. s # slotOf[k] => slots'[s] = slots[s]
      BY <2>1, <3>1
    <3>4. slots'[s].key = slots[s].key
      BY <2>1, <3>1, <3>2, <3>3, TouchedSlot
    <3> QED BY <3>4
  <2>4. ASSUME NEW k \in Keys, UploadToFreeSlot(k) PROVE Leaves(s)
    <3> DEFINE f == freeSlots[Len(freeSlots)]
    <3>1. freeSlots \in Seq(Slots) /\ freeSlots # <<>> /\ Place(pages, k, f)
      BY <1>1, <2>4 DEF UploadToFreeSlot, CInv, TypeOK
    <3>2. f \in Range(freeSlots)
      BY <3>1 DEF Range
    <3>3. s = f => ~slots[s].occupied
      BY <1>1, <3>2 DEF CInv, SlotsAgree
    <3>4. s # f => slots'[s] = slots[s]
      BY <2>1, <3>1 DEF Place
    <3> QED BY <3>3, <3>4
  <2>5. ASSUME NEW k \in Keys, NEW v \in Slots, UploadToVictim(k, v) PROVE Leaves(s)
    <3>1. freeSlots = <<>> /\ Victim(v) /\ Place(Evict(v), k, v)
      BY <2>5 DEF UploadToVictim
    <3>2. s # v => slots'[s] = slots[s]
      BY <2>1, <3>1 DEF Place
    <3>3. \A r \in Slots : slots[r].occupied
      BY <1>1, <3>1 DEF CInv, SlotsAgree, Range
    <3>4. /\ ~slots[v].pinned
          /\ \A r \in Slots : ~slots[r].pinned =>
               \/ slots[v].lastTouched < slots[r].lastTouched
               \/ slots[v].lastTouched = slots[r].lastTouched
      BY <3>1, <3>3 DEF Victim, Evictable
    <3>5. \A r \in Slots : slots[r].lastTouched \in Nat
      BY <2>1 DEF SlotRecord
    <3> QED BY <3>2, <3>3, <3>4, <3>5
  <2>6. UNCHANGED slots \/ \E k \in Keys : Touch(k) \/ Upload(k)
    BY <1>1 DEF Next, SeedEmpties, Initialize, FrameBegin, MarkEmpty, SyncPageTables,
                slotVars, vars
  <2> QED BY <2>2, <2>3, <2>4, <2>5, <2>6 DEF Upload
<1>2. CInv /\ [Next]_vars => [\A s \in Slots : Leaves(s)]_vars
  BY <1>1
<1> QED BY <1>2, CacheInvariant, PTL DEF Spec, EvictsOldest

-----------------------------------------------------------------------------
(* With tiles enough, a flat page table.                                     *)

(* The abstract table, and the one the shaders see.                          *)
TableOf == [k \in Keys |-> ReadEntry(k)]
ShownOf == [k \in Keys |-> ShaderEntry(k)]

LEMMA AbstractEntries ==
  /\ Residency!Unknown = Unknown /\ Residency!Empty = Empty
  /\ \A s : Residency!Resident(s) = Resident(s)
BY DEF Residency!Unknown, Residency!Empty, Residency!Resident, Unknown, Empty, Resident

LEMMA ReadsEntry == \A k : ReadEntry(k) = EntryFor(pages, k)
BY DEF ReadEntry, EntryFor

LEMMA ReadsEntryNext == \A k : ReadEntry(k)' = EntryFor(pages', k)
BY DEF ReadEntry, EntryFor

LEMMA ResidencyStarts == Init => Residency!Init
<1> SUFFICES ASSUME Init PROVE Residency!Init
  OBVIOUS
<1>1. CInv
  BY CacheStarts
<1>2. \A k \in Keys : ReadEntry(k) = Unknown /\ ShaderEntry(k) = Unknown
  <2>1. pages.dir = [t \in Tiles |-> 0] /\ textures.dir = [t \in Tiles |-> 0]
    BY DEF Init, kDirUnknown
  <2>2. \A k \in Keys : pages.dir[k[1]] = 0 /\ textures.dir[k[1]] = 0
    BY <2>1, KeyParts
  <2> QED BY <2>2 DEF ReadEntry, ShaderEntry, Lookup, kDirUnknown, kDirAllEmpty
<1>3. pool = [s \in Slots |-> NoBrick] /\ (phase = "drawing") = FALSE
  BY DEF Init
<1> QED BY <1>2, <1>3, AbstractEntries DEF Residency!Init

(* Bricks become empty.                                                      *)
LEMMA RewritesMarkEmpty ==
  ASSUME NEW S \in SUBSET Keys, Rewrites(pages, pages', S, Empty), phase # "drawing",
         UNCHANGED <<textures, pool, phase>>
  PROVE  Residency!Next
<1>1. TableOf' = [k \in Keys |-> IF k \in S THEN Empty ELSE TableOf[k]]
  BY ReadsEntry, ReadsEntryNext DEF TableOf, Rewrites
<1>2. ShownOf' = ShownOf
  BY DEF ShownOf, ShaderEntry
<1>3. Residency!MarkEmpty(S)
  BY <1>1, <1>2, AbstractEntries DEF Residency!MarkEmpty, TableOf, ShownOf
<1> QED BY <1>3 DEF Residency!Next

(* A brick is placed with tables p, in which its slot's old brick, if it had *)
(* one, is unknown.                                                          *)
LEMMA PlaceUploads ==
  ASSUME NEW p, NEW k \in Keys, NEW s \in Slots, phase = "uploading",
         p \in Pages, TablesApart(p), Suffices(p), Place(p, k, s), pool[s] # k,
         \A j \in Keys : EntryFor(p, j) = IF j = pool[s] THEN Unknown ELSE EntryFor(pages, j)
  PROVE  Residency!Next
<1>1. /\ pages' = WriteEntry(p, k, Resident(s))
      /\ pool' = [pool EXCEPT ![s] = k]
      /\ UNCHANGED <<textures, phase>>
  BY DEF Place
<1>2. k[1] \in Tiles
  BY KeyParts
<1>3. Rewrites(p, pages', {k}, Resident(s))
  BY <1>1, <1>2, WriteEntryRewrites, SufficesHasRoom, EntryTypes
<1>4. \A j \in Keys : EntryFor(pages', j) =
         CASE j = k       -> Resident(s)
           [] j = pool[s] -> Unknown
           [] OTHER       -> EntryFor(pages, j)
  BY <1>3 DEF Rewrites
<1>5. TableOf' = [j \in Keys |-> CASE j = k       -> Resident(s)
                                   [] j = pool[s] -> Unknown
                                   [] OTHER       -> TableOf[j]]
  BY <1>4, ReadsEntry, ReadsEntryNext DEF TableOf
<1>6. ShownOf' = ShownOf
  BY <1>1 DEF ShownOf, ShaderEntry
<1>7. Residency!Upload(k, s)
  BY <1>1, <1>5, <1>6, AbstractEntries DEF Residency!Upload, TableOf, ShownOf
<1> QED BY <1>7 DEF Residency!Next

LEMMA StepsAreResidencySteps ==
  ASSUME CInv, CInv', [Next]_vars
  PROVE  [TilesSuffice => Residency!Next]_(Residency!residencyVars)
<1> SUFFICES ASSUME Suffices(pages), ~UNCHANGED Residency!residencyVars
             PROVE  Residency!Next
  BY DEF TilesSuffice, Suffices, Bare
<1>1. pages \in Pages /\ TablesApart(pages)
  BY TypedPages DEF CInv
<1>2. ~UNCHANGED <<TableOf, pool, ShownOf, phase>>
  BY DEF Residency!residencyVars, TableOf, ShownOf
<1>3. UNCHANGED <<pages, textures>> => UNCHANGED <<TableOf, ShownOf>>
  BY DEF TableOf, ShownOf, ReadEntry, ShaderEntry
<1>4. ASSUME NEW t \in Tiles, NEW E \in SUBSET Offsets, SeedEmpties(t, E)
      PROVE  Residency!Next
  <2>1. Rewrites(pages, pages', {t} \X E, Empty)
    BY <1>1, <1>4, SeededTileRewrites, SufficesHasRoom DEF SeedEmpties
  <2>2. {t} \X E \in SUBSET Keys
    BY DEF Keys
  <2> QED BY <1>4, <2>1, <2>2, RewritesMarkEmpty DEF SeedEmpties, slotVars
<1>5. CASE Initialize
  <2>1. pages'.dir = pages.dir /\ pages'.tile = pages.tile
    BY <1>1, <1>5 DEF Initialize, Pages
  <2>2. textures'.dir = pages.dir /\ textures'.tile = pages.tile
    BY <1>5 DEF Initialize
  <2>3. TableOf' = TableOf
    BY <2>1 DEF TableOf, ReadEntry
  <2>4. ShownOf' = TableOf
    BY <2>2 DEF TableOf, ShownOf, ReadEntry, ShaderEntry
  <2>5. Residency!Publish
    BY <1>5, <2>3, <2>4 DEF Residency!Publish, Initialize, slotVars, TableOf, ShownOf
  <2> QED BY <2>5 DEF Residency!Next
<1>6. CASE FrameBegin
  <2>1. Residency!BeginFrame
    BY <1>3, <1>6 DEF Residency!BeginFrame, FrameBegin, slotVars, TableOf, ShownOf
  <2> QED BY <2>1 DEF Residency!Next
<1>7. ASSUME NEW k \in Keys, MarkEmpty(k) PROVE Residency!Next
  <2>1. k[1] \in Tiles
    BY KeyParts
  <2>2. pages' = WriteEntry(pages, k, Empty) /\ phase # "drawing"
        /\ UNCHANGED <<textures, pool, phase>>
    BY <1>7 DEF MarkEmpty, slotVars
  <2>3. Rewrites(pages, pages', {k}, Empty)
    BY <1>1, <2>1, <2>2, WriteEntryRewrites, SufficesHasRoom, EntryTypes
  <2> QED BY <2>2, <2>3, RewritesMarkEmpty
<1>8. ASSUME NEW k \in Keys, Touch(k) \/ Refresh(k) PROVE Residency!Next
  BY <1>2, <1>3, <1>8 DEF Touch, Refresh
<1>9. ASSUME NEW k \in Keys, UploadToFreeSlot(k) PROVE Residency!Next
  <2> DEFINE s == freeSlots[Len(freeSlots)]
  <2>1. /\ freeSlots \in Seq(Slots) /\ freeSlots # <<>> /\ phase = "uploading"
        /\ Place(pages, k, s)
    BY <1>9 DEF UploadToFreeSlot, CInv, TypeOK
  <2>2. s \in Slots /\ s \in Range(freeSlots)
    BY <2>1 DEF Range
  <2> HIDE DEF s
  <2>3. pool[s] = NoBrick
    BY <2>2 DEF CInv, SlotsAgree, PoolFilled
  <2>4. NoBrick \notin Keys
    BY CacheAssumption DEF CacheAssumption
  <2> QED BY <1>1, <2>1, <2>2, <2>3, <2>4, PlaceUploads
<1>10. ASSUME NEW k \in Keys, NEW s \in Slots, UploadToVictim(k, s)
       PROVE  Residency!Next
  <2> DEFINE p == Evict(s)
  <2>1. /\ phase = "uploading" /\ slotOf[k] \notin Slots /\ slots[s].occupied
        /\ Place(p, k, s)
    BY <1>10 DEF UploadToVictim, Victim, Evictable
  <2> HIDE DEF p
  <2>2. pool[s] = slots[s].key
    BY DEF CInv, PoolFilled
  <2>3. /\ pool[s] \in Keys /\ slotOf[pool[s]] = s
        /\ p \in Pages /\ TablesApart(p) /\ Suffices(p)
        /\ \A j \in Keys \ {pool[s]} : EntryFor(p, j) = EntryFor(pages, j)
        /\ EntryFor(p, pool[s]) = Unknown
    BY <2>1, <2>2, EvictLemma DEF p
  <2>4. \A j \in Keys : EntryFor(p, j) = IF j = pool[s] THEN Unknown ELSE EntryFor(pages, j)
    BY <2>3
  <2>5. pool[s] # k
    BY <2>1, <2>3
  <2> QED BY <2>1, <2>3, <2>4, <2>5, PlaceUploads
<1>11. CASE SyncPageTables
  <2>1. /\ pages'.dir = pages.dir /\ pages'.tile = pages.tile
        /\ textures'.dir = pages.dir /\ textures'.tile = pages.tile
    BY <1>11, SyncCopiesEverything
  <2>2. TableOf' = TableOf
    BY <2>1 DEF TableOf, ReadEntry
  <2>3. ShownOf' = TableOf
    BY <2>1 DEF TableOf, ShownOf, ReadEntry, ShaderEntry
  <2>4. Residency!Publish
    BY <1>11, <2>2, <2>3 DEF Residency!Publish, SyncPageTables, slotVars, TableOf, ShownOf
  <2> QED BY <2>4 DEF Residency!Next
<1>12. CASE UNCHANGED vars
  BY <1>2, <1>3, <1>12 DEF vars, slotVars
<1> QED BY <1>4, <1>5, <1>6, <1>7, <1>8, <1>9, <1>10, <1>11, <1>12 DEF Next, Upload

(* With tiles enough, every step of the cache is a step of a flat page table *)
(* or changes nothing it promises (GpuBrickCache.h:19-30).                   *)
THEOREM CacheKeepsItsPromise == Spec => KeepsItsPromise
BY ResidencyStarts, CacheInvariant, StepsAreResidencySteps, PTL DEF Spec, KeepsItsPromise
=============================================================================

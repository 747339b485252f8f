--------------------------- MODULE GpuBrickCache ---------------------------
(***************************************************************************)
(* The brick cache on the GPU (render/GpuBrickCache): a pool of slots        *)
(* replaced least recently touched first, and sparse page tables that tell   *)
(* the shaders where a brick is.  A directory has one entry per tile of      *)
(* bricks: unknown, all empty, or the number of a page-table tile, which are *)
(* allocated on demand from a fixed pool and never given back.  The CPU      *)
(* writes mirrors, marks them dirty and copies them to textures once a       *)
(* frame.                                                                    *)
(*                                                                         *)
(* Everything runs on the render thread, in the order that openVolume and    *)
(* vtkScrollVolumeMapper::Render fix (phase): seeding from the manifest when *)
(* the volume opens; then in each frame frameBegin, the PreRender callback   *)
(* with its markEmpty and upload calls, and syncPageTables, before anything  *)
(* is drawn.  The planner's touch() comes between frames, and so do the      *)
(* frames of the surface window, which share the textures.                   *)
(*                                                                         *)
(* A brick is a tile and its offset in it; voxels, densities and the slot's  *)
(* coordinates are left out.  Frames count up to MaxFrame.                   *)
(*                                                                         *)
(* WriteEntryClean, AllocateTileUnknown, EvictQuietly, VictimAny and         *)
(* HasTileOffByOne are faulty variants of the definitions they precede;      *)
(* nothing uses them.                                                        *)
(***************************************************************************)
EXTENDS Naturals, Sequences, FiniteSets, Functions

CONSTANTS
  Tiles,         \* tiles of the brick grids of all levels
  Offsets,       \* positions in a tile
  Levels,        \* pyramid levels
  LevelOf,       \* the level each tile belongs to
  PinnedLevels,  \* levels whose bricks are uploaded pinned
  SlotCount,     \* slots of the brick pool
  TileCapacity,  \* tileCapacity_
  Taken,         \* how many tiles of the pool other levels may hold
  MaxFrame,      \* bound on frame numbers
  NoBrick        \* content of a slot never written

Keys == Tiles \X Offsets

ASSUME CacheAssumption ==
  /\ IsFiniteSet(Tiles)
  /\ Offsets # {}
  /\ LevelOf \in [Tiles -> Levels]
  /\ PinnedLevels \subseteq Levels
  /\ SlotCount \in Nat \ {0}
  /\ TileCapacity \in Nat
  /\ Taken \subseteq 0..TileCapacity
  /\ MaxFrame \in Nat
  /\ NoBrick \notin Keys

VARIABLES
  pages,      \* the mirrors: directory, tiles, how many are in use, dirty flags
  textures,   \* the directory and tiles as the shaders see them
  slots,      \* slots_
  freeSlots,  \* freeSlots_
  slotOf,     \* slotOf_: slot of each brick in it
  pool,       \* the brick whose voxels each slot of the pool texture holds
  frame,      \* frame_
  unseeded,   \* tiles the manifest has not been consulted for
  phase       \* where the render thread is

slotVars == <<slots, freeSlots, slotOf, pool>>
vars == <<pages, textures, slotVars, frame, unseeded, phase>>

Slots == 0 .. SlotCount - 1
NoSlot == SlotCount

TileSlots == 0 .. TileCapacity - 1

-----------------------------------------------------------------------------
(* Page tables. *)

kDirUnknown  == 0
kDirAllEmpty == 1

Unknown     == [is |-> "Unknown", slot |-> 0]
Empty       == [is |-> "Empty", slot |-> 0]
Resident(s) == [is |-> "Resident", slot |-> s]

Entry == {Unknown, Empty} \cup {Resident(s) : s \in Slots}

(* What a reader of directory dir and tiles tile finds for brick k.          *)
Lookup(dir, tile, k) ==
  CASE dir[k[1]] = kDirUnknown  -> Unknown
    [] dir[k[1]] = kDirAllEmpty -> Empty
    [] OTHER                    -> tile[dir[k[1]] - 2][k[2]]

ReadEntry(k) == Lookup(pages.dir, pages.tile, k)
ShaderEntry(k) == Lookup(textures.dir, textures.tile, k)

HasTileOffByOne(p) == p.allocated <= TileCapacity
HasTile(p) == p.allocated < TileCapacity

AllocateTileUnknown(p, t) ==
  [dir       |-> [p.dir EXCEPT ![t] = p.allocated + 2],
   tile      |-> [p.tile EXCEPT ![p.allocated] = [o \in Offsets |-> Unknown]],
   allocated |-> p.allocated + 1,
   dirDirty  |-> [p.dirDirty EXCEPT ![LevelOf[t]] = TRUE],
   tileDirty |-> [p.tileDirty EXCEPT ![p.allocated] = TRUE]]

(* allocateTile(): a tile that was all empty keeps saying so.                *)
AllocateTile(p, t) ==
  LET fill == IF p.dir[t] = kDirAllEmpty THEN Empty ELSE Unknown IN
  [dir       |-> [p.dir EXCEPT ![t] = p.allocated + 2],
   tile      |-> [p.tile EXCEPT ![p.allocated] = [o \in Offsets |-> fill]],
   allocated |-> p.allocated + 1,
   dirDirty  |-> [p.dirDirty EXCEPT ![LevelOf[t]] = TRUE],
   tileDirty |-> [p.tileDirty EXCEPT ![p.allocated] = TRUE]]

(* The page tables with a tile for t, if the tile pool has one left.         *)
WithTile(p, t) ==
  IF p.dir[t] < 2 /\ HasTile(p) THEN AllocateTile(p, t) ELSE p

WriteEntryClean(p, k, v) ==
  LET q == WithTile(p, k[1]) IN
  IF q.dir[k[1]] < 2 THEN p ELSE
  [q EXCEPT !.tile[q.dir[k[1]] - 2][k[2]] = v]

(* writeEntry(): when the tile pool is exhausted, the entry is not written.  *)
WriteEntry(p, k, v) ==
  LET q == WithTile(p, k[1])
      i == q.dir[k[1]] - 2
  IN IF q.dir[k[1]] < 2 THEN p ELSE
     [q EXCEPT !.tile[i][k[2]] = v, !.tileDirty[i] = TRUE]

-----------------------------------------------------------------------------
(* seedEmpties(), for one tile and the bricks E of it that the manifest says *)
(* are empty: a tile that is empty as a whole takes one directory entry.     *)
SeededTile(p, t, E) ==
  LET q == WithTile(p, t)
      i == q.dir[t] - 2
  IN CASE E = {} -> p
       [] E = Offsets /\ p.dir[t] = kDirUnknown ->
            [p EXCEPT !.dir[t] = kDirAllEmpty, !.dirDirty[LevelOf[t]] = TRUE]
       [] OTHER ->
            IF q.dir[t] < 2 THEN p ELSE
            [q EXCEPT !.tile[i] =
                        [o \in Offsets |-> IF o \in E THEN Empty ELSE @[o]],
                      !.tileDirty[i] = TRUE]

SeedEmpties(t, E) ==
  /\ phase = "opening"
  /\ t \in unseeded
  /\ unseeded' = unseeded \ {t}
  /\ pages' = SeededTile(pages, t, E)
  /\ UNCHANGED <<textures, slotVars, frame, phase>>

(* In the first frame the textures are created from the mirrors.             *)
Initialize ==
  /\ phase = "opening"
  /\ phase' = "initialized"
  /\ textures' = [dir |-> pages.dir, tile |-> pages.tile]
  /\ pages' = [pages EXCEPT !.dirDirty = [l \in Levels |-> FALSE]]
  /\ UNCHANGED <<slotVars, frame, unseeded>>

(* The overlay's cache is told the pump counter, which can repeat.           *)
FrameBegin ==
  /\ phase \in {"initialized", "drawing"}
  /\ frame' \in {frame, frame + 1}
  /\ frame' <= MaxFrame
  /\ phase' = "uploading"
  /\ UNCHANGED <<pages, textures, slotVars, unseeded>>

(* The overlay's first empty bricks are marked before it is initialized.     *)
MarkEmpty(k) ==
  /\ phase \in {"opening", "uploading"}
  /\ ReadEntry(k) # Empty
  /\ pages' = WriteEntry(pages, k, Empty)
  /\ UNCHANGED <<textures, slotVars, frame, unseeded, phase>>

(* The planner's and the surface window's working sets.                      *)
Touch(k) ==
  /\ phase = "drawing"
  /\ slotOf[k] \in Slots
  /\ slots' = [slots EXCEPT ![slotOf[k]].lastTouched = frame]
  /\ UNCHANGED <<pages, textures, freeSlots, slotOf, pool, frame, unseeded,
                 phase>>

-----------------------------------------------------------------------------
(* uploadFromBoundPbo(). *)

(* A brick that has a slot is only touched.                                  *)
Refresh(k) ==
  /\ phase = "uploading"
  /\ slotOf[k] \in Slots
  /\ slots' = [slots EXCEPT ![slotOf[k]].lastTouched = frame]
  /\ UNCHANGED <<pages, textures, freeSlots, slotOf, pool, frame, unseeded,
                 phase>>

(* The brick goes to slot s, whose entry is written last.                    *)
Place(p, k, s) ==
  /\ slots' = [slots EXCEPT ![s] = [key |-> k, occupied |-> TRUE,
                                    pinned |-> LevelOf[k[1]] \in PinnedLevels,
                                    lastTouched |-> frame]]
  /\ pool' = [pool EXCEPT ![s] = k]
  /\ pages' = WriteEntry(p, k, Resident(s))
  /\ UNCHANGED <<textures, frame, unseeded, phase>>

UploadToFreeSlot(k) ==
  /\ phase = "uploading"
  /\ slotOf[k] \notin Slots
  /\ freeSlots # <<>>
  /\ LET s == freeSlots[Len(freeSlots)] IN
       /\ Place(pages, k, s)
       /\ slotOf' = [slotOf EXCEPT ![k] = s]
  /\ freeSlots' = [i \in 1 .. Len(freeSlots) - 1 |-> freeSlots[i]]

Evictable == {s \in Slots : slots[s].occupied /\ ~slots[s].pinned}

VictimAny(s) == s \in Evictable

(* acquireSlot() takes the first of the least recently touched slots.        *)
Victim(s) ==
  /\ s \in Evictable
  /\ \A r \in Evictable :
       \/ slots[s].lastTouched < slots[r].lastTouched
       \/ slots[s].lastTouched = slots[r].lastTouched /\ s <= r

EvictQuietly(s) == pages
(* The pages after the brick in slot s has gone back to unknown.             *)
Evict(s) == WriteEntry(pages, slots[s].key, Unknown)

(* With every slot pinned there is no victim and the upload is dropped.      *)
UploadToVictim(k, s) ==
  /\ phase = "uploading"
  /\ slotOf[k] \notin Slots
  /\ freeSlots = <<>>
  /\ Victim(s)
  /\ Place(Evict(s), k, s)
  /\ slotOf' = [slotOf EXCEPT ![slots[s].key] = NoSlot, ![k] = s]
  /\ UNCHANGED freeSlots

-----------------------------------------------------------------------------
(* syncPageTables(): dirty levels and dirty tiles are copied.                *)
SyncPageTables ==
  /\ phase = "uploading"
  /\ phase' = "drawing"
  /\ textures' =
       [dir  |-> [t \in Tiles |-> IF pages.dirDirty[LevelOf[t]]
                                  THEN pages.dir[t] ELSE textures.dir[t]],
        tile |-> [i \in TileSlots |->
                   IF i < pages.allocated /\ pages.tileDirty[i]
                   THEN pages.tile[i] ELSE textures.tile[i]]]
  /\ pages' = [pages EXCEPT
                 !.dirDirty = [l \in Levels |-> FALSE],
                 !.tileDirty = [i \in TileSlots |-> i >= pages.allocated /\ @[i]]]
  /\ UNCHANGED <<slotVars, frame, unseeded>>

-----------------------------------------------------------------------------
NoTiles == [i \in TileSlots |-> [o \in Offsets |-> Unknown]]

Init ==
  /\ \E taken \in Taken :
       pages = [dir       |-> [t \in Tiles |-> kDirUnknown],
                tile      |-> NoTiles,
                allocated |-> taken,
                dirDirty  |-> [l \in Levels |-> FALSE],
                tileDirty |-> [i \in TileSlots |-> FALSE]]
  /\ textures = [dir |-> [t \in Tiles |-> kDirUnknown], tile |-> NoTiles]
  /\ slots = [s \in Slots |-> [key |-> NoBrick, occupied |-> FALSE,
                               pinned |-> FALSE, lastTouched |-> 0]]
  /\ freeSlots = [i \in 1..SlotCount |-> SlotCount - i]
  /\ slotOf = [k \in Keys |-> NoSlot]
  /\ pool = [s \in Slots |-> NoBrick]
  /\ frame = 0
  /\ unseeded = Tiles
  /\ phase = "opening"

Upload(k) ==
  Refresh(k) \/ UploadToFreeSlot(k) \/ \E s \in Slots : UploadToVictim(k, s)

Next ==
  \/ \E t \in Tiles, E \in SUBSET Offsets : SeedEmpties(t, E)
  \/ Initialize
  \/ FrameBegin
  \/ \E k \in Keys : MarkEmpty(k) \/ Touch(k) \/ Upload(k)
  \/ SyncPageTables

Spec == Init /\ [][Next]_vars

-----------------------------------------------------------------------------
(* Properties. *)

TypeOK ==
  /\ pages \in [dir       : [Tiles -> 0 .. TileCapacity + 1],
               tile      : [TileSlots -> [Offsets -> Entry]],
               allocated : 0..TileCapacity,
               dirDirty  : [Levels -> BOOLEAN],
               tileDirty : [TileSlots -> BOOLEAN]]
  /\ textures \in [dir  : [Tiles -> 0 .. TileCapacity + 1],
                  tile : [TileSlots -> [Offsets -> Entry]]]
  /\ slots \in [Slots -> [key : Keys \cup {NoBrick}, occupied : BOOLEAN,
                         pinned : BOOLEAN, lastTouched : Nat]]
  /\ freeSlots \in Seq(Slots)
  /\ slotOf \in [Keys -> Slots \cup {NoSlot}]
  /\ pool \in [Slots -> Keys \cup {NoBrick}]
  /\ frame \in Nat
  /\ unseeded \subseteq Tiles
  /\ phase \in {"opening", "initialized", "uploading", "drawing"}

(* The tile pool cannot run out. *)
TilesSuffice ==
  Cardinality({t \in Tiles : pages.dir[t] < 2}) <= TileCapacity - pages.allocated

(* OneIndex: the slots, the map from bricks to slots, the free list and the  *)
(* page entries are four indexes of the same pool, updated one after         *)
(* another.  They agree, a slot belongs to one brick, and no page entry      *)
(* points to a slot that is not its brick's.  With tiles enough, as          *)
(* GpuBrickCache.cpp:38 has it ("enough for every tile of every level"),     *)
(* every resident brick has an entry: isResident() keeps the planner from    *)
(* ever asking for it again, so a missing one would be a hole for good.      *)
OneIndex ==
  /\ \A k \in Keys, s \in Slots :
       slotOf[k] = s <=> slots[s].occupied /\ slots[s].key = k
  /\ \A s \in Slots : slots[s].occupied <=> s \notin Range(freeSlots)
  /\ IsInjective(freeSlots)
  /\ \A k \in Keys, s \in Slots : ReadEntry(k) = Resident(s) => slotOf[k] = s
  /\ TilesSuffice =>
       \A k \in Keys : slotOf[k] \in Slots => ReadEntry(k) # Unknown

(* DrawSeesOwnBrick: a slot is given to another brick while the shaders'     *)
(* page tables still point to it for the old one, and tables are copied only *)
(* where a dirty flag says so.  Whenever a frame can be drawn, in either     *)
(* window, an entry the shaders find leads to the voxels of its own brick.   *)
DrawSeesOwnBrick ==
  phase = "drawing" =>
    \A k \in Keys, s \in Slots : ShaderEntry(k) = Resident(s) => pool[s] = k

(* EvictsOldest: the coarse levels every ray can fall back to are pinned and *)
(* never given up, however full the pool is; a brick touched more recently   *)
(* than another is not the one to go, and none goes while a slot is free.    *)
EvictsOldest ==
  [][\A s \in Slots :
       slots[s].occupied /\ slots'[s].key # slots[s].key =>
         /\ ~slots[s].pinned
         /\ \A r \in Slots :
              /\ slots[r].occupied
              /\ ~slots[r].pinned =>
                   slots[s].lastTouched <= slots[r].lastTouched]_vars

(* KeepsItsPromise: with tiles enough, the sparse tables, their dirty flags  *)
(* and the replacement policy implement a flat page table: in particular no  *)
(* brick becomes empty for its neighbours' sake (the rays would skip it for  *)
(* ever) and none that is known to be empty is forgotten.                    *)
Residency ==
  INSTANCE BrickResidency
    WITH table    <- [k \in Keys |-> ReadEntry(k)],
         shown    <- [k \in Keys |-> ShaderEntry(k)],
         drawable <- phase = "drawing"

KeepsItsPromise ==
  Residency!Init /\ [][TilesSuffice => Residency!Next]_Residency!residencyVars

=============================================================================

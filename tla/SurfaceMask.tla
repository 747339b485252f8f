------------------------------ MODULE SurfaceMask ------------------------------
(***************************************************************************)
(* The shell mask around a surface (render/SurfaceMask, and its use in       *)
(* app/ViewerWindow): when a surface is loaded or a slab slider released,    *)
(* the main thread has bands of its rows swept by the IO pool, waits for     *)
(* them, merges what they marked and derives, for every level, which bricks  *)
(* the shell touches; the next frame uploads it.                             *)
(*                                                                         *)
(* Abstractions.  Space has one axis of cells.  A row of the surface is the  *)
(* cell it lies in, or Hole if its points are not valid; its sweep marks the *)
(* cells up to the slab's thickness away that are inside the volume.  A      *)
(* block is the set of its marked cells, so a set of cells is a map of       *)
(* blocks.  A band is one step: it writes what no other thread reads.  The   *)
(* pool runs every job (the window is not closed meanwhile), and             *)
(* releaseGraphicsResources() is left out: nothing calls it.                 *)
(*                                                                         *)
(* EqualBands and LastBandWins are faulty variants of the definitions they   *)
(* precede; nothing uses them.                                               *)
(***************************************************************************)
EXTENDS Integers, Sequences, FiniteSets, FiniteSetsExt

CONSTANTS
  Surfaces,    \* surfaces to load: sequences of rows
  Hole,
  Slabs,       \* thicknesses of the slab
  BlockCells,  \* cells of a brick
  BrickGrids,  \* bricks of each level of the cache, the finest first
  Tasks,       \* tasks
  MaxRebuilds  \* bound on the rebuilds

(* The levels of a pyramid that halves, rounding up or down.                 *)
ASSUME MaskAssumption ==
  /\ Surfaces \subseteq Seq(Int \cup {Hole})
  /\ BlockCells \in Nat \ {0}
  /\ BrickGrids \in Seq(Nat \ {0}) /\ BrickGrids # <<>>
  /\ \A i \in 2 .. Len(BrickGrids) : BrickGrids[i] <= (BrickGrids[i - 1] + 1) \div 2
  /\ Tasks \in Nat \ {0}

VARIABLES
  surface,          \* surface_: <<>> before one is loaded
  slab,             \* the sliders
  bands,            \* for each task "none", "posted" or "swept"
  partial,          \* partial: the cells each task marked
  building,         \* the main thread waits in build()
  blocks,           \* blocks_
  presence,         \* presence_
  dirty,            \* dirty_
  maskNeedsUpload,  \* maskNeedsUpload_
  shown,            \* what the textures hold
  rebuilds          \* number of rebuilds

maskVars == <<surface, slab, bands, partial, building, blocks, presence, dirty,
              maskNeedsUpload, shown, rebuilds>>

TaskIds == 0 .. Tasks - 1
MaskLevels  == DOMAIN BrickGrids

Nothing == [blocks |-> {}, presence |-> [i \in MaskLevels |-> {}]]

BlockOf(cell) == cell \div BlockCells

(* The cells of the finest level. *)
MaskCells == 0 .. BlockCells * BrickGrids[1] - 1

Sweep(row, thickness) ==
  IF row = Hole THEN {}
  ELSE {c \in row - thickness .. row + thickness : c \in MaskCells}

-----------------------------------------------------------------------------
EqualBands(rows, task) ==
  {v \in 1..rows : v - 1 >= (rows \div Tasks) * task /\ v - 1 < (rows \div Tasks) * (task + 1)}

(* Contiguous bands of rows. *)
Band(rows, task) ==
  {v \in 1..rows : v - 1 >= (rows * task) \div Tasks /\ v - 1 < (rows * (task + 1)) \div Tasks}

Rebuild ==
  /\ bands' = [t \in TaskIds |-> "posted"]
  /\ partial' = [t \in TaskIds |-> {}]
  /\ building' = TRUE
  /\ rebuilds' = rebuilds + 1
  /\ UNCHANGED <<blocks, presence, dirty, maskNeedsUpload, shown>>

LoadSurface ==
  /\ surface = <<>>
  /\ surface' \in Surfaces
  /\ slab' \in Slabs
  /\ Rebuild

(* A slider is released. *)
SetSlab ==
  /\ surface # <<>>
  /\ ~building
  /\ rebuilds < MaxRebuilds
  /\ slab' \in Slabs
  /\ UNCHANGED surface
  /\ Rebuild

SweepBand(task) ==
  /\ bands[task] = "posted"
  /\ partial' = [partial EXCEPT ![task] =
       UNION {Sweep(surface[v], slab) : v \in Band(Len(surface), task)}]
  /\ bands' = [bands EXCEPT ![task] = "swept"]
  /\ UNCHANGED <<surface, slab, building, blocks, presence, dirty, maskNeedsUpload,
                 shown, rebuilds>>

LastBandWins ==
  {c \in UNION {partial[t] : t \in TaskIds} :
     LET touching == {t \in TaskIds : \E d \in partial[t] : BlockOf(d) = BlockOf(c)}
     IN c \in partial[Max(touching)]}

Merged == UNION {partial[t] : t \in TaskIds}

(* Level 0 is the blocks; a brick of a coarser level is there if one of its  *)
(* children is, and the children beyond the grid belong to its last brick.   *)
PresenceOf(cells) ==
  LET at[i \in MaskLevels] ==
        IF i = 1 THEN {BlockOf(c) : c \in cells}
        ELSE {Min({b \div 2, BrickGrids[i] - 1}) : b \in at[i - 1]}
  IN at

(* Every future is there: build() ends, and the stream is woken. *)
EndBuild ==
  /\ building
  /\ \A t \in TaskIds : bands[t] = "swept"
  /\ blocks' = Merged
  /\ presence' = PresenceOf(Merged)
  /\ dirty' = TRUE
  /\ maskNeedsUpload' = TRUE
  /\ building' = FALSE
  /\ UNCHANGED <<surface, slab, bands, partial, shown, rebuilds>>

(* preRenderUpload() and upload(). *)
UploadMask ==
  /\ ~building
  /\ maskNeedsUpload
  /\ maskNeedsUpload' = FALSE
  /\ shown' = IF dirty THEN [blocks |-> blocks, presence |-> presence] ELSE shown
  /\ dirty' = FALSE
  /\ UNCHANGED <<surface, slab, bands, partial, building, blocks, presence, rebuilds>>

MaskInit ==
  /\ surface = <<>>
  /\ slab = 0
  /\ bands = [t \in TaskIds |-> "none"]
  /\ partial = [t \in TaskIds |-> {}]
  /\ building = FALSE
  /\ blocks = {}
  /\ presence = [i \in MaskLevels |-> {}]
  /\ dirty = FALSE
  /\ maskNeedsUpload = FALSE
  /\ shown = Nothing
  /\ rebuilds = 0

MaskNext ==
  \/ LoadSurface
  \/ SetSlab
  \/ \E t \in TaskIds : SweepBand(t)
  \/ EndBuild
  \/ UploadMask

MaskSpec == MaskInit /\ [][MaskNext]_maskVars

-----------------------------------------------------------------------------
(* Properties. *)

(* MaskTypeOK: a band marks cells of the volume only, and no level's         *)
(* presence has a brick that its grid has not.                               *)
MaskTypeOK ==
  /\ surface \in Surfaces \cup {<<>>}
  /\ slab \in Slabs \cup {0}
  /\ bands \in [TaskIds -> {"none", "posted", "swept"}]
  /\ partial \in [TaskIds -> SUBSET MaskCells]
  /\ {building, dirty, maskNeedsUpload} \subseteq BOOLEAN
  /\ blocks \subseteq MaskCells
  /\ \A i \in MaskLevels : presence[i] \subseteq 0 .. BrickGrids[i] - 1
  /\ shown.blocks \subseteq MaskCells
  /\ \A i \in MaskLevels : shown.presence[i] \subseteq 0 .. BrickGrids[i] - 1
  /\ rebuilds \in Nat

(* How many finest bricks a brick of each level spans. *)
Span[i \in MaskLevels] == IF i = 1 THEN 1 ELSE 2 * Span[i - 1]

(* MaskIsWhole: the rows are split over the tasks with integer divisions     *)
(* (there may be fewer rows than tasks), two bands may mark the same block,  *)
(* and sliders may be released again before a frame is drawn.  Yet what the  *)
(* GPU has is, until the next change, the whole sweep of the whole surface   *)
(* at the slab last chosen; and for every level, in a grid rounded up or     *)
(* down, the brick that build() takes a marked cell to lie in (the finest    *)
(* one halved again and again, cut off at the grid's end) is present.        *)
(* Nothing is claimed of the brick in which the raymarch shader looks a      *)
(* place up, which rounds otherwise (vtkScrollVolumeMapper.cpp:588-589).     *)
MaskIsWhole ==
  surface # <<>> /\ ~building /\ ~maskNeedsUpload =>
    /\ shown.blocks = UNION {Sweep(surface[v], slab) : v \in DOMAIN surface}
    /\ \A i \in MaskLevels : \A c \in shown.blocks :
         Min({BlockOf(c) \div Span[i], BrickGrids[i] - 1}) \in shown.presence[i]

=============================================================================

--------------------------- MODULE WorkingSetPlanner ---------------------------
(***************************************************************************)
(* Which bricks a view wants (render/WorkingSetPlanner), and what the        *)
(* planner knows of them beforehand: the manifest sidecar, which has each    *)
(* chunk's least and greatest density (data/VolumeManifest).                 *)
(*                                                                         *)
(* Abstractions.  The volume has one axis.  A view is the voxels it shows    *)
(* and the voxels to a pixel; priorities are left out.  A manifest is a      *)
(* sequence of levels, the finest first, each a function on its grid, the    *)
(* empty one if the level has no data; a file is the number of levels its    *)
(* header announces and the levels written so far.                           *)
(***************************************************************************)
EXTENDS Integers, Sequences, SequencesExt

CONSTANTS
  Shape,       \* shape_: voxels at full resolution
  ChunkDim,    \* chunkDim_
  LevelCount   \* levelCount_

(* A volume opens with at least one level, of chunks that hold voxels.       *)
ASSUME PlannerAssumption ==
  Shape \in Nat /\ ChunkDim \in Nat \ {0} /\ LevelCount \in Nat \ {0}

NodeLevels == 0 .. LevelCount - 1

(* 1 << level *)
LevelScale[level \in NodeLevels] == IF level = 0 THEN 1 ELSE 2 * LevelScale[level - 1]

CeilDiv(a, b) == (a + b - 1) \div b

(* A level has at least one voxel, hence one brick. *)
GridDims(level) == CeilDiv(Max({1, CeilDiv(Shape, LevelScale[level])}), ChunkDim)

Nodes == UNION {{level} \X (0 .. GridDims(level) - 1) : level \in NodeLevels}

Coarsest == LevelCount - 1

ChildIndexes(b) == {2 * b[2], 2 * b[2] + 1}

Children(b) == ({b[1] - 1} \X ChildIndexes(b)) \cap Nodes

-----------------------------------------------------------------------------
(* VolumeManifest. *)

HasLevel(m, level) ==
  /\ level < Len(m)
  /\ DOMAIN m[level + 1] # {}

(* Outside the manifest's grid anything is possible. *)
RangeOf(m, b) ==
  IF b[2] \in DOMAIN m[b[1] + 1] THEN m[b[1] + 1][b[2]] ELSE [min |-> 0, max |-> 255]

Invisible(m, b, threshold) == RangeOf(m, b).max <= threshold

(* parse(): a file that ends before its last level is no manifest; <<>> is   *)
(* none, too.                                                                *)
Parse(file) ==
  IF Len(file.levels) < file.announced THEN <<>>
  ELSE file.levels

-----------------------------------------------------------------------------
(* The planner. *)

(* No finer than the screen resolves, as far as there are levels.            *)
Desired(voxelsPerPixel) ==
  Min({d \in NodeLevels : LevelScale[d] >= voxelsPerPixel} \cup {Coarsest})

IntersectsView(view, b) ==
  \E v \in view.voxels : v \div (ChunkDim * LevelScale[b[1]]) = b[2]

Pruned(m, threshold, b) ==
  HasLevel(m, b[1]) /\ Invisible(m, b, threshold)

(* A query has what plan() is given: the view, the manifest, the threshold,  *)
(* the bricks that are resident and maxRequests.                             *)
Passes(q, b) == IntersectsView(q.view, b) /\ ~Pruned(q.manifest, q.threshold, b)

(* The children a brick has in the grid of the next finer level. *)
Pushed(b) ==
  [i \in 1 .. Min({2, GridDims(b[1] - 1) - 2 * b[2]}) |-> <<b[1] - 1, 2 * b[2] + i - 1>>]

(* One brick comes off the stack: pruned with all that is below it, or       *)
(* visible, or missing while there is room, and its children are pushed.     *)
Visit(q, p) ==
  LET b == Last(p.stack)
      found(stack) ==
        [stack   |-> stack,
         visible |-> p.visible \cup ({b} \cap q.resident),
         missing |-> IF b \notin q.resident /\ Len(p.missing) < q.cap
                     THEN Append(p.missing, b) ELSE p.missing]
  IN IF p.stack = <<>> THEN p
     ELSE IF ~Passes(q, b) THEN [p EXCEPT !.stack = Front(@)]
     ELSE IF b[1] > Desired(q.view.voxelsPerPixel)
          THEN found(Front(p.stack) \o Pushed(b))
          ELSE found(Front(p.stack))

(* plan(): until the stack is empty, and no brick comes off it twice.        *)
MakePlan(q) ==
  LET tops == [i \in 1 .. GridDims(Coarsest) |-> <<Coarsest, i - 1>>]
      run[i \in 0 .. Cardinality(Nodes)] ==
        IF i = 0 THEN [stack |-> tops, visible |-> {}, missing |-> <<>>]
        ELSE Visit(q, run[i - 1])
  IN run[Cardinality(Nodes)]

=============================================================================

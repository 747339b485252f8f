----------------------------- MODULE ManifestScan -----------------------------
(***************************************************************************)
(* svmanifest (tools/svmanifest_main.cpp) writes a volume's manifest: level  *)
(* by level, a pool's workers take the rows of the chunk grid and note what  *)
(* each chunk holds, and the main thread waits for the last worker before it *)
(* writes the level.  A viewer may open the volume at any time, with what is *)
(* in the file by then, and plan with it.                                    *)
(*                                                                         *)
(* Abstractions.  A chunk is absent, unreadable, or has a least and a        *)
(* greatest value; every row is one chunk.  A level's bytes reach the file   *)
(* together.                                                                 *)
(*                                                                         *)
(* FirstWorkerEnds is a faulty variant of the definition it precedes;        *)
(* nothing uses it.                                                          *)
(***************************************************************************)
EXTENDS WorkingSetPlanner, FiniteSetsExt

CONSTANTS
  Volumes,      \* functions from Nodes to chunks, for the tool to scan
  ScanWorkers,  \* workers of the pool
  Fill,         \* the fill value
  Views,        \* views to plan for, records [voxels, voxelsPerPixel]
  Thresholds,   \* visibility thresholds to plan with
  Caps,         \* maxRequests to plan with
  Residents     \* sets of bricks the viewer may have resident

(* A pool has a worker; a view shows voxels of the volume; thresholds and    *)
(* the fill value are 8 bits.                                                *)
ASSUME ScanAssumption ==
  /\ IsFiniteSet(ScanWorkers) /\ ScanWorkers # {}
  /\ \A view \in Views : view.voxels \subseteq 0 .. Shape - 1
  /\ Thresholds \subseteq 0 .. 255
  /\ Fill \in 0 .. 255
  /\ Caps \subseteq Nat

VARIABLES
  volume,    \* the chunks on disk
  scan,      \* --scan: decode the chunks
  level,     \* the level being scanned; LevelCount once all are written
  nextZ,     \* nextZ
  running,   \* active: workers that have not finished
  scanner,   \* for each worker its row, Looping or Done
  data,      \* data: the entries of the level
  file,      \* manifest.svmf
  plan       \* the viewer's plan and what it was made from

scanVars == <<volume, scan, level, nextZ, running, scanner, data, file, plan>>

Chunk(state, min, max) == [state |-> state, min |-> min, max |-> max]
Absent == Chunk("absent", 0, 0)
Bad    == Chunk("bad", 0, 0)

Looping == -1
Done    == -2

NoVolume == [b \in {} |-> Absent]
NoFile   == [announced |-> 0, levels |-> <<>>]
NoPlan   == [made |-> FALSE]

Opaque == [min |-> 0, max |-> 255]

-----------------------------------------------------------------------------
(* A chunk that cannot be read or decoded may hold anything.                 *)
Range8(chunk) ==
  IF chunk = Bad THEN Opaque ELSE [min |-> chunk.min, max |-> chunk.max]

(* Some value in the chunk may be above the threshold.                       *)
CouldShow(chunk, threshold) == chunk # Absent /\ Range8(chunk).max > threshold

(* Values are 8 bits.  The planner takes for granted that what could be seen *)
(* in a brick could be seen in the brick above it ("children of an empty     *)
(* region are empty too").                                                   *)
ASSUME VolumesAssumption ==
  \A vol \in Volumes :
    /\ vol \in [Nodes -> [state : {"absent", "bad", "data"}, min : 0..255, max : 0..255]]
    /\ \A above \in Nodes : \A b \in Children(above), threshold \in Thresholds :
         CouldShow(vol[b], threshold) => CouldShow(vol[above], threshold)

EntryOf(chunk) ==
  IF chunk = Absent THEN [min |-> Fill, max |-> Fill]
  ELSE IF scan THEN Range8(chunk) ELSE Opaque

(* The scan of a level begins: its jobs are posted. *)
Begin(l) ==
  /\ level' = l
  /\ nextZ' = 0
  /\ running' = IF l < LevelCount THEN Cardinality(ScanWorkers) ELSE 0
  /\ scanner' = [w \in ScanWorkers |-> IF l < LevelCount THEN Looping ELSE Done]
  /\ data' = IF l < LevelCount THEN [z \in 0 .. GridDims(l) - 1 |-> [min |-> 0, max |-> 0]]
                               ELSE <<>>

StartScan ==
  /\ volume = NoVolume
  /\ volume' \in Volumes
  /\ scan' \in BOOLEAN
  /\ file' = [announced |-> LevelCount, levels |-> <<>>]
  /\ Begin(0)
  /\ UNCHANGED plan

(* fetch_add: a row, or there is none left. *)
TakeRow(w) ==
  /\ scanner[w] = Looping
  /\ nextZ < GridDims(level)
  /\ nextZ' = nextZ + 1
  /\ scanner' = [scanner EXCEPT ![w] = nextZ]
  /\ UNCHANGED <<volume, scan, level, running, data, file, plan>>

ScanRow(w) ==
  /\ scanner[w] \in DOMAIN data
  /\ data' = [data EXCEPT ![scanner[w]] = EntryOf(volume[<<level, scanner[w]>>])]
  /\ scanner' = [scanner EXCEPT ![w] = Looping]
  /\ UNCHANGED <<volume, scan, level, nextZ, running, file, plan>>

FirstWorkerEnds == 0

OneLess == running - 1

FinishJob(w) ==
  /\ scanner[w] = Looping
  /\ nextZ >= GridDims(level)
  /\ running' = OneLess
  /\ scanner' = [scanner EXCEPT ![w] = Done]
  /\ UNCHANGED <<volume, scan, level, nextZ, data, file, plan>>

(* The main thread wakes up, the pool is joined, the level is written. *)
WriteLevel ==
  /\ level < LevelCount
  /\ volume # NoVolume
  /\ running = 0
  /\ file' = [file EXCEPT !.levels = Append(@, data)]
  /\ Begin(level + 1)
  /\ UNCHANGED <<volume, scan, plan>>

(* A viewer opens the volume and plans, whatever it already has resident.    *)
PlanWith ==
  /\ file # NoFile
  /\ ~plan.made
  /\ \E q \in [view : Views, manifest : {Parse(file)}, threshold : Thresholds,
                resident : Residents, cap : Caps] :
       plan' = [made |-> TRUE, query |-> q, result |-> MakePlan(q)]
  /\ UNCHANGED <<volume, scan, level, nextZ, running, scanner, data, file>>

ScanInit ==
  /\ volume = NoVolume
  /\ scan = FALSE
  /\ level = 0
  /\ nextZ = 0
  /\ running = 0
  /\ scanner = [w \in ScanWorkers |-> Done]
  /\ data = <<>>
  /\ file = NoFile
  /\ plan = NoPlan

(* The viewer's plan is the last thing looked at. *)
ScanNext ==
  \/ /\ ~plan.made
     /\ \/ StartScan
        \/ WriteLevel
        \/ \E w \in ScanWorkers : TakeRow(w) \/ ScanRow(w) \/ FinishJob(w)
  \/ PlanWith

ScanSpec == ScanInit /\ [][ScanNext]_scanVars

-----------------------------------------------------------------------------
(* Properties. *)

ByteRange == [min : 0 .. 255, max : 0 .. 255]

(* ScanTypeOK: the jobs under way are never less than none, and the tool     *)
(* writes no more levels than it announced.                                  *)
ScanTypeOK ==
  /\ volume \in Volumes \cup {NoVolume}
  /\ scan \in BOOLEAN
  /\ level \in 0 .. LevelCount
  /\ nextZ \in Nat
  /\ running \in 0 .. Cardinality(ScanWorkers)
  /\ scanner \in [ScanWorkers -> Nat \cup {Looping, Done}]
  /\ \A z \in DOMAIN data : data[z] \in ByteRange
  /\ file.announced \in {0, LevelCount} /\ Len(file.levels) \in 0 .. level
  /\ \A l \in DOMAIN file.levels :
       \A z \in DOMAIN file.levels[l] : file.levels[l][z] \in ByteRange
  /\ plan.made \in BOOLEAN

(* PlanLosesNothing: in a volume whose coarser levels keep the greatest      *)
(* values, nothing that could be seen falls between the tool that writes the *)
(* manifest (rows raced for, chunks that do not decode, a file read before   *)
(* it is whole), the parser and the planner that prunes whole subtrees by    *)
(* it: every brick in view from the coarsest level to the one desired is     *)
(* resident or requested, unless the cap was reached.  Even then the list    *)
(* goes down from the top (WorkingSetPlanner.h:15-17): a brick is listed     *)
(* only if each of its ancestors is listed or resident.                      *)
PlanLosesNothing ==
  plan.made =>
    LET q      == plan.query
        listed == ToSet(plan.result.missing)
    IN /\ Len(plan.result.missing) < q.cap =>
            \A b \in Nodes :
              /\ b[1] >= Desired(q.view.voxelsPerPixel)
              /\ IntersectsView(q.view, b)
              /\ CouldShow(volume[b], q.threshold)
              => b \in listed \cup plan.result.visible
       /\ \A a \in Nodes :
            Children(a) \cap listed # {} => a \in listed \cup q.resident

=============================================================================

------------------------------ MODULE MCCaches --------------------------------
(* The caches and what is computed from the data in them: each component     *)
(* shares no state with the others, so a behaviour runs one of them, named   *)
(* by part, and the others stay as they were at the start.                   *)
EXTENDS GpuBrickCache, BrickAssembly, ManifestScan, SurfaceMask, TLC

VARIABLE part

Parts == {"gpu", "ram", "borders", "manifest", "mask"}

(* The GPU's cache: the first tile is the coarse level. *)
CONSTANTS t1, t2

CoarseFirst == [t \in Tiles |-> IF t = t1 THEN 1 ELSE 0]

Symmetry == Permutations(Offsets) \cup Permutations(Assemblers)
              \cup Permutations(ScanWorkers)

(* Five fine chunks of a volume of ten voxels, and the coarser levels        *)
(* downsampled from them; one fine chunk is damaged.                         *)
Data(min, max) == Chunk("data", min, max)
Pyramid(fine) ==
  LET made[b \in Nodes] ==
        IF b[1] = 0 THEN fine[b[2] + 1]
        ELSE LET below == {made[c] : c \in Children(b)} IN
             IF below = {Absent} THEN Absent
             ELSE IF Bad \in below THEN Data(0, 2)
             ELSE Data(0, Max({c.max : c \in below \ {Absent}}))
  IN made
TwoVolumes ==
  {Pyramid(<<Data(0, 2), Bad, Absent, Data(1, 1), Absent>>),
   Pyramid(<<Absent, Absent, Data(1, 1), Absent, Bad>>)}
View(voxels, scale) == [voxels |-> voxels, voxelsPerPixel |-> scale]
FourViews == {View(0..9, 1), View(3..6, 1), View(0..9, 3), View(8..9, 9)}
SomeResident == {{}, {<<1, 1>>}, {<<2, 0>>, <<0, 2>>}}

(* A flat surface, one with a hole that bends, one in a single place, one    *)
(* too small to have a quad.                                                 *)
FourSurfaces == {<<0, 3, 5>>, <<1, 2, Hole, 9, 8>>, <<4, 4, 4, 4>>, <<9>>}
ThreeGrids == <<5, 2, 1>>

-----------------------------------------------------------------------------
RamNext ==
  /\ LruNext
  /\ UNCHANGED <<waiting, assembly, border, dropped>>

PartsInit ==
  /\ part \in Parts
  /\ Init
  /\ AssemblyInit
  /\ ScanInit
  /\ MaskInit

PartsNext ==
  /\ UNCHANGED part
  /\ \/ /\ part = "gpu" /\ Next
        /\ UNCHANGED <<assemblyVars, scanVars, maskVars>>
     \/ /\ part = "ram" /\ RamNext
        /\ UNCHANGED <<vars, scanVars, maskVars>>
     \/ /\ part = "borders" /\ AssemblyNext
        /\ UNCHANGED <<vars, scanVars, maskVars>>
     \/ /\ part = "manifest" /\ ScanNext
        /\ UNCHANGED <<vars, assemblyVars, maskVars>>
     \/ /\ part = "mask" /\ MaskNext
        /\ UNCHANGED <<vars, assemblyVars, scanVars>>

partsVars ==
  <<part, vars, assemblyVars, scanVars, maskVars>>

PartsSpec == PartsInit /\ [][PartsNext]_partsVars

(* PartsTypeOK: every variable of the five parts stays in its type; of the   *)
(* counters kept by hand (pins, bytes, tiles in use, scan jobs under way)    *)
(* none wraps.                                                               *)
PartsTypeOK == TypeOK /\ LruTypeOK /\ AssemblyTypeOK /\ ScanTypeOK /\ MaskTypeOK

=============================================================================

SPECIFICATION PartsSpec
CONSTANTS
  t1 = t1
  t2 = t2
  Tiles = {t1, t2}
  Offsets = {o1, o2}
  Levels = {0, 1}
  LevelOf <- CoarseFirst
  PinnedLevels = {1}
  SlotCount = 2
  TileCapacity = 2
  Taken = {0, 1}
  MaxFrame = 2
  NoBrick = NoBrick
  RamKeys = {1, 2, 3}
  Sizes = {1, 2}
  RamBudget = 3
  Pins = {0, 1}
  MaxPins = 2
  RowBricks = {1, 2}
  Assemblers = {a1, a2}
  BrickBytes = 2
  NoKey = 0
  Shape = 10
  ChunkDim = 2
  LevelCount = 3
  Volumes <- TwoVolumes
  ScanWorkers = {s1, s2}
  Fill = 0
  Views <- FourViews
  Thresholds = {0, 1}
  Residents <- SomeResident
  Caps = {2, 100}
  Surfaces <- FourSurfaces
  Hole = 99
  Slabs = {0, 1, 3}
  BlockCells = 2
  BrickGrids <- ThreeGrids
  Tasks = 3
  MaxRebuilds = 3
SYMMETRY Symmetry
INVARIANTS
  PartsTypeOK
  DrawSeesOwnBrick
  OneIndex
  OneSidedSeams
  PlanLosesNothing
  MaskIsWhole
PROPERTIES
  EvictsOldest
  KeepsItsPromise
  BudgetKept
CHECK_DEADLOCK FALSE

SPECIFICATION PartsSpec
CONSTANTS
  Reads = {r1, r2}
  MaxConcurrentStreams = 1
  MaxRetries = 2
  Bricks = {b1, b2, b3}
  RingSlots = 2
  UploadWorkers = {w1, w2}
  MaxPending = 2
  UploadBudget = 1
  NoBrick = NoBrick
  Torn = Torn
  Dx = 5
  Dy = 2
  ChunkWide = 3
  Brightest = 3
  Scrolls <- ThreeScrolls
  Steps = {2}
  Floors = {0, 1}
  Buckets = 2
  MinCount = 2
  MaxClicks = 2
  PoolWorkers = {p1, p2}
  MaskTasks = 2
  MaxQueued = 1
INVARIANTS
  PartsTypeOK
  OneOwner
  PromptCancel
  CopiesSeeTheirBrick
  UploadedOnce
  SnicPartition
PROPERTIES
  ImplementsContract
  EveryReadAnswered
  CloseReturns
  EveryBrickUploaded
  SegmentationEnds
  WindowGoesOn
CHECK_DEADLOCK FALSE

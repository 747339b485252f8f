SPECIFICATION Spec
CONSTANTS
  near = near
  far = far
  ink = ink
  MainBricks = {near, far}
  OverlayBricks = {ink}
  Scenes <- OpeningOnly
  MaxUploadQueue = 1
  MaxPending = 2
  RingSlots = 2
  UploadBudget = 1
  PoolSlots = 2
  QuietTicks = 2
  MaxFailures = 0
  MaxMoves = 0
INVARIANT PrefetchShown
CHECK_DEADLOCK FALSE

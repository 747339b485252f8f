SPECIFICATION FairSpec
CONSTANTS
  near = near
  far = far
  ink = ink
  MainBricks = {near, far}
  OverlayBricks = {ink}
  Scenes <- AllScenes
  MaxUploadQueue = 1
  MaxPending = 2
  RingSlots = 2
  UploadBudget = 1
  PoolSlots = 1
  QuietTicks = 2
  MaxFailures = 1
  MaxMoves = 2
INVARIANT IdleIsDone
PROPERTY Converges
CHECK_DEADLOCK FALSE

SPECIFICATION LifetimeSpec
CONSTANTS
  PoolWorkers = {p1, p2}
  MaskTasks = 2
  MaxQueued = 1
INVARIANT JoinsBeforeRestDies
CHECK_DEADLOCK FALSE

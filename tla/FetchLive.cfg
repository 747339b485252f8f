SPECIFICATION LiveSpec
CONSTANTS
  Keys = {k1, k2}
  Priorities = {1, 2}
  Workers = {w1}
  MaxInflightFetches = 1
  MaxQueuedDecodes = 1
  MaxReadyPinned = 1
  Failures = {"fetch", "decode"}
  MaxEpoch = 3
PROPERTIES
  ImplementsDelivery
  LatestDelivered
  DestructorReturns

SPECIFICATION Spec
CONSTANTS
  Keys = {k1, k2}
  Priorities = {1}
  Workers = {w1}
  MaxInflightFetches = 1
  MaxQueuedDecodes = 1
  MaxReadyPinned = 1
  Failures = {"fetch", "decode"}
  MaxEpoch = 3
INVARIANT
  NoReadOutlivesPipeline

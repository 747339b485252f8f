SPECIFICATION Spec
CONSTANTS
  Keys = {k1, k2, k3}
  Priorities = {1, 2}
  Workers = {w1, w2}
  MaxInflightFetches = 2
  MaxQueuedDecodes = 1
  MaxReadyPinned = 2
  Failures = {"fetch", "decode"}
  MaxEpoch = 2
SYMMETRY Symmetry
INVARIANTS
  TypeOK
  Accounting
  OneJobPerKey
  SomeoneOwesAPump
  BoundedWork
  NoLostRequest
PROPERTIES
  StartsHighestPriority

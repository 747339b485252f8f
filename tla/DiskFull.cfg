SPECIFICATION Spec
CONSTANTS
  r1 = r1
  r2 = r2
  r3 = r3
  Reads = {r1, r2, r3}
  Length = 2
  Setups <- FullDisk
  NoFile = NoFile
  Remote = Remote
  Marker = Marker
INVARIANT CorruptIsRefetched
CHECK_DEADLOCK FALSE

SPECIFICATION FairSpec
CONSTANTS
  r1 = r1
  r2 = r2
  r3 = r3
  Reads = {r1, r2, r3}
  Length = 2
  Setups <- AllSetups
  NoFile = NoFile
  Remote = Remote
  Marker = Marker
INVARIANTS BytesAreWhole MissingOnRemote
PROPERTIES ImplementsContract EveryReadAnswered
CHECK_DEADLOCK FALSE

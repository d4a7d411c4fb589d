SPECIFICATION Spec
CONSTANTS
  Clients = {c1, c2}
  HeaderSize = 2
  TailLimit = 2
  MaxBuffer = 4
  MaxAge = 2
  MaxChunk = 2
  MaxBytes = 5
  MaxEncoders = 2
  MaxTime = 3
SYMMETRY Symmetry
INVARIANTS
  EachHearsOneStream
  QueuesWithinLimits
PROPERTIES
  SlowAlone
CHECK_DEADLOCK FALSE

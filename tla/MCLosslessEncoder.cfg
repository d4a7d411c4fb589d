SPECIFICATION Spec
CONSTANTS
  Clients = {c1, c2}
  MaxEncoders = 3
INVARIANTS
  OneEncoder
  OneVoice
  StoppedByItsSupervisor
  NothingRemains
PROPERTIES
  EveryoneIsServed
CHECK_DEADLOCK FALSE

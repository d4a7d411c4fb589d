SPECIFICATION Spec
CONSTANTS
  Users = {u1}
  Conns = {c1, c2}
  NoConn = NoConn
  MaxConnections = 1
  MaxGen = 2
  MaxPending = 1
INVARIANTS
  RegistryIsExact
  ReplacedKeyIsSilent
PROPERTIES
  SupersededEnds
  RevokedUserIsCutOff
  ImplementsTakeover
CHECK_DEADLOCK FALSE

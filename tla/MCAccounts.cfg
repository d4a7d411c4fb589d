SPECIFICATION Spec
CONSTANTS
  MaxUsers = 2
  Sessions = {s1, s2}
  Readers = {h1}
  Requests = {r1, r2}
  SessionLimit = 1
SYMMETRY Symmetry
INVARIANTS
  CacheIsHonest
PROPERTIES
  SetupOnlyOnce
  LastAdminStays
  AdminRowStays

SPECIFICATION Spec
CONSTANTS
  f1 = f1
  f2 = f2
  g1 = g1
  near = near
  far = far
  MaxTracks = 1
  Contents = {c1, c2}
  NoContent = NoContent
  Files = {f1, f2, g1}
  NoFile = NoFile
  Fallible = {g1}
  Detachable = {near}
  Locations = {near, far}
  Priority <- NearFirst
  Limit <- LimitOf
  LocationOf <- LocationOfFile
  Workers = {w1, w2}
  Deleters = {d1}
  Players = {p1}
SYMMETRY Symmetry
INVARIANTS
  TypeOK
  SpaceKept
  UniqueIndexNeverHit
PROPERTIES
  NamedFilesStay
  LeftoverCauses

SPECIFICATION Spec
CONSTANTS
  MaxId = 2
  Slugs = {"jazz", "news"}
  NoSlug = "no slug"
  Reqs = {r1, r2, r3}
  InitRows <- OneChannel
  Changes <- OneField
  Watched = 1
  QueueSize = 1
SYMMETRY Symmetry
INVARIANTS
  TypeOK
  OneSlugEach
  NoGhostRoute
  EnabledIsReachable
  BrowserShowsRow

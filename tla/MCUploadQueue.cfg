SPECIFICATION Safety
CONSTANTS
  NumJobs = 2
  Page <- OnePage
  Cancels <- OneOrAll
  Fallible <- AllJobs
  QueueLimit = 2
  MaxConcurrent = 1
INVARIANTS
  PartHasOwner
  NoOrphanedSlot

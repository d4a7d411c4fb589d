SPECIFICATION Safety
CONSTANTS
  NumJobs = 2
  Page <- OnePage
  Cancels <- OneOrAll
  Fallible = {}
  QueueLimit = 1
  MaxConcurrent = 1
INVARIANT QueueLimitKept

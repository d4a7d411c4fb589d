SPECIFICATION Spec
CONSTANTS
  NumJobs = 2
  Page <- OnePage
  Cancels = {}
  Fallible = {1}
  QueueLimit = 2
  MaxConcurrent = 1
PROPERTIES
  AbandonedJobEnds
  WaitingJobAdvances

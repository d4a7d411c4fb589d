SPECIFICATION Spec
CONSTANTS
  Sups = {s1, s2}
  NoSup = NoSup
  Slugs = {"jazz", "news"}
  NoSlug = NoSlug
  AlwaysOn = FALSE
  MaxJobs = 2
INVARIANTS
  OneSupervisorPerChannel
  RestMatchesRow
PROPERTIES
  DisabledChannelStops
  UnwatchedChannelStops
  ShutdownIsFinal
CHECK_DEADLOCK FALSE

SPECIFICATION FairSpec
CONSTANTS
  MaxPokes = 1
  MaxJobs = 2
  Capacity = 1
  Keep = 1
  HasHarvester = FALSE
  Kinds = {"build", "preview", "bootstrap"}
  Readers = {"tail"}
  Togglers = {t1}
  Commits = {c1}
  Named = {0}
  MaxVersion = 2
  MaxFaults = 1
  MaxCrashes = 1
  AutoNumber = AutoNumber
  None = None
INVARIANT TypeOK
INVARIANT LatestResolves
INVARIANT AutoNeverCollides
INVARIANT TailComplete
PROPERTY PublishedImmutable
PROPERTY DoneMeansPublished
PROPERTY PollersLearn
CHECK_DEADLOCK FALSE

SPECIFICATION FairSpec
CONSTANTS
  MaxPokes = 2
  MaxJobs = 2
  Capacity = 1
  Keep = 1
  HasHarvester = TRUE
  Kinds = {"build"}
  Readers = {"index"}
  Togglers = {}
  Commits = {c1}
  Named = {}
  MaxVersion = 2
  MaxFaults = 0
  MaxCrashes = 1
  AutoNumber = AutoNumber
  None = None
INVARIANT SettledMeansHarvested
PROPERTY HarvestCatchesUp
CHECK_DEADLOCK FALSE

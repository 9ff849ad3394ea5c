SPECIFICATION Spec
CONSTANTS
  MaxPokes = 1
  MaxJobs = 2
  Capacity = 1
  Keep = 1
  HasHarvester = FALSE
  Kinds = {"build"}
  Readers = {"index"}
  Togglers = {}
  Commits = {c1}
  Named = {}
  MaxVersion = 2
  MaxFaults = 0
  MaxCrashes = 0
  AutoNumber = AutoNumber
  None = None
INVARIANT IndexCurrent
CHECK_DEADLOCK FALSE

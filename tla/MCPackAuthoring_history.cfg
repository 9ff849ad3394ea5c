SPECIFICATION Spec
CONSTANTS
  Slots = {s1, s2}
  Users = {ann}
  Edits = {e1, offer}
  Declares = {e1}
  Offer = offer
  Rows = {}
  Vis = {draft}
  Draft = draft
  DefaultVis = draft
  Ops = {"put", "commit", "restore", "merge", "close", "fail", "crash"}
  MaxDocs = 0
  MaxCommits = 3
  MaxCrashes = 1
  None = None
SYMMETRY Symmetry
INVARIANT HistoryReadable
PROPERTY HistoryAppends
PROPERTY CommitCapturesDisk
CHECK_DEADLOCK FALSE

SPECIFICATION Spec
CONSTANTS
  Slots = {s1, s2}
  Users = {ann}
  Edits = {e1, offer}
  Declares = {e1}
  Offer = offer
  Rows = {r1}
  Vis = {draft}
  Draft = draft
  DefaultVis = draft
  Ops = {"put", "join", "post", "commit", "restore", "revert", "merge", "close", "visibility", "delete", "duplicate", "bootstrap", "publish", "crash"}
  MaxDocs = 1
  MaxCommits = 1
  MaxCrashes = 1
  None = None
SYMMETRY Symmetry
INVARIANT TypeOK
CHECK_DEADLOCK FALSE

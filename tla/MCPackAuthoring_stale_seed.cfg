SPECIFICATION Spec
CONSTANTS
  Slots = {s1, s2}
  Users = {ann}
  Edits = {e1, e2, offer}
  Declares = {}
  Offer = offer
  Rows = {}
  Vis = {draft}
  Draft = draft
  DefaultVis = draft
  Ops = {"put", "join", "post"}
  MaxDocs = 2
  MaxCommits = 0
  MaxCrashes = 1
  None = None
SYMMETRY Symmetry
PROPERTY MaterialiseKeeps
CHECK_DEADLOCK FALSE

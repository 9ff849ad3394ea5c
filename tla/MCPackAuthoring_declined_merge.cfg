SPECIFICATION Spec
CONSTANTS
  Slots = {s1, s2}
  Users = {ann}
  Edits = {e1, offer}
  Declares = {}
  Offer = offer
  Rows = {}
  Vis = {draft}
  Draft = draft
  DefaultVis = draft
  Ops = {"merge", "close"}
  MaxDocs = 0
  MaxCommits = 2
  MaxCrashes = 1
  None = None
SYMMETRY Symmetry
INVARIANT DeclinedNotApplied
CHECK_DEADLOCK FALSE

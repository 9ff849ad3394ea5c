SPECIFICATION Spec
CONSTANTS
  Slots = {s1, s2}
  Users = {ann, bob}
  Edits = {e1, e2, offer}
  Declares = {}
  Offer = offer
  Rows = {}
  Vis = {draft}
  Draft = draft
  DefaultVis = draft
  Ops = {"join", "post", "commit"}
  MaxDocs = 1
  MaxCommits = 2
  MaxCrashes = 1
  None = None
SYMMETRY Symmetry
INVARIANT ContributorsNamed
CHECK_DEADLOCK FALSE

SPECIFICATION Spec
CONSTANTS
  Slots = {s1, s2}
  Users = {ann}
  Edits = {e1, e2, offer}
  Declares = {e1}
  Offer = offer
  Rows = {r1}
  Vis = {draft, published}
  Draft = draft
  DefaultVis = published
  Ops = {"put", "join", "post", "visibility", "duplicate", "fail"}
  MaxDocs = 2
  MaxCommits = 0
  MaxCrashes = 0
  None = None
SYMMETRY Symmetry
PROPERTY ConditionalSaveKeeps
PROPERTY ServerOwnedKept
PROPERTY DuplicateNeverClobbers
PROPERTY PulledKept
CHECK_DEADLOCK FALSE

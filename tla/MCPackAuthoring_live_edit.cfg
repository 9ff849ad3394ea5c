SPECIFICATION FairSpec
CONSTANTS
  Slots = {s1, s2}
  Users = {ann, bob}
  Edits = {e1, e2, offer}
  Declares = {e1}
  Offer = offer
  Rows = {r1}
  Vis = {draft}
  Draft = draft
  DefaultVis = draft
  Ops = {"join", "post", "commit", "visibility"}
  MaxDocs = 2
  MaxCommits = 1
  MaxCrashes = 0
  None = None
PROPERTY AcceptedReachesDisk
PROPERTY MaterialiseKeeps
CHECK_DEADLOCK FALSE

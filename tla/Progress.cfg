SPECIFICATION FairSpec
CONSTANTS
  Keys = {k1}
  Panels = {p1}
  Requests = {r1, r2}
  Places = {a1}
  NoKey = NoKey
  NoPlace = NoPlace
  NoPanel = NoPanel
  NoRequester = NoRequester
  Kinds = {"release", "reassign", "add"}
  Contexts = {"message"}
  Overlap = TRUE
  MaxJobs = 2
  MaxCrashes = 1
CHECK_DEADLOCK FALSE
PROPERTIES RequestsEnd

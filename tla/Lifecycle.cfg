SPECIFICATION Spec
CONSTANTS
  Keys = {k1}
  Panels = {p1, p2}
  Requests = {r1}
  Places = {a1, a2}
  NoKey = NoKey
  NoPlace = NoPlace
  NoPanel = NoPanel
  NoRequester = NoRequester
  Kinds = {"release", "reassign", "write", "add", "local"}
  Contexts = {"card"}
  Overlap = FALSE
  MaxJobs = 3
  MaxCrashes = 1
SYMMETRY Symmetry
CHECK_DEADLOCK FALSE
INVARIANTS TypeOK Tracked WritesAfterDelete
PROPERTIES ReleasedMeansGone NoResurrection DoneStaysDone

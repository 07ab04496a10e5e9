SPECIFICATION Spec
CONSTANTS
  Keys = {k1}
  Panels = {p1, p2}
  Requests = {r1}
  Places = {a1, a2}
  NoKey = NoKey
  NoPlace = NoPlace
  NoPanel = NoPanel
  NoRequester = NoRequester
  Kinds = {"reassign"}
  Contexts = {"message"}
  Overlap = FALSE
  MaxJobs = 1
  MaxCrashes = 0
SYMMETRY Symmetry
CHECK_DEADLOCK FALSE
INVARIANTS ReassignReachesWrite

SPECIFICATION Spec
CONSTANTS
  Keys = {k1, k2, k3}
  Panels = {p1, p2}
  Requests = {r1}
  Places = {a1}
  NoKey = NoKey
  NoPlace = NoPlace
  NoPanel = NoPanel
  NoRequester = NoRequester
  Kinds = {"replace", "write"}
  Contexts = {"card"}
  Overlap = FALSE
  MaxJobs = 3
  MaxCrashes = 1
SYMMETRY Symmetry
CHECK_DEADLOCK FALSE
INVARIANTS PendingDeleteIsOwned ResumedCarriesOver

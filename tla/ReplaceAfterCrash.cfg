SPECIFICATION Spec
CONSTANTS
  Keys = {k1, k2}
  Panels = {p1}
  Requests = {r1}
  Places = {a1}
  NoKey = NoKey
  NoPlace = NoPlace
  NoPanel = NoPanel
  NoRequester = NoRequester
  Kinds = {"replace"}
  Contexts = {"card"}
  Overlap = FALSE
  MaxJobs = 2
  MaxCrashes = 1
SYMMETRY Symmetry
CHECK_DEADLOCK FALSE
INVARIANTS ReplacementCarriesOver

SPECIFICATION Spec
CONSTANTS
  Keys = {k1}
  Panels = {p1, p2}
  Requests = {r1, r2, r3}
  Places = {a1}
  NoKey = NoKey
  NoPlace = NoPlace
  NoPanel = NoPanel
  NoRequester = NoRequester
  Kinds = {"write", "add"}
  Contexts = {"card", "message"}
  Overlap = TRUE
  MaxJobs = 3
  MaxCrashes = 1
SYMMETRY Symmetry
CHECK_DEADLOCK FALSE
INVARIANTS WriterExclusive
PROPERTIES NoRedundantCreate

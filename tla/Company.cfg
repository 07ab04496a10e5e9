SPECIFICATION BothSpec
CONSTANTS
  Keys = {k1}
  Panels = {p1, p2, p3}
  Requests = {r1}
  Places = {c1}
  Company = c1
  NoKey = NoKey
  NoPlace = NoPlace
  NoPanel = NoPanel
  NoRequester = NoRequester
  Kinds = {"release"}
  Contexts = {"card"}
  Overlap = FALSE
  MaxJobs = 2
  MaxCrashes = 1
  Operators = {o1, o2}
  Schedules <- Mixed
SYMMETRY Symmetry
CHECK_DEADLOCK FALSE
INVARIANTS CompanyOnBooks CompanyHoldsKey CompanyOnePrimary CompanyEmptied
PROPERTIES CompanyKeyGone CompanyFreedWhenEmpty

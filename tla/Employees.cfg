SPECIFICATION StaffSpec
CONSTANTS
  Keys = {k1, k2}
  Panels = {p1}
  Requests = {r1, r2}
  Places = {a1, service}
  NoKey = NoKey
  NoPlace = NoPlace
  NoPanel = NoPanel
  NoRequester = NoRequester
  Kinds = {"release", "reassign", "add"}
  Contexts = {"card"}
  Overlap = TRUE
  MaxJobs = 3
  MaxCrashes = 1
  Employees = {e1, e2}
  NoEmployee = NoEmployee
  Service = service
  Schedules <- Mixed
SYMMETRY Symmetry
CHECK_DEADLOCK FALSE
INVARIANTS HolderIsAssigned DismissedHoldNothing ExchangeAfterWrite
PROPERTIES FreedMeansGone ExchangeLeavesOne

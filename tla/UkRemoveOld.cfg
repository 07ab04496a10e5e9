SPECIFICATION UkSpec
CONSTANTS
  Keys = {k1}
  Panels = {p1, p2}
  Operators = {o1}
  Places = {c1}
  Company = c1
  NoKey = NoKey
  NoPlace = NoPlace
  Schedules <- Unlinking
SYMMETRY Symmetry
CHECK_DEADLOCK FALSE
PROPERTIES FreedOnlyWhenEmpty

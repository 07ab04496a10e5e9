SPECIFICATION ServicesSpec
CONSTANTS
  Workers = {w1, w2}
  Nobody = Nobody
  PanelIds = {d1, d2}
  Checkers = {t1}
  NoPanelId = NoPanelId
  Concurrency = 1
  MaxEvents = 2
  pA = pA
  pB = pB
  c1 = c1
  c2 = c2
  Processes = {pA, pB}
  Callers = {c1, c2}
  NoCaller = NoCaller
  Homes <- Placements
  WrittenKeys = {k1}
  NoWrittenKey = NoWrittenKey
  Slots = 1
  Timeout = 2
  Credentials <- Configurations
  MaxCalls = 2
CHECK_DEADLOCK FALSE
INVARIANTS AppliedAtMostOnce WithinDeadline
PROPERTIES CycleIsComplete CycleEnds MonitorIsQueue SessionNotReplaced  CallEnds

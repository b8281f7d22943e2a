SPECIFICATION IndexSpec
CONSTANTS
  LiveRequests = {r1, r2, r3, r4}
  OldLines <- MCOldLines
  o1 = o1
  o2 = o2
  o3 = o3
  Cap = 4
  MaxIndexRestarts = 1
  MaxIndexFaults = 2
PROPERTIES
  ReplayEnds
CHECK_DEADLOCK FALSE

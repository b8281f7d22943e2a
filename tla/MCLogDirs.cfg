SPECIFICATION Spec
CONSTANTS
  Requests = {r1, r2}
  Policies <- MCPolicies
  OldDirs <- MCOldDirs
  OldEntries <- MCOldEntries
  HoursPerDay = 2
  StartTime = 2
  MaxTime = 3
  MaxSuffix = 6
  MaxRestarts = 1
  MaxIoFaults = 1
SYMMETRY Symmetry
PROPERTIES
  DirsAreExclusive
  RunningIsKept
  EvictionIsFair
CHECK_DEADLOCK FALSE

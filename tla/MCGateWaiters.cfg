SPECIFICATION Spec
CONSTANTS
  NoTime = NoTime
  Requests = {r1, r2}
  Configs <- MCConfigs
  Hints <- MCHints
  Period = 4
  DefaultMaxHold = 3
  DefaultDrip = 1
  DefaultLatch = 2
  DefaultGuard = 1
  EventCap = 1
  MaxTime = 9
  MaxLeaks = 1
  MaxIoFaults = 0
SYMMETRY Symmetry
INVARIANTS
  WaitersAreSleepers

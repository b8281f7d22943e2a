SPECIFICATION TimelineSpec
CONSTANTS
  NoTime = NoTime
  Requests = {r1}
  Configs <- MCConfigs
  Hints <- MCHints
  Period = 4
  DefaultMaxHold = 3
  DefaultDrip = 1
  DefaultLatch = 2
  DefaultGuard = 1
  EventCap = 3
  MaxTime = 8
  MaxLeaks = 0
  MaxIoFaults = 1
VIEW WithoutUpstream
INVARIANTS
  TimelineIsFaithful

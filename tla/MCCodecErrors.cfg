SPECIFICATION Spec
CONSTANTS
  Patterns <- MCPatterns
  Continuing = {"c"}
  CustomTools = {"w"}
  Objects <- MCObjects
  Frames <- MCFrames
  StopReasons = {"stop"}
  KeepsIds = TRUE
  MaxFrames = 2
INVARIANTS
  ErrorsAreTold

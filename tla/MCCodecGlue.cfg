SPECIFICATION Spec
CONSTANTS
  Patterns <- MCPatterns
  Continuing = {"c"}
  CustomTools = {"w"}
  Objects <- MCObjects
  Frames <- MCFrames
  StopReasons = {"stop"}
  KeepsIds = FALSE
  MaxFrames = 2
INVARIANTS
  CallsStayApart

SPECIFICATION Spec
CONSTANTS
  Patterns <- MCPatterns
  Continuing = {"c"}
  CustomTools = {"w"}
  Objects <- MCObjects
  Frames <- MCFrames
  StopReasons = {"stop"}
  KeepsIds = TRUE
  MaxFrames = 4
INVARIANTS
  StopCutsText
  EventsAreAccepted
  ClientsReadTheAnswer

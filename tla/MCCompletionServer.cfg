SPECIFICATION Spec
CONSTANTS
  Turns = {t1, t2}
  MaxPermits = 1
INVARIANTS
  NoTurnAfterDrain
  SlotCoversStream
  GracefulIsQuiet
  VerdictsAgree
PROPERTIES
  GoneIsOver

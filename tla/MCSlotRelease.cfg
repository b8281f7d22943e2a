SPECIFICATION Spec
CONSTANTS
  Turns = {t1, t2}
  MaxPermits = 1
INVARIANTS
  WaitIdleCoversTurns

SPECIFICATION TokenSpec
CONSTANTS
  Requests = {r1, r2}
  Tokens = {t1, t2, t3}
  NoToken = NoToken
  NoRequest = NoRequest
  MaxChanges = 3
INVARIANTS
  ReadsConverge
PROPERTIES
  RepairIsSound
  RepairReturns

SPECIFICATION Spec
CONSTANTS
  Producers = {pump, handler}
  Completers = {finalizer, guard}
  QueueDepth = 2
  CountWidth = 3
  Nobody = Nobody
  MaxOffers = 4
  MaxIoFaults = 1
INVARIANTS
  CountsAreExact
  LogIsComplete
PROPERTIES
  RecordStands
  FlushIsABarrier
  CompleteReturns

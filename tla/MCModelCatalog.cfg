SPECIFICATION CatalogSpec
CONSTANTS
  Callers = {c1, c2, c3}
  Ttl = 1
  Backoff = 1
  MaxCalls = 3
  MaxTime = 3
PROPERTIES
  FetchesAreRationed
  AnswersAreTheBest
  CallsReturn

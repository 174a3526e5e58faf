\* One provider of the live search and a caller that pages through it.
\* The stream ends, so the system may stop.
SPECIFICATION MCSpec
CONSTANTS
  r1 = r1
  r2 = r2
  r3 = r3
  r4 = r4
  Records <- MCRecords
  Works <- MCWorks
  WorkOf <- MCWorkOf
  Titled <- MCTitled
  Named <- MCNamed
  Providers <- MCProviders
  Holdings <- MCHoldings
  Loops = TRUE
  Rows = 2
  BulkSize = 2
  MaxResults = 3
  MaxRequests = 4
  MaxAttempts = 2
  MaxLength = 3
  Limit = 6
  Dense = 10000
INVARIANTS PlanRepresentsEveryAxis
PROPERTIES StreamSpec CallEnds
CHECK_DEADLOCK FALSE

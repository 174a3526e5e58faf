\* A browser that asks for more results of a Crossref search of one query.
\* The stream ends, so the system may stop.
SPECIFICATION MCSpec
CONSTANTS
  r1 = r1
  r2 = r2
  r3 = r3
  r4 = r4
  Records <- MCRecords
  Works <- MCWorks
  WorkOf <- MCWorkOf
  Titled <- MCTitled
  Named <- MCNamed
  Providers <- MCProviders
  Holdings <- MCHoldings
  Loops = FALSE
  Rows = 2
  BulkSize = 2
  MaxResults = 2
  MaxRequests = 4
  MaxAttempts = 2
  MaxLength = 3
  Limit = 6
  Dense = 10000
INVARIANTS OwnCursorIsTaken
CHECK_DEADLOCK FALSE

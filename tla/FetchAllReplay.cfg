SPECIFICATION Spec
CONSTANTS
  cr = cr
  oa = oa
  r1 = r1
  r2 = r2
  r3 = r3
  Providers <- MCProviders
  Order <- MCOrder
  Crossref <- MCCrossref
  Records <- MCRecords
  Rejected <- MCRejected
  Content <- MCContent
  Refuted <- MCRefuted
  LastPage = 2
  MaxPages = 2
  MaxRecords = 10
  MaxJobs = 2
  MaxStarts = 1
  MaxFaults = 0
  MaxCancels = 1
CHECK_DEADLOCK FALSE
INVARIANT NoCursorReplay

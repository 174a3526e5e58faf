SPECIFICATION Spec
CONSTANTS
  cr = cr
  oa = oa
  r1 = r1
  r2 = r2
  r3 = r3
  Providers <- MCProviders
  Order <- MCOrder
  Crossref <- MCCrossref
  Records <- MCRecords
  Rejected <- MCRejected
  Content <- MCContent
  Refuted <- MCRefuted
  LastPage = 2
  MaxPages = 1
  MaxRecords = 10
  MaxJobs = 3
  MaxStarts = 1
  MaxFaults = 1
  MaxCancels = 0
CHECK_DEADLOCK FALSE
INVARIANTS TypeOK AuditMatchesCheckpoint SlotIsHeld ResumeNeverSkips NoCursorReplay CrossrefCountsDistinct NoRunStranded

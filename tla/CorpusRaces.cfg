SPECIFICATION Spec
CONSTANTS
  w1 = w1
  w2 = w2
  doi = doi
  pmid = pmid
  Records <- MCRecords
  Keys <- MCKeys
  Identifiers <- MCIdentifiers
  Workers <- MCTwo
  MaxCalls = 3
CHECK_DEADLOCK FALSE
SYMMETRY Threads
\* Each of these is violated on its own.
INVARIANTS MergedGroupStaysApproved ScreenedRecordIsNotRemoved LogAgreesWithRow
PROPERTIES DecisionsNeedReadyInput FinalizationIsExact FinalizedOnce

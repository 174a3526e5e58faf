SPECIFICATION Spec
CONSTANTS
  w1 = w1
  w2 = w2
  doi = doi
  pmid = pmid
  Records <- MCRecords
  Keys <- MCKeys
  Identifiers <- MCIdentifiers
  Workers <- MCTwo
  MaxCalls = 3
CHECK_DEADLOCK FALSE
SYMMETRY Threads
INVARIANTS TypeOK CanonicalStandsForMerged ArchiveMirrorsStatus DecidedGroupIsObserved

SPECIFICATION Spec
CONSTANTS
  w1 = w1
  w2 = w2
  doi = doi
  pmid = pmid
  Records <- MCRecords
  Keys <- MCKeys
  Identifiers <- MCIdentifiers
  Workers <- MCOne
  MaxCalls = 5
CHECK_DEADLOCK FALSE
PROPERTY PopulationIsFrozen

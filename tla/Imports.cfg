SPECIFICATION Spec
CONSTANTS
  None = None
  Bad = Bad
  Hits <- MCHits
  Query <- MCQuery
  Files <- MCFiles
  ValidDois <- MCValidDois
  FileLabels = {"ris", "bibtex"}
  SimilarWorks <- MCSimilar
  LegacyRows <- NoRows
  MaxBatch = 2
  MaxImports = 2
  MaxOps = 5
CHECK_DEADLOCK FALSE
INVARIANTS SourceKeepsItsRow AuditFindsOnlyChains AccountsAgree
PROPERTY RejectionIsSafe

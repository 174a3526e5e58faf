\* Eight properties that the documents state and the code does not keep. TLC
\* stops at the first one it finds violated: to see one of them, comment the
\* others out.
SPECIFICATION Spec
CONSTANTS
  None = None
  Bad = Bad
  Hits <- MCHits
  Query <- MCQuery
  Files <- MCFiles
  ValidDois <- MCValidDois
  FileLabels = {"ris", "bibtex"}
  SimilarWorks <- MCSimilar
  LegacyRows <- NoRows  \* MCLegacy for RejectionTakesOwnRows
  MaxBatch = 2
  MaxImports = 3
  MaxOps = 5
CHECK_DEADLOCK FALSE
INVARIANTS
  BuilderIsExact
  RemovedCountedOnce
  FlowAlwaysBalances
  DeletionLeavesNothing
  AuditHasNoErrors
PROPERTIES
  ReimportIsSkipped
  RejectionTakesOwnRows
  RestoreBringsBack

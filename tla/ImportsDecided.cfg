SPECIFICATION Spec
CONSTANTS
  None = None
  Bad = Bad
  Hits <- DecidedHits
  Query <- MCQuery
  Files <- DecidedFiles
  ValidDois <- MCValidDois
  FileLabels = {"ris", "bibtex"}
  SimilarWorks <- MCSimilar
  LegacyRows <- DecidedRows
  MaxBatch = 1
  MaxImports = 2
  MaxOps = 6
CHECK_DEADLOCK FALSE
PROPERTY DecidedPublicationsStay

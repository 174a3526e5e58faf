SPECIFICATION Spec
CONSTANTS
  None = None
  p1 = p1
  r1 = r1
  r2 = r2
  c1 = c1
  c2 = c2
  Pubs = {p1}
  Reviewers = {r1, r2}
  Anyone = Anyone
  Observed = p1
  Clients = {c1, c2}
  Catalog <- MCCatalog
  QaCatalog <- MCQaCatalog
  Forms <- MCForms
  AnswerSheets <- MCAnswerSheets
  Votes = {"include", "exclude"}
  MaxOps = 7
  MaxRows = 2
  MaxRevisions = 3
CHECK_DEADLOCK FALSE
SYMMETRY Symm
INVARIANTS HeaderMirrorsLog RevisionsFitRecord GatesAgree RowsFitHeader
PROPERTY RevisionLogs

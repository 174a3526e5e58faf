SPECIFICATION Spec
CONSTANTS
  p1 = p1
  p2 = p2
  r1 = r1
  r2 = r2
  c1 = c1
  c2 = c2
  k1 = k1
  k2 = k2
  Absent = Absent
  Pubs <- MCPubs
  Reviewers <- MCReviewers
  Deciders = {c1}
  Resolvers = {c2}
  Criteria = {k1}
  CriterionRows <- MCRows
  InputValues <- MCInputs
  Votes <- MCVotes
  Metadata <- MCMetadata
  MaxDecisions = 3
  MaxResolutions = 1
  MaxEdits = 2
CHECK_DEADLOCK FALSE
SYMMETRY Symm
INVARIANT IncludedWasScreened

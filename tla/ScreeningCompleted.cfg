SPECIFICATION Spec
CONSTANTS
  p1 = p1
  p2 = p2
  r1 = r1
  r2 = r2
  c1 = c1
  c2 = c2
  k1 = k1
  k2 = k2
  Absent = Absent
  Pubs <- MCTwoPubs
  Reviewers <- MCReviewers
  Deciders = {c1}
  Resolvers = {}
  Criteria = {}
  CriterionRows <- MCRows
  InputValues <- MCInputs
  Votes <- MCVotes
  Metadata <- MCTwoMetadata
  MaxDecisions = 4
  MaxResolutions = 1
  MaxEdits = 0
CHECK_DEADLOCK FALSE
SYMMETRY Symm
INVARIANT CompletedMeansScreened

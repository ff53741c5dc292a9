SPECIFICATION Spec
CONSTANTS
  d1 = d1
  d2 = d2
  Data = {d1, d2}
  MaxLeaves = 6
  MaxPath = 3
  StartSeq = 3
INVARIANTS
  ProofsVerifyUnlessLegacy
  RootCommits
  AcceptedProofsAreTrue
CHECK_DEADLOCK FALSE

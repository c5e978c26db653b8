\* Every choice of mutations, every outcome of every run of the suite.
SPECIFICATION Spec
CONSTANTS
  m1 = m1  m2 = m2  m3 = m3  m4 = m4
  e1 = e1  e2 = e2  e3 = e3  e4 = e4  e5 = e5
  MUTATIONS <- MCMutations
  Unknown = {other}
  Edits <- MCEdits
  Found = {e1, e2, e3, e4}
  None = None
INVARIANTS TypeOK ZeroMeansAllCaught SurvivorsWereApplied
CHECK_DEADLOCK FALSE

SPECIFICATION Spec
CONSTANTS
  MaxRuns = 2
  u1 = u1
  Conversations = {c1, c2}
  Users = {u1}
  OwnerOf <- MCOwnerOf
  Levels = {"none", "read", "write"}
  Keys = {k1}
  Ops = {op1}
  ActiveJobLimit = 2
  MaxRevision = 1
  Workers = {w1, w2}
  HardLimit = 1
  SweepAfter = 1
  LateFailures = TRUE
  None = None
INVARIANTS
  TypeOK
  AtMostOnceMutation
  OnlyApprovedMutations
  DoneMeansExecuted
SYMMETRY MCSymmetry
PROPERTIES
  ImplementsLedger
CHECK_DEADLOCK FALSE

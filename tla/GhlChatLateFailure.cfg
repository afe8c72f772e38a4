SPECIFICATION Spec
CONSTANTS
  MaxRuns = 1
  u1 = u1
  Conversations = {c1}
  Users = {u1}
  OwnerOf <- MCOwnerOf
  Levels = {"none", "write"}
  Keys = {k1, k2}
  Ops = {op1}
  ActiveJobLimit = 3
  MaxRevision = 1
  Workers = {w1, w2}
  HardLimit = 1
  SweepAfter = 1
  LateFailures = TRUE
  None = None
INVARIANTS
  FailedMeansUntouched
CHECK_DEADLOCK FALSE

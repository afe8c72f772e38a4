SPECIFICATION FairSpec
CONSTANTS
  i1 = i1
  w1 = w1
  r1 = r1
  Investigations = {i1}
  Workers = {w1}
  Requests = {r1}
  MaxChanges = 3
  None = None
INVARIANTS
  TypeOK
  ShownIsCurrent
  NothingWithdrawn
  ReadyIsReviewed
PROPERTIES
  EditedDraftKept
  InvestigationsEnd
CHECK_DEADLOCK FALSE

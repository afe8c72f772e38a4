SPECIFICATION Spec
CONSTANTS
  Tasks = {t1}
  Sourced = {t1}
  SlackTasks = {}
  Briefed = {t1}
  Choices <- MCChoices
  Clients = {c1, c2}
  Workers = {w1, w2}
  Requests = {r1}
  MaxChanges = 2
  None = None
SYMMETRY MCSymmetry
INVARIANTS
  TypeOK
  VerdictIsCurrent
  NotifiedOnce
PROPERTIES
  CheckedOwnAccount
CHECK_DEADLOCK FALSE

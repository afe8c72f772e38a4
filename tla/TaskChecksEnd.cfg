CONSTANTS
  Tasks = {t1}
  Sourced = {t1}
  SlackTasks = {t1}
  Briefed = {t1}
  Choices <- MCChoices
  Clients = {c1}
  Workers = {w1}
  Requests = {r1}
  MaxChanges = 2
  None = None
SPECIFICATION FairSpec
PROPERTY ChecksEnd
CHECK_DEADLOCK FALSE

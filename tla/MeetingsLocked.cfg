SPECIFICATION Spec
CONSTANTS
  Items = {i1, i2}
  Jobs = {j1, j2}
  Edits = {e1}
  Human = Human
  NoJob = NoJob
  NoTask = NoTask
  NoItem = NoItem
  Deaths = 1
  Recordings = {r1}
  Emails = {m1}
  Builds = {b1}
  Handlers = {h1}
  NoBuild = NoBuild
  NoMeeting = NoMeeting
  MaxSecret = 1
PROPERTY
  LockedKept
CHECK_DEADLOCK FALSE

SPECIFICATION Spec
SYMMETRY MCSymmetry
CONSTANTS
  Items = {i1, i2}
  Jobs = {j1, j2}
  Edits = {e1}
  Human = Human
  NoJob = NoJob
  NoTask = NoTask
  NoItem = NoItem
  Deaths = 1
  Recordings = {r1}
  Emails = {m1, m2}
  Builds = {b1, b2}
  Handlers = {h1, h2}
  NoBuild = NoBuild
  NoMeeting = NoMeeting
  MaxSecret = 2
INVARIANTS
  MeetingTypesOK
  PublishedKept
  ProcessingHasJob
  OneNotePerMeeting
CHECK_DEADLOCK FALSE

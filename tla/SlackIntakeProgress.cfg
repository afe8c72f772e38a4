SPECIFICATION FairSpec
CONSTANTS
  e1 = e1
  Channels <- MCChannels
  Events = {e1}
  ChannelOf <- MCChannelOf
  RootOf <- MCRootOf
  Tagged <- MCTagged
  Categories = {1, 2}
  Staff = {s1, s2}
  Workers = {w1}
  MaxEdits = 1
  MaxChanges = 1
  Retention = TRUE
  None = None
PROPERTIES
  TriageReachesEveryone
  HandledUnlessConflicted
CHECK_DEADLOCK FALSE

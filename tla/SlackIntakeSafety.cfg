SPECIFICATION MCSpec
CONSTANTS
  e1 = e1
  Channels <- MCChannels
  Events = {e1, e2}
  ChannelOf <- MCChannelOf
  RootOf <- MCRootOf
  Tagged <- MCTagged
  Categories = {1}
  Staff = {s1, s2}
  Workers = {w1, w2}
  MaxEdits = 1
  MaxChanges = 1
  Retention = TRUE
  None = None
INVARIANTS
  TypeOK
  InterpretationIsCurrent
  NotifiedOnce
  RoutedIsDelivered
SYMMETRY MCSymmetry
CHECK_DEADLOCK FALSE

SPECIFICATION Spec
CONSTANTS
  Calls = {c1}
  Deliveries = {d1, d2}
  Clients = {k1, k2}
  NoClient = NoClient
  FanOut <- MCFanOut
  Deaths = 1
  p1 = p1
  Providers = {p1, p2}
  OAuthProviders = {p1}
  Refreshable = {p1}
  ConnIds = {i1, i2}
  Requests = {q1, q2}
  NoConn = NoConn
  Attempts = {a1, a2}
  Readers = {r1, r2}
  NoGrant = NoGrant
  MaxRefresh = 2
  Customers = {u1, u2}
  Locations = {l1, l2}
  Callers = {b1, b2, b3}
  MaxRevision = 3
  NoCustomer = NoCustomer
  NoWhere = NoWhere
  t1 = t1
  t2 = t2
  k1 = n1
  g1 = g1
  m1 = m1
  m2 = m2
  s1 = s3
  Team = {x1, x2}
  Managers = {x1}
  Editors = {e1, e2}
  Project = project
  Cards = {t1, t2}
  Ticks = {n1}
  Milestones = {g1}
  Blockers = {m1, m2}
  Seats = {s3}
  TaskBlockers = {m1}
  NoOne = NoOne
INVARIANTS
  OnboardingTypesOK
  CallsKept
  ConnectionsKept
  OneLineage
  BoardKept
SYMMETRY MCSymmetry
CHECK_DEADLOCK FALSE

SPECIFICATION Spec
CONSTANTS
    Users = {u1, u2, u3}
    Requests = {r1, r2}
    Links = {l1}
    NoUser = NoUser
    NoLink = NoLink
    Nobody = Nobody
    Visitors = {v1, v2}
    MaxToken = 3
    MaxLink = 2
    MaxMail = 1
    Handlers = {h1, h2, h3}
    Staff = {s1}
    Changes = {c1}
    NoStaff = NoStaff
    NoText = NoText
    Jobs = {j1, j2, j3}
    MaxText = 2
    AiCalls = {a1, a2, a3}
    PrivateCalls = {a1}
    Keys = {k1, k2}
    Unreadable = {k2}
    EnvKeys = {"ANTHROPIC"}
    Cap = 2
    MaxTokens = 2
    Guarded = {g1}
    Blind = {b1}
    MaxRotation = 2
    MaxValue = 2
SYMMETRY CallSymmetry
INVARIANTS OfficeTypesOK RecordsKept  AiKept 
CHECK_DEADLOCK FALSE

\* Two users; two requests at once and three in all; two processes, three batches.
SPECIFICATION Spec
CONSTANTS
  UserIds = {u1, u2}
  Persons = {p1}
  Emails = {p1, e1}
  Nicknames = {n1, n2}
  Requests = {c1, c2}
  Choices = {10}
  Contexts <- MCContexts
  NicknameLimit = 2
  BadgeCooldown = 1
  MaxTime = 3
  MaxRequests = 3
  NoPerson = NoPerson
  NoUserId = NoUserId
  MinVotes = 1
  MinActivities = 1
  FullDays = 15
  Members = {m1, m2}
  Items = {i1}
  Batches = {b1, b2}
  DayCounts = {1}
  MaxStarts = 3
  MaxMoves = 1
  NoMember = NoMember
  NoScore = NoScore
SYMMETRY Symmetry
INVARIANTS
  TypeOK
  UnracedWritesStand
  OneAccountPerPerson
  ScoresAgree
PROPERTIES
  LimitsHold
\* The bounded requests and batches come to an end.
CHECK_DEADLOCK FALSE

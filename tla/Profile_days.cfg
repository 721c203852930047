\* One user, one request at a time: nothing overlaps. A unit of time is three days.
SPECIFICATION ProfileSpec
CONSTANTS
  UserIds = {u1}
  Persons = {p1}
  Emails = {p1}
  Nicknames = {n1, n2, n3}
  Requests = {c1}
  Choices = {}
  Contexts = {}
  NicknameLimit = 1
  BadgeCooldown = 1
  MaxTime = 3
  MaxRequests = 3
  NoPerson = NoPerson
  NoUserId = NoUserId
PROPERTIES
  OneNicknamePerMonth
\* The bounded requests come to an end.
CHECK_DEADLOCK FALSE

\* Logins, renewals and logouts of one user, two of them in one second.
SPECIFICATION Spec
CONSTANTS
  Users = {u1}
  Calls = {c1, c2, c3, c4}
  NoToken = NoToken
  LastSecond = 1
SYMMETRY Symmetry
INVARIANTS
  TypeOK
  RevokedStaysRevoked
  GoneAccountNeverRenews

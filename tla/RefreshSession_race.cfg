\* Two renewals with the same token.
SPECIFICATION Spec
CONSTANTS
  Users = {u1}
  Calls = {c1, c2, c3}
  NoToken = NoToken
  LastSecond = 2
SYMMETRY Symmetry
INVARIANTS
  RotationInvalidates

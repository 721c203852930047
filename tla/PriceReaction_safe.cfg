\* Four requests of two users about one price, which one of them registered.
SPECIFICATION Spec
CONSTANTS
  Users = {u1, u2}
  Prices = {p1}
  Calls = {c1, c2, c3, c4}
  NoUser = NoUser
  NoCall = NoCall
  NoRequest = NoRequest
SYMMETRY Symmetry
INVARIANTS
  TypeOK
  OneReactionPerUser
  NoOrphanedReaction
PROPERTIES
  ImplementsRegister

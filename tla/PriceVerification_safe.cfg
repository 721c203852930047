\* Three users, one registered price, three calls.
SPECIFICATION Spec
CONSTANTS
  Users = {u1, u2, u3}
  Prices = {p1}
  Calls = {c1, c2, c3}
  NoUser = NoUser
  NoPrice = NoPrice
  CountOutcomes = {"commit", "rollback"}
SYMMETRY Symmetry
INVARIANTS
  TypeOK
  OneVerificationPerUser
  CountersCoverVotes
  DisputeIsWhole
  DeductionHasDispute

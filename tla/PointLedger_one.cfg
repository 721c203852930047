\* One user, two prices: rewards, disputes, deletions, a summary.
SPECIFICATION Spec
CONSTANTS
  Users = {u1}
  Prices = {p1, p2}
  Verifications = {v1, v2}
  Calls = {c1, c2, c3, c4}
  NoUser = NoUser
  NoCall = NoCall
  NoPrice = NoPrice
  NoVerification = NoVerification
  PRICE_CREATE_POINTS = 5
  PRICE_DISPUTED_PENALTY = 2
  PRICE_DISPUTED_PENALTY_CAP = 3
  RemoveKeepsId = TRUE
SYMMETRY Symmetry
INVARIANTS
  TypeOK
  NoLostUpdate
  WalletMatchesLedger
  OneRowPerKey
  DisputeCapHeld
  RevokeFollowsEarn
  ResolvedRewardIsBooked
  NothingOutlivesAccount
PROPERTIES
  ImplementsAtomicLedger

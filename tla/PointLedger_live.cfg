\* Three calls against one wallet; repository.remove clears the price id, as TypeORM does.
SPECIFICATION FairSpec
CONSTANTS
  Users = {u1}
  Prices = {p1, p2}
  Verifications = {v1}
  Calls = {c1, c2, c3}
  NoUser = NoUser
  NoCall = NoCall
  NoPrice = NoPrice
  NoVerification = NoVerification
  PRICE_CREATE_POINTS = 3
  PRICE_DISPUTED_PENALTY = 2
  PRICE_DISPUTED_PENALTY_CAP = 3
  RemoveKeepsId = FALSE
PROPERTIES
  CallsSettle
  ClosingEnds

\* Two users who verify each other's price while both delete their account.
SPECIFICATION FairSpec
CONSTANTS
  Users = {u1, u2}
  Prices = {p1, p2}
  Calls = {c1, c2}
  NoUser = NoUser
  NoPrice = NoPrice
  CountOutcomes = {"commit"}
PROPERTIES
  CallsEnd

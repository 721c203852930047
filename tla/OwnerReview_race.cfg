\* One application, an edit against an approval.
SPECIFICATION Spec
CONSTANTS
  Users = {u1}
  Stores = {s1, s2}
  AppIds = {a1}
  FlyerIds = {f1}
  Calls = {c1, c2}
  NoUser = NoUser
  NoStore = NoStore
  NoApp = NoApp
  NoFlyer = NoFlyer
INVARIANTS
  EditsAreReviewed

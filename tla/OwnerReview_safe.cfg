\* One user, who may apply twice; any number of requests, two at once.
SPECIFICATION Spec
CONSTANTS
  Users = {u1}
  Stores = {s1, s2}
  AppIds = {a1, a2}
  FlyerIds = {f1}
  Calls = {c1, c2}
  NoUser = NoUser
  NoStore = NoStore
  NoApp = NoApp
  NoFlyer = NoFlyer
SYMMETRY Symmetry
INVARIANTS
  TypeOK
  OneApplicationPerUser
  UnracedReviewStands
  FlyersFollowApplication

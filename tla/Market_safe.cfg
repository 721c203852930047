\* Each component with its own small sets; the bounds are those of changes and requests.
SPECIFICATION Spec
CONSTANTS
  Users = {1, 2, 3}
  Tokens = {t1, t2}
  Pushes = {p1}
  BatchSize = 2
  MaxChanges = 2
  NoToken = NoToken
  NoReceiver = NoReceiver
  Verifiers = {v1, v2}
  Checks = {k1, k2}
  Thresholds = {1, 3}
  MaxVerified = 4
  MaxLosses = 1
  NoVerifier = NoVerifier
  Readers = {r1}
  Notes = {n1, n2, n3}
  Listings = {l1}
  Marks = {m1}
  Limit = 1
  Millisecond = 2
  MaxClock = 3
  MaxMarks = 2
  NoReader = NoReader
  NoNote = NoNote
  ProductIds = {1, 2, 3}
  Names = {a, b}
  OldNames = {a}
  Wishers = {w1}
  PriceIds = {x1}
  Units = {1, 2, 3}
  Callers = {c1, c2}
  MaxCalls = 2
  NoProduct = NoProduct
  NoWisher = NoWisher
  NoPriceId = NoPriceId
  q1 = q1
  q2 = q2
  q3 = q3
  StoreIds = {s1, s2, s3, s4}
  Places = {q1, q2, q3}
  Files <- MCFiles
  Chunk = 2
  Reviewers = {rv1}
  Clients = {cl1, cl2}
  MaxVisits = 2
  MaxRuns = 2
  NoPlace = NoPlace
  NoStore = NoStore
  NoClient = NoClient
  Branches = {b1, b2}
  Signs <- MCSigns
  Keywords <- MCKeywords
  Distances = {0, 1, 2}
  Radius = 1
  MaxFound = 1
  Prices = {1, 2, 3}
  Goods = {1, 2}
  Shops = {near, far}
  NearShops = {near}
  Sellers = {u1}
  Amounts = {1, 2}
  PageSize = 1
  MaxRows = 2
  MaxWrites = 1
  Late <- MCLate
  NoGoods = NoGoods
  NoShop = NoShop
  NoSeller = NoSeller
SYMMETRY Symmetry
INVARIANTS
  TypeOK
  PushesReachOnce
  BadgesAnnouncedOnce
  InboxWhole
  CatalogWhole
  PricesRead
\* The bounded changes, requests and reads come to an end.
CHECK_DEADLOCK FALSE

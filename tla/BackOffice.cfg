CONSTANTS
  None = None
  MaxCalls = 2
  Products = {p1}
  Contents = {v1, v2}
  MaxStock = 1
  MaxRows = 1
  MaxJobs = 2
  MaxSaves = 2
  Categories = {k1, k2, k3}
  MaxForms = 2
  Keys = {v1, v2}
  Pages = 2
  Notices = {n1}
  Prices = {w1, w2}
  Remarks = {r1}
  Rows = {a1}
  ConfigKeys = {v1, v2}
  Values = {even}
  Odd = odd
  Facts = {f1}
  MaxSyncs = 2
SPECIFICATION Spec
SYMMETRY MCSymmetry
CHECK_DEADLOCK FALSE
INVARIANTS
  TypeOK
  ShowsServer
  SpinnerHasCall
  ChangesAreReviewed
  StockLedger
  TreeIsWhole
  NoticesTellFacts

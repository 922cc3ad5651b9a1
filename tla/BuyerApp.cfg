CONSTANTS
  None = None
  MaxCalls = 2
  Parents <- MCParents
  ChildrenOf <- MCChildrenOf
  Sorts = {"sales_desc", "price_asc"}
  Keywords = {"k1", "k2"}
  Pages = 2
  Quantities = {0, 3, 4, 6, 7}
  MinBuy = 2
  StepBuy = 3
  i1 = i1
  i2 = i2
  Items = {i1, i2}
  Shops <- MCShops
  LegalQty <- MCLegalQty
  MaxQty = 2
  Fleeting = {i2}
  Settled = {i1}
  Addresses = {a1, a2}
  Others = {delivered, collected}
  MaxId = 2
  Limit = 2
  MaxChanges = 2
  Orders = {o1}
  Counts = {"unread", "delivered", "total"}
SPECIFICATION Spec
CHECK_DEADLOCK FALSE
INVARIANTS
  TypeOK
  SpinnerHasCall
  ListIsWhole
  SentQuantityLegal
  ShowsServer
  PreviewIsCurrent
  OneDefault
  OffersAccepted
PROPERTIES
  SpinnersStop

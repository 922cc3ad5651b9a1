\* Two requests in flight, a limit of one row, products with and without a SKU.
SPECIFICATION Spec
CONSTANTS
    r1 = r1
    r2 = r2
    Requests = {r1, r2}
    Products = {1}
    Shops = {"shop"}
    ShopOf <- OneShop
    Skus = {1}
    Quantities = {1}
    MinBuy <- Halves
    StepBuy <- Steps
    MaxItems = 1
    MaxRows = 3
    MaxStock = 1
SYMMETRY Phones
INVARIANTS TypeOK OvershootBounded ReuseBounded OrderedRowsGone
PROPERTIES GoneStaysGone
CONSTRAINT FewExceptions
CHECK_DEADLOCK FALSE

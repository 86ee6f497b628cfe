SPECIFICATION ShopSpec
CHECK_DEADLOCK FALSE
CONSTANTS
    Tariffs = {t1, t2}
    Regions = {r1, r2}
    Groups = {g1}
    NoGroup = NoGroup
    Calls = {c1, c2}
    Offers <- MCOffers
    MaxRequests = 3
    Baskets = {b1, b2}
    Lines = {l1, l2}
    Orders = {o1}
    MaxQuantity = 2
SYMMETRY ShopSymmetry
INVARIANTS
    BasketExact
    PagesAgree
PROPERTIES
    WipedWasBought
    RemovedNotSold

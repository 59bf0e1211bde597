SPECIFICATION BuyingSpec
CONSTANTS
    r1 = r1
    r2 = r2
    ana = ana
    beto = beto
    s1 = s1
    s2 = s2
    i1 = i1
    i2 = i2
    i3 = i3
    i4 = i4
    i5 = i5
    l1 = l1
    l2 = l2
    None = None
    Request = {r1, r2}
    User = {ana, beto}
    Admin = {ana, beto}
    userOf <- MCUserOf
    Supplier = {s1, s2, s3}
    Ruc = {c20}
    Item = {i1, i2, i3, i4, i5}
    ItemAtStart <- MCItems
    Offer = {"ram", "cable"}
    Stocked = {"ram"}
    Stated <- MCStated
    Load = {l1, l2}
    MaxCalls = 3
SYMMETRY MCAlike
CHECK_DEADLOCK FALSE
INVARIANTS
    SuppliersOfferOnce
PROPERTIES
    OrdersAreOfTheCatalogue

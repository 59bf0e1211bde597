SPECIFICATION SellSpec
CONSTANTS
    r1 = r1
    r2 = r2
    r3 = r3
    ana = ana
    beto = beto
    ram = ram
    ssd = ssd
    None = None
    User = {ana, beto}
    taken <- MCTaken
    Request = {r1, r2, r3}
    userOf <- MCUserOf3
    Product = {ram, ssd}
    InitialStock <- MCStock
    Order <- MCOrders
    OpenAtStart <- MCTellers
    MaxSessions = 1
    Admin = {ana}
    MaxSales = 2
INVARIANTS
    TypeOK
    KardexExplainsStock
PROPERTIES
    SalesAreAtomic

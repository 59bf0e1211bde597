SPECIFICATION StockroomSpec
CONSTANTS
    r1 = r1
    r2 = r2
    r3 = r3
    ana = ana
    beto = beto
    ram = ram
    ssd = ssd
    None = None
    User = {ana, beto}
    taken <- MCTaken
    Request = {r1, r2, r3}
    userOf <- MCUserOf3
    Product = {ram}
    InitialStock <- MCLastRam
    Order <- OneRam
    OpenAtStart <- MCBothTellers
    MaxSessions = 2
    Admin = {beto}
    MaxSales = 2
    Adjustment <- OneOfEach
    MaxStock = 2
INVARIANTS
    CodesAreConsecutive
    TakingsMatchSales
    CancelledOnce

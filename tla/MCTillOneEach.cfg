SPECIFICATION TillSpec
CONSTANTS
    r1 = r1
    r2 = r2
    ana = ana
    beto = beto
    None = None
    User = {ana, beto}
    Request = {r1, r2}
    Admin = {ana}
    ram = ram
    ssd = ssd
    taken <- MCTaken
    userOf <- MCOneEach
    Product = {ram}
    InitialStock <- MCRam
    Order <- OneRam
    OpenAtStart <- MCTellers
    MaxSessions = 2
    Amount = {1}
    MaxTotal = 1
    MaxSales = 1
INVARIANTS
    OneOpenSessionPerUser
    ClosedTotalsExact
PROPERTIES
    ClosedIsFinal
    MovementsNeedOpenSession
    SalesEnterTheirSession

SPECIFICATION OpenShopSpec
CONSTANTS
    r1 = r1
    r2 = r2
    ana = ana
    beto = beto
    None = None
    User = {ana, beto}
    Request = {r1, r2}
    Admin = {ana}
    ram = ram
    ssd = ssd
    taken <- MCTaken
    userOf <- MCSameUser
    Product = {ram, ssd}
    InitialStock <- MCBoth
    Order <- BothWays
    OpenAtStart <- MCTellers
    MaxSessions = 2
    Amount = {1}
    MaxTotal = 0
    MaxSales = 2
PROPERTIES
    AnsweredWithoutTimeout

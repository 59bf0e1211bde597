SPECIFICATION ShopSpec
CONSTANTS
    r1 = r1
    r2 = r2
    ana = ana
    ram = ram
    ssd = ssd
    prints = prints
    None = None
    User = {ana}
    Request = {r1, r2}
    Admin = {ana}
    userOf <- MCUserOf2
    OpenAtStart <- MCTellers
    MaxSessions = 1
    Product = {ram, ssd}
    InitialStock <- MCStock
    Order <- MCOrders
    taken <- MCTaken
    MaxSales = 1
    Supply <- MCTwoProducts
    MaxPurchases = 1
    Part <- MCParts
    Cost = {0}
    Photos = {}
    MaxOrders = 0
    MaxItems = 1
    QuickSale <- MCQuickSales
    Service = {prints}
    MaxQuick = 0
    purchasePrice <- MCPrice
    costPrice <- MCCostPrice
    minStock <- MCMinStock
    maxContextItems = 1
INVARIANTS
    StockNeverNegative
    ReceivedHasArrived
    KardexMatchesDocuments
SYMMETRY MCSlots

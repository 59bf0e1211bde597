SPECIFICATION ShopSpec
CONSTANTS
    r1 = r1
    r2 = r2
    ana = ana
    ram = ram
    ssd = ssd
    prints = prints
    None = None
    User = {ana}
    Request = {r1}
    Admin = {ana}
    userOf <- MCUserOf1
    OpenAtStart <- MCTellers
    MaxSessions = 1
    Product = {ram}
    InitialStock <- MCStock
    Order <- MCOrders
    taken <- MCTaken
    MaxSales = 2
    Supply <- MCSupply
    MaxPurchases = 1
    Part <- MCParts
    Cost = {0}
    Photos = {}
    MaxOrders = 1
    MaxItems = 1
    QuickSale <- MCQuickSales
    Service = {prints}
    MaxQuick = 1
    purchasePrice <- MCPrice
    costPrice <- MCCostPrice
    minStock <- MCMinStock
    maxContextItems = 1
INVARIANTS
    StockMatchesDocuments
    PurchasesAddUp
    GoodsAndMoneyAreAccountedFor
    ResultsReconcile

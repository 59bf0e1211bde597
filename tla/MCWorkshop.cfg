SPECIFICATION BenchSpec
CONSTANTS
    r1 = r1
    r2 = r2
    ana = ana
    beto = beto
    None = None
    User = {ana, beto}
    Request = {r1, r2}
    Admin = {ana}
    ram = ram
    Product = {ram}
    userOf <- MCUserOf
    InitialStock <- MCStock
    Part <- MCParts
    Cost = {2}
    Photos = {3, 4}
    MaxOrders = 1
    MaxItems = 2
INVARIANTS
    ChargesAddUp
PROPERTIES
    OrdersFollowLifecycle
CHECK_DEADLOCK FALSE

SPECIFICATION ClientSpec
CONSTANTS
    r1 = r1
    r2 = r2
    ana = ana
    ram = ram
    f1 = f1
    f2 = f2
    None = None
    Request = {r1, r2}
    User = {ana}
    Admin = {ana}
    userOf <- MCUserOf
    Product = {ram}
    InitialStock <- MCStock
    MaxSessions = 1
    OpenAtStart <- MCTellers
    Order <- MCOrders
    taken <- MCTaken
    MaxSales = 2
    Terminal = {r1}
    Price <- MCPrice
    MaxLoads = 1
    Page <- Pages
    Filter = {f1, f2}
    MaxVersion = 3
    MaxFlights = 2
CHECK_DEADLOCK FALSE
INVARIANTS
    CartIsUnsold
    PagesSettle

SPECIFICATION FrontSpec
CONSTANTS
    r1 = r1
    r2 = r2
    ana = ana
    ram = ram
    None = None
    Request = {r1, r2}
    User = {ana}
    Admin = {ana}
    userOf <- MCUserOf
    Product = {ram}
    InitialStock <- MCStock
    MaxSessions = 1
    OpenAtStart <- MCTellers
    Order <- MCOrders
    taken <- MCTaken
    MaxSales = 1
    Basket <- MCBaskets
    MaxWeb = 2
    Kind = {"BOLETA", "FACTURA"}
    MaxDocuments = 3
    Setting <- MCSettings
    MaxCalls = 4
SYMMETRY MCSlots
CHECK_DEADLOCK FALSE
INVARIANTS
    RecordsAreTrue
    SeriesAreConsecutive
PROPERTIES
    ConfirmationsAndDocumentsStand

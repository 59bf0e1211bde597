SPECIFICATION CounterSpec
CONSTANTS
    r1 = r1
    r2 = r2
    ana = ana
    beto = beto
    prints = prints
    scans = scans
    None = None
    User = {ana, beto}
    Request = {r1, r2}
    Admin = {ana}
    userOf <- MCSameUser
    OpenAtStart <- MCNobody
    MaxSessions = 2
    Amount = {0}
    MaxTotal = 0
    QuickSale <- MCQuickSales
    Service = {prints, scans}
    MaxQuick = 2
INVARIANTS
    SessionCodesAreConsecutive
    TakingsMatchServices

SPECIFICATION OfficeSpec
CONSTANTS
    r1 = r1
    r2 = r2
    ana = ana
    beto = beto
    caro = caro
    None = None
    Request = {r1, r2}
    User = {ana, beto, caro}
    Admin = {ana, beto}
    userOf <- MCUserOf
    Email = {"ana@", "beto@", "caro@"}
    emailOf <- MCEmailOf
    Customer = {c1, c2}
    Document = {d1, d2}
    Phone = {p1}
    Notice = {n1, n2}
    Titles <- MCTitles
    Alarms <- MCAlarms
    Row = {s1, s2}
    Tax = {"exempt", "igv"}
    DefaultTax = "exempt"
    Question = {q1, q2}
    Facts = {f1, f2}
    Setups <- MCSetups
    MaxSize = 0
    Tab = {t1}
    plainRole <- MCPlainRole
    Category = {g1, g2}
    Name = {"Laptops", "computadoras", "Gaming"}
    normalized <- MCNormalized
    Product = {p2, p3}
    Code = {"A", "B"}
    Text = {"x", "y"}
    QuickCategory = {g1}
    QuickService = {q3}
    Demo = 2
    Received = {1}
    Paid = {1}
    Fitted = {2}
    CatalogueStock = 5
    MaxRuns = 2
    Desks <- MCDesks
    MaxCalls = 3
    MaxUses = 2
    MaxTouches = 2
CHECK_DEADLOCK FALSE
INVARIANTS
    CountedAdminRemains
    OneNoticeAndOneTax
    AnswersFitTheQuestion
    ShownUserActs
    AwarePagesAreServed
    CategoriesAreDistinct
    PagesForestallRefusals
    FormsAreFaithful
PROPERTIES
    EditsKeepTheRest
    SeedingConverges

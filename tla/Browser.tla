------------------------------- MODULE Browser -------------------------------
(***************************************************************************)
(* A browser that runs the client: the session its tabs show, the token    *)
(* they share, what each page calls and offers, and whom the guards of the *)
(* API admit.  The role behind a call is read from the User table when the *)
(* call arrives; the role a page goes by is the one its session started    *)
(* with.  A call is kept as the roles it needs.                            *)
(***************************************************************************)
EXTENDS Accounts

CONSTANTS
    Tab,        \* tabs of one browser: they share its localStorage
    plainRole   \* the role of each user who is no administrator

Staff == {"ADMIN", "WORKER", "TECHNICIAN"}
Roles == Staff \cup {plainRole[u] : u \in User}

ASSUME BrowserAssumption == "ADMIN" \notin {plainRole[u] : u \in User}

VARIABLES
    stored,     \* localStorage: the user of the token, or None
    tab,        \* the auth store of each tab
    sent        \* the call of each tab that is in flight, or None

browserVars == <<stored, tab, sent>>

-----------------------------------------------------------------------------
(* @Roles of the controllers: the handlers not open to every signed-in user *)

SalesForAdmin == {"sales.cancel"}
PurchasesForAdmin ==
    {"purchases.create", "purchases.update", "purchases.receive", "purchases.cancel"}
InventoryForAdmin ==
    {"inventory.createProduct", "inventory.updateProduct", "inventory.deactivateProduct",
     "inventory.adjustStock", "inventory.createCategory", "inventory.updateCategory",
     "inventory.deactivateCategory"}
CustomersForAdmin ==
    {"customers.create", "customers.update", "customers.setStatus", "customers.deactivate"}
SuppliersForAdmin ==
    {"suppliers.create", "suppliers.update", "suppliers.addProduct",
     "suppliers.updateProduct", "suppliers.deactivateProduct", "suppliers.deactivate"}
OrdersForAdmin == {"orders.cancel"}
QuickForAdmin ==
    {"quick.createCategory", "quick.updateCategory", "quick.deleteCategory",
     "quick.createService", "quick.updateService", "quick.deleteService", "quick.cancel"}
UsersForAdmin ==
    {"users.findAll", "users.findOne", "users.create", "users.update", "users.status",
     "users.password"}
RolesForAdmin == {"roles.findAll", "roles.create", "roles.update"}
AuditForAdmin == {"audit.findAll", "audit.findOne"}
SettingsForAdmin == {"settings.business", "settings.update", "settings.updateTax"}
ProfitForAdmin ==
    {"profit.summary", "profit.products", "profit.services", "profit.monthly",
     "profit.categories"}
SunatForAdmin ==
    {"sunat.boleta", "sunat.factura", "sunat.credit", "sunat.debit", "sunat.documents",
     "sunat.document", "sunat.status", "sunat.config", "sunat.test"}
PaymentsForAdmin ==
    {"payments.create", "payments.culqiLink", "payments.culqiCharge",
     "payments.izipayPayment", "payments.izipayToken", "payments.izipayTest",
     "payments.transactions", "payments.transaction", "payments.status", "payments.test"}
ShopForAdmin == {"shop.orders", "shop.order", "shop.status"}
NoticesForAdmin == {"notices.create"}
\* The receipts are for the staff, every other handler for administrators.
WhatsappForStaff ==
    {"whatsapp.sendReceipt", "whatsapp.receiptLink", "whatsapp.sale", "whatsapp.saleTemplate"}
WhatsappForAdmin ==
    {"whatsapp.send", "whatsapp.testText", "whatsapp.testTemplate",
     "whatsapp.testApprovedTemplate", "whatsapp.order", "whatsapp.template",
     "whatsapp.notification", "whatsapp.messages", "whatsapp.test"}
LookupForStaff == {"lookup.dni", "lookup.ruc"}
LookupForAdmin == {"lookup.status"}
AiForStaff ==
    {"ai.summary", "ai.sales", "ai.inventory", "ai.ask", "ai.testGet"}
AiForAdmin == {"ai.profitability", "ai.test"}
LocalAiForStaff == {"aiLocal.ask", "aiLocal.indexStatus"}
LocalAiForAdmin == {"aiLocal.rebuildIndex"}
IntegrationsForOffice == {"integrations.findAll", "integrations.findOne"}
IntegrationsForAdmin ==
    {"integrations.update", "integrations.test", "integrations.status"}
TaxForStaff == {"settings.tax"}

ForAdmin ==
    SalesForAdmin \cup PurchasesForAdmin \cup InventoryForAdmin \cup CustomersForAdmin
    \cup SuppliersForAdmin \cup OrdersForAdmin \cup QuickForAdmin \cup UsersForAdmin
    \cup RolesForAdmin \cup AuditForAdmin \cup SettingsForAdmin \cup ProfitForAdmin
    \cup SunatForAdmin \cup PaymentsForAdmin \cup ShopForAdmin \cup NoticesForAdmin
    \cup WhatsappForAdmin \cup LookupForAdmin \cup AiForAdmin \cup LocalAiForAdmin
    \cup IntegrationsForAdmin
ForStaff == WhatsappForStaff \cup LookupForStaff \cup AiForStaff \cup LocalAiForStaff \cup TaxForStaff

\* RolesGuard.
Admitted(call) ==
    {role \in Roles :
        /\ call \in ForAdmin => role = "ADMIN"
        /\ call \in ForStaff => role \in Staff
        /\ call \in IntegrationsForOffice => role \in {"ADMIN", "WORKER"}}

-----------------------------------------------------------------------------
(* What the pages call: when they open and from their buttons *)

PosAsks ==
    {"inventory.findProducts", "customers.findAll", "cash.current", "settings.tax",
     "sales.create", "sales.receipt"}
ReceiptModalAsks == {"whatsapp.receiptLink", "whatsapp.sendReceipt"}
CashAsks == {"cash.current", "cash.sessions", "cash.movements", "cash.summary"}
CashFormsAsk == {"cash.open", "cash.createMovement", "cash.close"}
SalesAsks == {"sales.findAll", "sales.receipt"}
SalesAdminAsks == {"sales.cancel"}
OrdersAsks == {"orders.findAll"}
OrderFormAsks == {"customers.findAll", "orders.create", "orders.ticket", "orders.sendWhatsapp"}
OrderAsks == {"orders.findOne", "orders.ticket", "orders.sendWhatsapp"}
OrderPanelsAsk ==
    {"orders.update", "orders.changeStatus", "orders.addItem", "orders.removeItem",
     "orders.deletePhoto", "orders.deliver"}
PartFormAsks == {"inventory.findProducts"}
OrderAdminAsks == {"orders.cancel"}
QuickAsks ==
    {"quick.categories", "quick.services", "customers.findAll", "quick.sales",
     "cash.current", "quick.createSale", "quick.receipt"}
QuickPanelAsks ==
    {"quick.createCategory", "quick.updateCategory", "quick.deleteCategory",
     "quick.createService", "quick.updateService", "quick.deleteService"}
QuickAdminAsks == QuickPanelAsks \cup {"quick.cancel"}
QuickSalesAsks == {"quick.sales", "quick.receipt"}
QuickSalesAdminAsks == {"quick.cancel"}
ReportsAsks ==
    {"reports.summary", "reports.sales", "reports.inventory", "reports.serviceOrders",
     "reports.quickServices", "reports.purchases", "reports.cash",
     "reports.profitabilityBasic", "reports.export"}
DashboardAsks == {"dashboard.summary"}
BellAsks == {"notices.findAll", "notices.unread", "notices.read", "notices.readAll"}
CustomersAsks ==
    {"customers.findAll", "customers.create", "customers.update", "customers.setStatus"}
CustomerFormAsks == {"lookup.dni", "lookup.ruc"}
InventoryAsks ==
    {"inventory.findProducts", "inventory.findCategories", "inventory.findLowStock",
     "inventory.createProduct", "inventory.updateProduct", "inventory.deactivateProduct",
     "inventory.adjustStock", "inventory.createCategory"}
SuppliersAsks ==
    {"suppliers.findAll", "suppliers.create", "suppliers.update", "suppliers.deactivate"}
SupplierFormAsks == {"inventory.findProducts", "lookup.ruc"}
PurchasesAsks == {"purchases.findAll", "purchases.create"}
PurchaseFormAsks == {"suppliers.findAll", "suppliers.findProducts"}
PurchaseAsks ==
    {"purchases.findOne", "purchases.receipt", "purchases.receive", "purchases.cancel"}
UsersAsks ==
    {"users.findAll", "roles.findAll", "users.update", "users.create", "users.status",
     "users.password"}
BusinessAsks == {"settings.business", "settings.update"}
TaxAsks == {"settings.tax", "settings.updateTax"}
ProfitabilityAsks ==
    {"profit.summary", "profit.products", "profit.services", "profit.monthly",
     "profit.categories"}
AuditAsks == {"audit.findAll"}
IntegrationsAsks == {"integrations.findAll", "integrations.test"}
SunatAsks == {"sunat.config", "sunat.documents", "sunat.test"}
WhatsappAsks == {"whatsapp.messages", "whatsapp.test"}
PaymentsAsks == {"payments.transactions", "payments.test"}
PaymentFormAsks == {"payments.create"}
AiAsks ==
    {"ai.testGet", "ai.ask", "ai.sales", "ai.inventory", "ai.profitability"}
EcommerceAsks == {"shop.products"}
OnlineOrdersAsks == {"shop.orders"}

\* The routes, with what their pages ask for whatever the role shown.
Asks ==
    [dashboard |-> DashboardAsks,
     pos |-> PosAsks \cup ReceiptModalAsks,
     cash |-> CashAsks \cup CashFormsAsk,
     sales |-> SalesAsks,
     orders |-> OrdersAsks \cup OrderFormAsks,
     order |-> OrderAsks \cup OrderPanelsAsk \cup PartFormAsks,
     quick |-> QuickAsks, quickSales |-> QuickSalesAsks,
     reports |-> ReportsAsks,
     customers |-> CustomersAsks \cup CustomerFormAsks,
     inventory |-> InventoryAsks,
     suppliers |-> SuppliersAsks \cup SupplierFormAsks,
     purchases |-> PurchasesAsks \cup PurchaseFormAsks, purchase |-> PurchaseAsks,
     users |-> UsersAsks, settings |-> BusinessAsks \cup TaxAsks,
     profitability |-> ProfitabilityAsks, audit |-> AuditAsks,
     integrations |-> IntegrationsAsks, sunat |-> SunatAsks, whatsapp |-> WhatsappAsks,
     payments |-> PaymentsAsks \cup PaymentFormAsks, ai |-> AiAsks,
     ecommerce |-> EcommerceAsks, onlineOrders |-> OnlineOrdersAsks]
Page == DOMAIN Asks

\* What a page adds when the role shown is ADMIN.
AdminAsks(page) ==
    CASE page = "sales" -> SalesAdminAsks
      [] page = "order" -> OrderAdminAsks
      [] page = "quick" -> QuickAdminAsks
      [] page = "quickSales" -> QuickSalesAdminAsks
      [] OTHER -> {}

\* Pages that show the buttons of administrators to every role.
RoleBlind == {"customers", "inventory", "suppliers", "purchases", "purchase"}

\* Routes under an AuthorizedRoute, and the modules that canAccessModule keeps
\* for administrators.
Guarded ==
    {"profitability", "settings", "users", "audit", "integrations", "sunat", "whatsapp",
     "payments", "ai", "ecommerce", "onlineOrders"}
AdminOnly ==
    {"profitability", "settings", "users", "audit", "integrations", "sunat", "whatsapp",
     "payments", "ai", "ecommerce", "onlineOrders"}

\* Faulty variant: the module of the settings is left out of the set.
FaultyCanAccess(role, module) == role = "ADMIN" \/ module \notin AdminOnly \ {"settings"}

CanAccess(role, module) == role = "ADMIN" \/ module \notin AdminOnly

CanOpen(role, page) == page \in Guarded => CanAccess(role, page)

Offered(role, page) ==
    Asks[page] \cup BellAsks \cup (IF role = "ADMIN" THEN AdminAsks(page) ELSE {})

-----------------------------------------------------------------------------
(* The store and the client *)

RoleNow(u) == IF account[u].admin THEN "ADMIN" ELSE plainRole[u]

Out == [at |-> "login", user |-> None, role |-> None]
Checking(u) == [at |-> "checking", user |-> u, role |-> None]
Inside(u) == [at |-> "inside", user |-> u, role |-> RoleNow(u)]

\* The tab is opened or reloaded at a page, or at /login: the calls of the page
\* it showed are dropped.  ProtectedRoute asks for the profile of a stored token.
Load(t) ==
    /\ \/ tab' = [tab EXCEPT ![t] = Out]
       \/ stored # None /\ tab' = [tab EXCEPT ![t] = Checking(stored)]
    /\ sent' = [sent EXCEPT ![t] = None]
    /\ UNCHANGED stored

\* loadProfile.
ProfileAnswered(t) ==
    /\ tab[t].at = "checking"
    /\ tab[t].user \in Existing /\ account[tab[t].user].active
    /\ tab' = [tab EXCEPT ![t] = Inside(tab[t].user)]
    /\ UNCHANGED <<stored, sent>>

\* Whatever goes wrong, the store signs out.
ProfileFailed(t) ==
    /\ tab[t].at = "checking"
    /\ tab' = [tab EXCEPT ![t] = Out]
    /\ stored' = None
    /\ UNCHANGED sent

\* Faulty variant: a token that is there already is kept.
FaultyLogin(t, u) ==
    /\ tab[t].at = "login"
    /\ u \in Existing /\ account[u].active
    /\ stored' = IF stored = None THEN u ELSE stored
    /\ tab' = [tab EXCEPT ![t] = Inside(u)]
    /\ UNCHANGED sent

\* The answer of auth/login holds the user and the token.
Login(t, u) ==
    /\ tab[t].at = "login"
    /\ u \in Existing /\ account[u].active
    /\ stored' = u
    /\ tab' = [tab EXCEPT ![t] = Inside(u)]
    /\ UNCHANGED sent

\* The calls in flight stay in flight.
Logout(t) ==
    /\ tab[t].at = "inside"
    /\ stored' = None
    /\ tab' = [tab EXCEPT ![t] = Out]
    /\ UNCHANGED sent

\* The session inside goes to a page that its role may open, and the page
\* calls with the token that is stored now.  Bound: one call of a tab at a time.
Call(t, page, call) ==
    /\ tab[t].at = "inside"
    /\ sent[t] = None
    /\ CanOpen(tab[t].role, page)
    /\ call \in Offered(tab[t].role, page)
    /\ sent' = [sent EXCEPT ![t] =
         [as |-> stored, user |-> tab[t].user, role |-> tab[t].role,
          need |-> Admitted(call), aware |-> page \notin RoleBlind]]
    /\ UNCHANGED <<stored, tab>>

\* 401: no token, an expired one, or that of an inactive user.  The client
\* removes the token, whosever it is by now, and leaves the store as it is.
Unauthorised(t) ==
    /\ sent[t] # None
    /\ stored' = None
    /\ sent' = [sent EXCEPT ![t] = None]
    /\ UNCHANGED tab

\* Served, refused by RolesGuard, or lost.
Answered(t) ==
    /\ sent[t] # None
    /\ sent' = [sent EXCEPT ![t] = None]
    /\ UNCHANGED <<stored, tab>>

BrowserStep(t) ==
    \/ Load(t) \/ ProfileAnswered(t) \/ ProfileFailed(t) \/ Logout(t)
    \/ \E page \in Page : \E call \in Asks[page] \cup BellAsks \cup AdminAsks(page) :
         Call(t, page, call)
    \/ Unauthorised(t) \/ Answered(t)

BrowserInit ==
    /\ stored = None
    /\ tab = [t \in Tab |-> Out]
    /\ sent = [t \in Tab |-> None]

-----------------------------------------------------------------------------
(* Properties *)

\* What a tab does is done by the user it shows, or refused to nobody: no call
\* of one session carries the token of another one.  The store and the token
\* are two copies (auth.store.ts, http-client.ts).  Stated of one tab: two
\* share the token and not the store.
ShownUserActs == \A t \in Tab : sent[t] # None => sent[t].as \in {None, sent[t].user}

\* The guards of the client and those of the API agree: outside the role-blind
\* pages, a call of a session whose user still has the role it started with is
\* admitted.  Stated of the three roles of the seed: the guards name no other.
AwarePagesAreServed ==
    \A t \in Tab :
        /\ sent[t] # None
        /\ sent[t].as # None
        /\ sent[t].aware
        /\ RoleNow(sent[t].as) = sent[t].role
        => sent[t].role \in sent[t].need
=============================================================================

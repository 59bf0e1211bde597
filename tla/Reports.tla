------------------------------- MODULE Reports -------------------------------
(***************************************************************************)
(* The shop, with the handlers that move goods or money over one Product   *)
(* table and one cash book: Sales, Purchases, ServiceOrders, QuickServices *)
(* (the EXTENDS below, ShopSpec); and its reports.                         *)
(* What ReportsService, ProfitabilityService, DashboardService and the     *)
(* inventory summary compute from the committed tables, over a period that *)
(* covers the whole history.  Filters, roles, dates, rankings and rows for *)
(* export are left out: a report is the record of its sums and counts.     *)
(* Each report is read in one snapshot here; the code issues one query per *)
(* table.                                                                  *)
(***************************************************************************)
EXTENDS Sales, Purchases, ServiceOrders, QuickServices

CONSTANTS
    purchasePrice,  \* Product.purchasePrice: supplies cost the same, so that
                    \* the price a reception writes back is this one
    costPrice,      \* QuickService.costPrice
    minStock,       \* Product.minStock
    maxContextItems \* AI_MAX_CONTEXT_ITEMS

ASSUME PriceAssumption ==
    /\ purchasePrice \in [Product -> Nat]
    /\ costPrice \in [Service -> Nat]
    /\ minStock \in [Product -> Nat]
    /\ maxContextItems \in 1..50

shopVars == <<vars, purchaseVars, workVars, quickVars>>

ShopInit == Init /\ PurchasesInit /\ WorkInit /\ QuickInit

ShopNext ==
    \/ Next /\ UNCHANGED <<purchaseVars, workVars, quickVars>>
    \/ PurchasesNext /\ UNCHANGED <<saleVars, workVars, quickVars>>
    \/ WorkNext /\ UNCHANGED <<cashVars, saleVars, purchaseVars, quickVars>>
    \/ QuickNext /\ UNCHANGED <<rowVars, saleVars, purchaseVars, workVars>>

ShopSpec == ShopInit /\ [][ShopNext]_shopVars

-----------------------------------------------------------------------------
(* The tables that the reports read *)

CompletedSales == {n \in Registered : sale[n].status = "COMPLETED"}
CancelledSales == Registered \ CompletedSales
CompletedQuick == {n \in Served : quick[n].status = "COMPLETED"}
ActivePurchases == {n \in Ordered : purchase[n].status # "CANCELLED"}
WorkIn(statuses) == {n \in WorkReceived : workOrder[n].status \in statuses}
PendingWork == {"RECEIVED", "DIAGNOSIS", "IN_PROGRESS", "READY"}

SalesTotal(ns) == SumFunctionOnSet([n \in ns |-> sale[n].order.total], ns)
QuickTotal(ns) == SumFunctionOnSet([n \in ns |-> quick[n].sale.total], ns)
PurchasesTotal(ns) == SumFunctionOnSet([n \in ns |-> purchase[n].supply.total], ns)
WorkTotal(ns) == SumFunctionOnSet([n \in ns |-> workOrder[n].contents.total], ns)

\* Units of p in the items of an order or a supply.
UnitsOf(items, p) ==
    SumFunctionOnSet([i \in DOMAIN items |-> items[i].quantity],
                     {i \in DOMAIN items : items[i].product = p})

AtPurchasePrice(units) ==
    SumFunctionOnSet([p \in Product |-> purchasePrice[p] * units[p]], Product)

SaleCost(n) == AtPurchasePrice([p \in Product |-> UnitsOf(sale[n].order.items, p)])
QuickCost(n) == SumFunctionOnSet(costPrice, quick[n].sale.services)

SalesCost(ns) == SumFunctionOnSet([n \in ns |-> SaleCost(n)], ns)

QuicksCost(ns) == SumFunctionOnSet([n \in ns |-> QuickCost(n)], ns)

SumMovements(type) == SumFunctionOnSet([s \in Session |-> SumOfType(takings[s], type)], Session)

-----------------------------------------------------------------------------
(* ReportsService *)

\* paymentSummary of sales, the cancelled ones included.
SalesReport ==
    [salesCount     |-> Cardinality(CompletedSales),
     totalSold      |-> SalesTotal(CompletedSales),
     cancelledSales |-> Cardinality(CancelledSales),
     byMethod       |-> [m \in Method |->
        SumFunctionOnSet(PaidBy(m), Registered)]]

LowStock == {p \in Product : active[p] /\ stock[p] <= minStock[p]}

InventoryReport ==
    LET shown == {p \in Product : active[p]}
    IN  [lowStockProducts   |-> Cardinality(LowStock),
         outOfStockProducts |-> Cardinality({p \in shown : stock[p] <= 0}),
         inventoryValue     |->
             SumFunctionOnSet([p \in shown |-> purchasePrice[p] * stock[p]], shown)]

OrdersByStatus == [status \in WorkStatus |-> Cardinality(WorkIn({status}))]

\* serviceOrders: an order that was not yet delivered brings no income, an
\* order that was cancelled keeps its costs out of the totals.
ServiceOrdersReport ==
    LET kept == WorkReceived \ WorkIn({"CANCELLED"})
        CostOf(field) == SumFunctionOnSet([n \in kept |-> workOrder[n].contents[field]], kept)
    IN  [ordersByStatus     |-> OrdersByStatus,
         totalOrders        |-> Cardinality(WorkReceived),
         serviceOrderIncome |-> WorkTotal(WorkIn({"DELIVERED"})),
         laborTotal         |-> CostOf("labor"),
         partsTotal         |-> CostOf("parts"),
         discountTotal      |-> CostOf("discount"),
         pendingOrders      |-> Cardinality(WorkIn(PendingWork))]

QuickServicesReport ==
    [totalQuickServices  |-> Cardinality(CompletedQuick),
     quickServicesIncome |-> QuickTotal(CompletedQuick),
     cancelledOperations |-> Cardinality(Served \ CompletedQuick)]

PurchasesReport ==
    [totalPurchasedAmount |-> PurchasesTotal(ActivePurchases),
     pendingPurchases     |-> Cardinality({n \in Ordered : ~Finished(n)}),
     receivedPurchases    |-> Cardinality({n \in Ordered : purchase[n].status = "RECEIVED"}),
     paidPurchases        |-> Cardinality({n \in Ordered : purchase[n].payment = "PAID"})]

\* Faulty variant: an adjustment is no income.
FaultyCashReport ==
    [openSessions   |-> Cardinality({s \in Session : session[s].status = "OPEN"}),
     closedSessions |-> Cardinality({s \in Session : session[s].status = "CLOSED"}),
     byMethod       |-> [m \in Method |->
        SumFunctionOnSet(
          [s \in Session |-> IncomeBy(takings[s], m) + takings[s]["EXPENSE"][m]], Session)],
     income         |-> SumMovements("SALE"),
     expenses       |-> SumMovements("EXPENSE"),
     cashDifference |-> SumFunctionOnSet([s \in Session |-> session[s].difference], Session)]

\* sumMovementsByMethod adds the movements of every type, expenses too.
CashReport ==
    [openSessions   |-> Cardinality({s \in Session : session[s].status = "OPEN"}),
     closedSessions |-> Cardinality({s \in Session : session[s].status = "CLOSED"}),
     byMethod       |-> [m \in Method |->
        SumFunctionOnSet(
          [s \in Session |-> IncomeBy(takings[s], m) + takings[s]["EXPENSE"][m]], Session)],
     income         |-> SumMovements("SALE") + SumMovements("INCOME"),
     expenses       |-> SumMovements("EXPENSE"),
     cashDifference |-> SumFunctionOnSet([s \in Session |-> session[s].difference], Session)]

SummaryCounts ==
    [productsLowStock     |-> Cardinality(LowStock),
     pendingServiceOrders |-> Cardinality(WorkIn(PendingWork)),
     pendingPurchases     |-> Cardinality({n \in Ordered : ~Finished(n)}),
     totalExpenses        |-> SumMovements("EXPENSE")]

\* netIncome subtracts every purchase that is not cancelled, and then the
\* expenses, among them the purchases paid from a till.
Summary ==
    LET sold == SalesTotal(CompletedSales)
        served == QuickTotal(CompletedQuick)
        repaired == WorkTotal(WorkIn({"READY", "DELIVERED"}))
        bought == PurchasesTotal(ActivePurchases)
        counts == SummaryCounts
    IN  [totalSalesAmount         |-> sold,
         totalQuickServicesAmount |-> served,
         totalServiceOrdersAmount |-> repaired,
         totalPurchasesAmount     |-> bought,
         totalExpenses            |-> counts.totalExpenses,
         netIncome                |-> sold + served + repaired - bought - counts.totalExpenses,
         productsLowStock         |-> counts.productsLowStock,
         pendingServiceOrders     |-> counts.pendingServiceOrders,
         pendingPurchases         |-> counts.pendingPurchases,
         paymentMethodSummary     |-> [m \in Method |-> SalesReport.byMethod[m] +
             QuickTotal({n \in CompletedQuick : quick[n].sale.method = m})]]

\* profitabilityBasic: the costs are those of every sale, the cancelled ones
\* included, the income is not.
ProfitabilityBasic ==
    LET income == SalesTotal(CompletedSales) + QuickTotal(CompletedQuick)
        costs == SalesCost(Registered) + QuicksCost(Served)
        expenses == CashReport.expenses
    IN  [totalIncome          |-> income,
         estimatedCosts       |-> costs,
         registeredExpenses   |-> expenses,
         estimatedGrossProfit |-> income - costs - expenses]

-----------------------------------------------------------------------------
(* ProfitabilityService, DashboardService *)

\* Only completed sales and services are read.
Profitability ==
    [totalIncome        |-> SalesTotal(CompletedSales) + QuickTotal(CompletedQuick),
     productCosts       |-> SalesCost(CompletedSales),
     quickServiceCosts  |-> QuicksCost(CompletedQuick),
     registeredExpenses |-> SumMovements("EXPENSE")]

\* Faulty variant: the income includes what was sold and cancelled.
FaultyDashboard ==
    [incomeToday                |-> SalesTotal(Registered),
     serviceOrdersPending       |-> Cardinality(WorkIn({"RECEIVED", "DIAGNOSIS"})),
     serviceOrdersInProgress    |-> Cardinality(WorkIn({"IN_PROGRESS"})),
     serviceOrdersReady         |-> Cardinality(WorkIn({"READY"})),
     serviceOrdersDelivered     |-> Cardinality({n \in WorkIn({"DELIVERED"}) : workOrder[n].delivered}),
     netCashToday               |-> SumMovements("SALE") + SumMovements("INCOME") - SumMovements("EXPENSE"),
     purchasesAmountToday       |-> PurchasesTotal(ActivePurchases),
     netProfitEstimated         |-> SalesTotal(Registered) + QuickTotal(CompletedQuick)
                                      - SumMovements("EXPENSE")]

\* A delivered order without deliveredAt is in none of the four counts.
Dashboard ==
    [incomeToday                |-> SalesTotal(CompletedSales),
     serviceOrdersPending       |-> Cardinality(WorkIn({"RECEIVED", "DIAGNOSIS"})),
     serviceOrdersInProgress    |-> Cardinality(WorkIn({"IN_PROGRESS"})),
     serviceOrdersReady         |-> Cardinality(WorkIn({"READY"})),
     serviceOrdersDelivered     |-> Cardinality({n \in WorkIn({"DELIVERED"}) : workOrder[n].delivered}),
     netCashToday               |-> SumMovements("SALE") + SumMovements("INCOME") - SumMovements("EXPENSE"),
     purchasesAmountToday       |-> PurchasesTotal(ActivePurchases),
     netProfitEstimated         |-> SalesTotal(CompletedSales) + QuickTotal(CompletedQuick)
                                      - SumMovements("EXPENSE")]

-----------------------------------------------------------------------------
(* What AiAnalyticsService and AiLocalService tell the assistant of the shop  *)
(* (buildBusinessContext).  A list is its length, cut to the rows taken.  The  *)
(* cash is left out, and with it the alert of a difference: it is the sum of   *)
(* the last movements only, of whatever session, and the difference of the     *)
(* newest open session.                                                       *)

Shown(rows, take) == IF Cardinality(rows) > take THEN take ELSE Cardinality(rows)

\* The queries of either service.
ContextRows(take) ==
    [lowStock      |-> Shown(LowStock, take),
     outOfStock    |-> Shown({p \in Product : active[p] /\ stock[p] = 0}, take),
     salesMonth    |-> Cardinality(CompletedSales),
     incomeMonth   |-> SalesTotal(CompletedSales),
     serviceOrders |-> OrdersByStatus]

\* An order that is ready is not pending here.
ContextPending == Cardinality(WorkIn(PendingWork \ {"READY"}))

BusinessContext ==
    [rows      |-> ContextRows(maxContextItems),
     pending   |-> ContextPending,
     purchases |-> Shown({n \in Ordered : ~Finished(n)}, maxContextItems)]

LocalContext == [rows |-> ContextRows(15), pending |-> ContextPending]

\* buildAlerts.
Alerts(c) ==
    LET raised == [lowStock         |-> c.rows.lowStock,
                   outOfStock       |-> c.rows.outOfStock,
                   pendingPurchases |-> c.purchases,
                   pendingOrders    |-> c.pending,
                   readyOrders      |-> c.rows.serviceOrders["READY"]]
    IN  {alert \in DOMAIN raised : raised[alert] > 0}

-----------------------------------------------------------------------------
(* PublicReceiptsService: what anyone with the code is shown, at any time.    *)

\* Without a payment the receipt names the payment status.
SaleReceipt(n) ==
    [rows |-> sale[n].order.items, total |-> sale[n].order.total,
     methods |-> {m \in Method : sale[n].order.pays[m] > 0}, status |-> sale[n].status]

QuickReceipt(n) ==
    [rows |-> quick[n].sale.services, total |-> quick[n].sale.total,
     methods |-> {quick[n].sale.method}, status |-> quick[n].status]

\* An order without items has one row of its total; with items, the labour is
\* in the subtotal and in no row.
WorkReceipt(n) ==
    LET c == workOrder[n].contents
        kept == {i \in DOMAIN c.items : c.items[i].kept}
    IN  [rows |-> IF kept = {} THEN <<c.total>>
                  ELSE [i \in kept |-> Subtotal(c.items[i].part)],
         subtotal |-> c.labor + c.parts, discount |-> c.discount, total |-> c.total,
         status |-> workOrder[n].status]

-----------------------------------------------------------------------------
(* Properties.  All but the last are true while requests run one at a time. *)

PaidFromTill == {n \in Ordered : purchase[n].supply.fromCash}

\* Units of p that entered with a purchase, and that left with a service order:
\* a part taken off an order does not come back.
ArrivedWith(n, p) ==
    SumFunctionOnSet(purchase[n].arrived,
                     {i \in DOMAIN purchase[n].arrived : purchase[n].supply.items[i].product = p})

UnitsFitted(items, p) ==
    SumFunctionOnSet([i \in DOMAIN items |-> items[i].part.quantity],
                     {i \in DOMAIN items : items[i].part.product = p})

FittedOn(n, p) == UnitsFitted(workOrder[n].contents.items, p)

Arrived(p) == SumFunctionOnSet([n \in Ordered |-> ArrivedWith(n, p)], Ordered)

Fitted(p) == SumFunctionOnSet([n \in WorkReceived |-> FittedOn(n, p)], WorkReceived)

Sold(p) ==
    SumFunctionOnSet([n \in CompletedSales |-> UnitsOf(sale[n].order.items, p)], CompletedSales)

\* The stock of every product is explained by the documents of the shop: what
\* there was, less the sales not cancelled, plus what came, less the parts
\* fitted.
StockMatchesDocuments ==
    \A p \in Product : stock[p] = InitialStock[p] - Sold(p) + Arrived(p) - Fitted(p)

\* Inventory report and profitability report split one value: what the goods on
\* the shelf and the goods sold cost is what the goods there were, less the
\* parts fitted, plus the goods that came, cost.  The cash report agrees with
\* the documents: its income is what sales and services report as paid, less the
\* totals of the cancelled sales, which are given back in cash however they were
\* paid; its expenses are the purchases paid from a till, and its amounts per
\* method add those expenses.
GoodsAndMoneyAreAccountedFor ==
    LET cash == CashReport
        sales == SalesReport
        methods == Summary.paymentMethodSummary
        refunded == SalesTotal(CancelledSales)
    IN  /\ InventoryReport.inventoryValue + Profitability.productCosts =
             AtPurchasePrice([p \in Product |-> InitialStock[p] + Arrived(p) - Fitted(p)])
        /\ cash.income =
             SumFunctionOnSet(sales.byMethod, Method)
               + QuickServicesReport.quickServicesIncome - refunded
        /\ cash.expenses = PurchasesTotal(PaidFromTill)
        /\ \A m \in Method :
             cash.byMethod[m] =
                 methods[m]
                   + PurchasesTotal({n \in PaidFromTill : purchase[n].supply.method = m})
                   - IF m = "CASH" THEN refunded ELSE 0

\* The results the owner is shown, of tables that different handlers fill, are
\* the cash that went through the tills plus what is still owed: on the
\* dashboard, in the basic profitability report once its costs are added back,
\* and in the income either assistant is told, with that of the services, once
\* the expenses are taken off.  The summary counts what is repaired and bought
\* as well: a purchase paid from a till is in the cash and is subtracted again.
ResultsAreCashPlusOwed ==
    LET owed == SalesTotal(Registered) - SumFunctionOnSet(SalesReport.byMethod, Method)
        dashboard == Dashboard
        basic == ProfitabilityBasic
        summary == Summary
        result == dashboard.netCashToday + owed
    IN  /\ dashboard.netProfitEstimated = result
        /\ basic.estimatedGrossProfit + basic.estimatedCosts = result
        /\ \A c \in {BusinessContext, LocalContext} :
             c.rows.incomeMonth + QuickServicesReport.quickServicesIncome
               = result + summary.totalExpenses
        /\ summary.netIncome = result
             + summary.totalServiceOrdersAmount - PurchasesReport.totalPurchasedAmount

\* What customers hold agrees with it: the receipts that do not say cancelled
\* add up to the income of the tills plus what is owed, and the receipt of a
\* service order asks for its subtotal less its discount, of which its rows
\* never show more.
ReceiptsAgree ==
    LET valid == {n \in Registered : SaleReceipt(n).status # "CANCELLED"}
        served == {n \in Served : QuickReceipt(n).status # "CANCELLED"}
        unpaid == [n \in Registered |-> SaleReceipt(n).total
                     - SumFunctionOnSet(sale[n].order.pays, SaleReceipt(n).methods)]
    IN  /\ SumFunctionOnSet([n \in valid |-> SaleReceipt(n).total], valid)
             + SumFunctionOnSet([n \in served |-> QuickReceipt(n).total], served)
             = CashReport.income + SumFunctionOnSet(unpaid, Registered)
        /\ \A n \in WorkReceived :
             LET w == WorkReceipt(n)
                 shown == SumFunctionOnSet(w.rows, DOMAIN w.rows)
             IN  w.total >= w.subtotal - w.discount /\ shown <= w.subtotal

\* An order is pending or ready everywhere alike, what the delivered orders
\* brought and the ready ones will bring is the summary's amount, and no order
\* asks for less than its costs.
OrdersAgree ==
    LET report == ServiceOrdersReport
    IN  /\ report.pendingOrders = BusinessContext.pending + Dashboard.serviceOrdersReady
        /\ report.totalOrders
             = report.pendingOrders + report.ordersByStatus["DELIVERED"]
                 + report.ordersByStatus["CANCELLED"]
        /\ report.serviceOrderIncome + WorkTotal(WorkIn({"READY"}))
             = Summary.totalServiceOrdersAmount
        /\ report.laborTotal + report.partsTotal - report.discountTotal
             <= WorkTotal(WorkReceived \ WorkIn({"CANCELLED"}))

\* The assistant is alerted of what the reports count, however few rows it
\* takes: lists that are cut still say that there is something.
AlertsAgree ==
    LET alerts == Alerts(BusinessContext)
        summary == Summary
    IN  /\ ("lowStock" \in alerts) = (summary.productsLowStock > 0)
        /\ ("outOfStock" \in alerts) = (InventoryReport.outOfStockProducts > 0)
        /\ ("pendingPurchases" \in alerts) = (summary.pendingPurchases > 0)
        /\ ("pendingOrders" \in alerts \/ "readyOrders" \in alerts)
             = (summary.pendingServiceOrders > 0)

ResultsReconcile == ResultsAreCashPlusOwed /\ ReceiptsAgree /\ OrdersAgree /\ AlertsAgree

\* Units of p that came back with the cancellations of a sale, less those sold.
Returned(n, p) == (sale[n].cancellations - 1) * UnitsOf(sale[n].order.items, p)

Back(p) == SumFunctionOnSet([n \in Registered |-> Returned(n, p)], Registered)

\* However requests interleave, what the InventoryMovement rows add up to is
\* what the documents say: a sale, its cancellations, a reception and a part
\* each commit together with their movements.  The stock itself is overwritten
\* from stale reads and may say something else.
KardexMatchesDocuments ==
    \A p \in Product : kardex[p] = Back(p) + Arrived(p) - Fitted(p)
=============================================================================

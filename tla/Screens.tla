------------------------------- MODULE Screens -------------------------------
(***************************************************************************)
(* The pages of the client and the hooks that fetch what they show.  They  *)
(* are written alike: an effect loads when the page opens and when a       *)
(* filter changes, a handler posts a change and then loads again or shows  *)
(* the row answered.  What differs is in the table Pages: what is asked    *)
(* with the filter, which failures are told, what waits in a dialog.  No   *)
(* hook cancels a request or compares the answers, so they are shown in    *)
(* the order in which they arrive.  A page reads several lists at once     *)
(* (Promise.all): one of them is followed, and the others only delay it or *)
(* fail with it.  What a list holds is a version of the tables it is read  *)
(* from, which every write renews; 0 is a list not read yet.               *)
(***************************************************************************)
EXTENDS Naturals, SequencesExt

CONSTANTS
    Page,       \* what the hook of each page does (Pages, below)
    Filter,     \* what a user can ask a list for
    MaxVersion, \* bound: versions of the tables
    MaxFlights  \* bound: requests of the page in flight together

ASSUME FilterAssumption == Filter # {}

\* A page whose handlers show the row answered reads its list only when it opens.
ShowsAnswers(hook) == \E w \in DOMAIN hook.writes : hook.writes[w].then = "take"

ASSUME PageAssumption ==
    \A p \in DOMAIN Page :
        /\ {Page[p].catches, Page[p].effectTells} \subseteq BOOLEAN
        /\ \A w \in DOMAIN Page[p].writes :
             Page[p].writes[w] \in [then: {"load", "take", "plain"}, clears: BOOLEAN,
                                   tells: BOOLEAN, dialog: BOOLEAN]
        /\ ShowsAnswers(Page[p]) =>
             /\ Page[p].refresh = "never" /\ ~Page[p].polls
             /\ \A w \in DOMAIN Page[p].writes : Page[p].writes[w].then # "load"
             /\ \A l \in DOMAIN Page[p].lists : Page[p].lists[l] = FALSE

VARIABLES
    screen,     \* the page open
    watched,    \* whether the list that is followed is asked with the filter
    table,      \* the version of the tables on the server
    filter,     \* what the page asks for
    shown,      \* the rows shown: what they were asked with, and their version
    stash,      \* the answer http-client.ts keeps for the URL, with no query
    loading,    \* isLoading
    error,      \* whether a message tells of a failure
    flights,    \* requests in flight, in the order they were sent
    told,       \* the newest version that a write of the page was answered with
    hidden,     \* document.hidden
    hitches     \* what may have spoilt the rows since the last load was asked

screenVars ==
    <<screen, watched, table, filter, shown, stash, loading, error, flights, told, hidden, hitches>>

Hook == Page[screen]
Later(m, n) == IF m < n THEN n ELSE m

Rows(f, version) == [filter |-> f, version |-> version]
Fits(f, now) == watched => f = now

\* A write goes on with a load ("load"), shows its answer ("take") or neither.
Load(f, tells) ==
    [kind |-> "read", filter |-> f, at |-> 0, tells |-> tells, dialog |-> FALSE]
Write(w) ==
    [kind |-> w.then, filter |-> filter, at |-> 0, tells |-> w.tells, dialog |-> w.dialog]

Reading(some) == \E i \in DOMAIN some : some[i].kind = "read"
Shows(flight) == flight.kind \in {"read", "take"}
InDialog == \E i \in DOMAIN flights : flights[i].dialog

\* An answer older than one that is still expected.
Overtaken(i) ==
    IF \E j \in 1..(i - 1) : Shows(flights[j]) THEN hitches \cup {"overtaken"} ELSE hitches

-----------------------------------------------------------------------------
(* Loads *)

\* isLoadingRef and document.hidden of useNotifications.
Skipped(rest) == Hook.single /\ (hidden \/ Reading(rest))

\* A load is asked with f: what spoilt the rows before is repaired by its
\* answer.  A handler that waited asks with the filter of its closure.
Ask(rest, f, tells) ==
    \/ /\ Skipped(rest)
       /\ flights' = rest
       /\ hitches' = hitches \cup {"skipped"}
       /\ UNCHANGED <<loading, error>>
    \/ /\ ~Skipped(rest)
       /\ Len(rest) < MaxFlights
       /\ flights' = Append(rest, Load(f, Hook.catches \/ tells))
       /\ hitches' = IF Fits(f, filter') THEN {} ELSE {"closure"}
       /\ loading' = Hook.spins
       /\ error' = (error /\ ~Hook.clears)

\* Faulty variant: the filter is missing from the dependencies of the effect.
FaultyChangeFilter(f) ==
    /\ \E l \in DOMAIN Hook.lists : Hook.lists[l]
    /\ f # filter /\ ~InDialog
    /\ filter' = f
    /\ UNCHANGED <<screen, watched, table, shown, stash, loading, error, flights, told, hidden,
                   hitches>>

\* The effect of the hook depends on the filters it sends.
ChangeFilter(f) ==
    /\ \E l \in DOMAIN Hook.lists : Hook.lists[l]
    /\ f # filter /\ ~InDialog
    /\ filter' = f
    /\ Ask(flights, f, Hook.effectTells)
    /\ UNCHANGED <<screen, watched, table, shown, stash, told, hidden>>

RefreshPage ==
    /\ Hook.refresh = "always" \/ (Hook.refresh = "idle" /\ ~loading)
    /\ ~InDialog
    /\ filter' = filter
    /\ Ask(flights, filter, FALSE)
    /\ UNCHANGED <<screen, watched, table, shown, stash, told, hidden>>

\* Every 30 seconds; while a load is in flight nothing happens.
Poll ==
    /\ Hook.polls
    /\ ~hidden /\ ~Reading(flights)
    /\ filter' = filter
    /\ Ask(flights, filter, FALSE)
    /\ UNCHANGED <<screen, watched, table, shown, stash, told, hidden>>

Hide ==
    /\ Hook.polls /\ ~hidden
    /\ hidden' = TRUE
    /\ UNCHANGED <<screen, watched, table, filter, shown, stash, loading, error, flights, told,
                   hitches>>

\* onVisibilityChange: hidden is read by the load, and is FALSE by then.
Unhide ==
    /\ hidden
    /\ hidden' = FALSE
    /\ flights' = IF Reading(flights) THEN flights ELSE Append(flights, Load(filter, Hook.catches))
    /\ Len(flights) < MaxFlights
    /\ hitches' = IF Reading(flights) THEN hitches \cup {"skipped"} ELSE {}
    /\ UNCHANGED <<screen, watched, table, filter, shown, stash, loading, error, told>>

\* Every list has been answered.
ShowLoad(i) ==
    /\ flights[i].kind = "read" /\ flights[i].at > 0
    /\ shown' = Rows(flights[i].filter, flights[i].at)
    /\ stash' = IF Hook.stashed THEN shown' ELSE stash
    /\ loading' = FALSE
    /\ flights' = RemoveAt(flights, i)
    /\ hitches' = Overtaken(i)
    /\ UNCHANGED <<screen, watched, table, filter, error, told, hidden>>

\* Some list was refused or lost: it is told, or nobody learns of it.
FailLoad(i) ==
    /\ flights[i].kind = "read"
    /\ shown' = IF Hook.empties THEN Rows(flights[i].filter, 0) ELSE shown
    /\ loading' = FALSE
    /\ error' = (error \/ flights[i].tells)
    /\ flights' = RemoveAt(flights, i)
    /\ hitches' = IF flights[i].tells THEN hitches ELSE hitches \cup {"silence"}
    /\ UNCHANGED <<screen, watched, table, filter, stash, told, hidden>>

\* Offline, the answer kept for the URL is taken, whatever was asked with it.
ShowStash(i) ==
    /\ flights[i].kind = "read"
    /\ Hook.stashed /\ stash.version > 0
    /\ shown' = stash
    /\ loading' = FALSE
    /\ flights' = RemoveAt(flights, i)
    /\ hitches' = hitches \cup {"stash"}
    /\ UNCHANGED <<screen, watched, table, filter, stash, error, told, hidden>>

-----------------------------------------------------------------------------
(* Writes *)

\* The handler may clear the message before it posts, the one that tells that
\* the rows could not be loaded included.
Mute(clears) ==
    /\ error' = (error /\ ~clears)
    /\ hitches' = IF error /\ clears THEN hitches \cup {"muted"} ELSE hitches

\* A row is changed from where it is shown.
StartWrite(w) ==
    /\ ~InDialog
    /\ w.then = "take" => shown.version > 0
    /\ Len(flights) < MaxFlights
    /\ flights' = Append(flights, Write(w))
    /\ Mute(w.clears)
    /\ UNCHANGED <<screen, watched, table, filter, shown, stash, loading, told, hidden>>

\* add and qty of useQuickServices.
EditCart ==
    /\ Hook.mutes
    /\ Mute(TRUE)
    /\ UNCHANGED <<screen, watched, table, filter, shown, stash, loading, flights, told, hidden>>

\* The handler goes on where it waited.
HearWrite(i) ==
    /\ flights[i].kind # "read" /\ flights[i].at > 0
    /\ told' = IF flights[i].kind = "plain" THEN told ELSE Later(told, flights[i].at)
    /\ filter' = filter
    /\ \/ /\ flights[i].kind = "load"
          /\ Ask(RemoveAt(flights, i), flights[i].filter, flights[i].tells)
          /\ UNCHANGED shown
       \/ /\ flights[i].kind = "take"
          /\ shown' = Rows(flights[i].filter, flights[i].at)
          /\ flights' = RemoveAt(flights, i)
          /\ hitches' = Overtaken(i)
          /\ UNCHANGED <<loading, error>>
       \/ /\ flights[i].kind = "plain"
          /\ flights' = RemoveAt(flights, i)
          /\ UNCHANGED <<shown, loading, error, hitches>>
    /\ UNCHANGED <<screen, watched, table, stash, hidden>>

\* The write was refused, or its answer lost.
FailWrite(i) ==
    /\ flights[i].kind # "read"
    /\ error' = (error \/ flights[i].tells)
    /\ flights' = RemoveAt(flights, i)
    /\ UNCHANGED <<screen, watched, table, filter, shown, stash, loading, told, hidden, hitches>>

-----------------------------------------------------------------------------
(* The server *)

\* A request reaches the tables.  Two writes whose rows are shown may do so in
\* the other order.
Serve(i) ==
    /\ flights[i].at = 0
    /\ table' = IF flights[i].kind \in {"load", "take"} THEN table + 1 ELSE table
    /\ table' <= MaxVersion
    /\ flights' = [flights EXCEPT ![i].at = table']
    /\ hitches' =
         IF flights[i].kind = "take"
            /\ \E j \in 1..(i - 1) : Shows(flights[j]) /\ flights[j].at = 0
         THEN hitches \cup {"overtaken"} ELSE hitches
    /\ UNCHANGED <<screen, watched, filter, shown, stash, loading, error, told, hidden>>

\* Other users write as well.
WriteElsewhere ==
    /\ table < MaxVersion
    /\ table' = table + 1
    /\ UNCHANGED <<screen, watched, filter, shown, stash, loading, error, flights, told, hidden,
                   hitches>>

ScreenNext ==
    \/ \E f \in Filter : ChangeFilter(f)
    \/ RefreshPage \/ Poll \/ Hide \/ Unhide \/ EditCart \/ WriteElsewhere
    \/ \E w \in DOMAIN Hook.writes : StartWrite(Hook.writes[w])
    \/ \E i \in DOMAIN flights :
         Serve(i) \/ ShowLoad(i) \/ FailLoad(i) \/ ShowStash(i) \/ HearWrite(i) \/ FailWrite(i)

\* A page opens, and its effect loads.
ScreenInit ==
    /\ screen \in DOMAIN Page
    /\ watched \in {Hook.lists[l] : l \in DOMAIN Hook.lists}
    /\ filter \in Filter
    /\ table = 1
    /\ shown = Rows(filter, 0) /\ stash = shown
    /\ loading = Hook.spins
    /\ error = FALSE
    /\ flights = <<Load(filter, Hook.catches \/ Hook.effectTells)>>
    /\ told = 0
    /\ hidden = FALSE
    /\ hitches = {}

ScreenSpec == ScreenInit /\ [][ScreenNext]_screenVars

-----------------------------------------------------------------------------
(* The table Pages: a hook loads, the page says what runs behind a dialog   *)

\* What most hooks do: isLoading while they load, the message cleared before
\* and set when it fails.
Common ==
    [lists |-> [rows |-> FALSE], spins |-> TRUE, clears |-> TRUE, catches |-> TRUE,
     effectTells |-> FALSE, empties |-> FALSE, single |-> FALSE, polls |-> FALSE,
     stashed |-> FALSE, mutes |-> FALSE, refresh |-> "never", writes |-> <<>>]

\* A handler that awaits its post and then goes on; the caller of one that
\* does not catch has the dialog of the form to tell of the failure.
Then(next) == [then |-> next, clears |-> FALSE, tells |-> FALSE, dialog |-> TRUE]
Clearing(write) == [write EXCEPT !.clears = TRUE]
Caught(write) == [write EXCEPT !.clears = TRUE, !.tells = TRUE]

\* The handlers in `open' run with no dialog before the page.
Wired(hook, open, refresh) ==
    [hook EXCEPT !.refresh = refresh,
                 !.writes = [w \in DOMAIN hook.writes |->
                               [hook.writes[w] EXCEPT !.dialog = w \notin open]]]

UseCustomers ==
    [Common EXCEPT
       !.lists = [customers |-> TRUE], !.stashed = TRUE,
       !.writes = [saveCustomer |-> Clearing(Then("load")),
                   setCustomerStatus |-> Clearing(Then("load"))]]
\* The dialog that asks to confirm a status closes as soon as it is answered.
CustomersPage == Wired(UseCustomers, {"setCustomerStatus"}, "never")

\* The search and the category filter rows that are here already.
UseInventory ==
    [Common EXCEPT
       !.lists = [products |-> FALSE, categories |-> FALSE, lowStock |-> FALSE],
       !.writes = [saveProduct |-> Then("load"), deactivateProduct |-> Then("load"),
                   createCategory |-> Then("load"), adjustStock |-> Then("load")]]
InventoryPage == Wired(UseInventory, {"deactivateProduct"}, "never")

UseSuppliers ==
    [Common EXCEPT
       !.lists = [suppliers |-> TRUE],
       !.writes = [saveSupplier |-> Clearing(Then("load")),
                   deactivateSupplier |-> Clearing(Then("load"))]]
SuppliersPage == Wired(UseSuppliers, {"deactivateSupplier"}, "never")

\* The page calls createPurchase only.
UsePurchases ==
    [Common EXCEPT !.lists = [purchases |-> TRUE], !.writes = [createPurchase |-> Then("load")]]
PurchasesPage == Wired(UsePurchases, {}, "never")

\* The page of an order keeps a message for good and shows what its writes answer.
PurchaseOrderDetailPage ==
    [Common EXCEPT
       !.lists = [purchase |-> FALSE], !.spins = FALSE, !.clears = FALSE,
       !.writes = [receive |-> Then("take"), cancel |-> Then("take")]]

UseCash ==
    [Common EXCEPT
       !.lists = [current |-> FALSE, sessions |-> FALSE, movements |-> TRUE, summary |-> FALSE],
       !.writes = [open |-> Then("load"), close |-> Then("load"),
                   createMovement |-> Then("load")]]
\* The form of the movements is part of the page.
CashPage == Wired(UseCash, {"createMovement"}, "idle")

SalesHistoryPage ==
    [Common EXCEPT
       !.lists = [sales |-> TRUE], !.empties = TRUE, !.refresh = "idle",
       !.writes = [cancelSale |-> Then("load")]]

UseServiceOrders ==
    [Common EXCEPT !.lists = [orders |-> TRUE], !.stashed = TRUE,
                   !.writes = [create |-> Then("load")]]
ServiceOrdersPage == Wired(UseServiceOrders, {}, "always")

\* loadOrder catches nothing; every panel shows the order answered, and the
\* messages are those of the ticket and of WhatsApp.
ServiceOrderDetailPage ==
    [Common EXCEPT
       !.lists = [order |-> FALSE], !.spins = FALSE, !.clears = FALSE, !.catches = FALSE,
       !.stashed = TRUE,
       !.writes = [update |-> [Then("take") EXCEPT !.dialog = FALSE],
                   changeStatus |-> Then("take"), addItem |-> Then("take"),
                   removeItem |-> [Then("take") EXCEPT !.dialog = FALSE],
                   deletePhoto |-> [Then("take") EXCEPT !.dialog = FALSE],
                   deliver |-> Then("take"), cancel |-> [Then("take") EXCEPT !.dialog = FALSE],
                   openTicket |-> [Clearing(Then("plain")) EXCEPT !.dialog = FALSE],
                   sendWhatsApp |-> [Caught(Then("plain")) EXCEPT !.dialog = FALSE]]]

\* reload neither clears nor catches: the effect tells of its failure, and so
\* does confirm, whose sale was registered by then.  The cart clears messages.
UseQuickServices ==
    [Common EXCEPT
       !.lists = [categories |-> FALSE, allServices |-> FALSE, services |-> TRUE,
                  customers |-> FALSE, sales |-> FALSE, cashSession |-> FALSE],
       !.clears = FALSE, !.catches = FALSE, !.effectTells = TRUE, !.mutes = TRUE,
       !.writes = [confirm |-> Caught(Then("load")), cancelSale |-> Then("load"),
                   createCategory |-> Then("load"), createService |-> Then("load"),
                   editCategory |-> Then("load"), editService |-> Then("load"),
                   deactivateService |-> Then("load"), deactivateCategory |-> Then("load")]]
\* Only the reason of a cancellation is asked for in a dialog.
QuickServicesPage ==
    Wired(UseQuickServices, DOMAIN UseQuickServices.writes \ {"cancelSale"}, "idle")

QuickServiceSalesPage ==
    [Common EXCEPT !.lists = [sales |-> FALSE], !.clears = FALSE, !.catches = FALSE,
                   !.refresh = "idle", !.writes = [cancel |-> Then("load")]]

UseReports ==
    [Common EXCEPT
       !.lists = [summary |-> TRUE, sales |-> TRUE, inventory |-> TRUE, serviceOrders |-> TRUE,
                  quickServices |-> TRUE, purchases |-> TRUE, cash |-> TRUE,
                  profitability |-> TRUE],
       !.writes = [exportReport |-> Then("plain")]]
ReportsPage == Wired(UseReports, {"exportReport"}, "always")

UseProfitability ==
    [Common EXCEPT !.lists = [summary |-> TRUE, products |-> TRUE, services |-> TRUE,
                              monthly |-> TRUE, categories |-> TRUE]]
ProfitabilityPage == Wired(UseProfitability, {}, "always")

UseDashboardSummary == [Common EXCEPT !.lists = [summary |-> FALSE]]
DashboardPage == Wired(UseDashboardSummary, {}, "idle")

UseAuditLogs == [Common EXCEPT !.lists = [items |-> TRUE]]
\* Asked again from the message of a failure.
AuditLogsPage == Wired(UseAuditLogs, {}, "idle")

\* test loads inside its own try.
UseIntegrations ==
    [Common EXCEPT !.lists = [items |-> FALSE], !.writes = [test |-> Caught(Then("load"))]]
IntegrationsPage == Wired(UseIntegrations, {"test"}, "idle")

SunatPage ==
    [Common EXCEPT !.lists = [config |-> FALSE], !.spins = FALSE, !.refresh = "always",
                   !.writes = [test |-> [Caught(Then("load")) EXCEPT !.dialog = FALSE]]]

UsersPage ==
    [Common EXCEPT
       !.lists = [users |-> FALSE, roles |-> FALSE], !.refresh = "idle",
       !.writes = [save |-> Then("load"),
                   toggleStatus |-> [Then("load") EXCEPT !.dialog = FALSE],
                   changePassword |-> Then("plain")]]

\* A failure empties the items and is not told; the handlers post for good.
UseNotifications ==
    [Common EXCEPT
       !.lists = [items |-> FALSE, count |-> FALSE], !.spins = FALSE, !.clears = FALSE,
       !.catches = FALSE, !.empties = TRUE, !.single = TRUE, !.polls = TRUE,
       !.writes = [markRead |-> Then("load"), readAll |-> Then("load")]]
NotificationBell == Wired(UseNotifications, {"markRead", "readAll"}, "never")

\* Lists that are read once, and empty when that fails.
ReadOnce(list) ==
    [Common EXCEPT !.lists = list, !.spins = FALSE, !.clears = FALSE, !.catches = FALSE,
                   !.empties = TRUE]
SunatDocumentTable == ReadOnce([docs |-> FALSE])
WhatsappMessageTable == ReadOnce([items |-> FALSE])
PaymentStatusTable == ReadOnce([items |-> FALSE])
OnlineOrdersTable == [ReadOnce([orders |-> FALSE]) EXCEPT !.spins = TRUE]
EcommerceProductGrid == [ReadOnce([products |-> FALSE]) EXCEPT !.spins = TRUE]

Pages ==
    [customers |-> CustomersPage, inventory |-> InventoryPage, suppliers |-> SuppliersPage,
     purchases |-> PurchasesPage, purchase |-> PurchaseOrderDetailPage, cash |-> CashPage,
     sales |-> SalesHistoryPage, orders |-> ServiceOrdersPage,
     order |-> ServiceOrderDetailPage, quick |-> QuickServicesPage,
     quickSales |-> QuickServiceSalesPage, reports |-> ReportsPage,
     profitability |-> ProfitabilityPage, dashboard |-> DashboardPage, audit |-> AuditLogsPage,
     integrations |-> IntegrationsPage, sunat |-> SunatPage, users |-> UsersPage,
     bell |-> NotificationBell, documents |-> SunatDocumentTable,
     messages |-> WhatsappMessageTable, payments |-> PaymentStatusTable,
     onlineOrders |-> OnlineOrdersTable, shop |-> EcommerceProductGrid]

-----------------------------------------------------------------------------
(* Properties *)

\* A page at rest that tells of no failure shows rows that answer its filters
\* and hold every change it was told of, whatever failed, was refused or came
\* late before, but for what the hitches name: an answer that overtook another
\* one, a load asked with the filter of an old closure, a load skipped for one
\* already in flight, a failure nobody was told of, its message cleared by a
\* handler that loads nothing, and an answer kept from before.
RowsAnswerThePage ==
    hitches = {} /\ ~Reading(flights) /\ ~error
        => Fits(shown.filter, filter) /\ shown.version >= told

\* The spinner stops: a page says it is loading only while a load is in flight.
SpinnerEnds == loading => Reading(flights)

\* What waits in a dialog keeps the filter it started with: only the handlers
\* that run behind an open page load for a filter that was left.
DialogsKeepTheFilter ==
    "closure" \in hitches =>
        \E w \in DOMAIN Hook.writes :
            Hook.writes[w].then = "load" /\ ~Hook.writes[w].dialog

\* Whatever comes late, fails or is lost, a page comes to rest on the rows it
\* asks for: its spinner stops, its rows answer its filters, and a load for a
\* filter that was left was asked by a handler behind an open page.
PagesSettle == RowsAnswerThePage /\ SpinnerEnds /\ DialogsKeepTheFilter
=============================================================================

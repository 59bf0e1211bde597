------------------------------- MODULE Seeding --------------------------------
(***************************************************************************)
(* prisma/seed.ts: the script that removes the demonstration documents and *)
(* writes them again, each statement committed by itself, while the shop   *)
(* may be open.  The script may stop after any statement and is then run   *)
(* from the start.  One product stands for all, the one whose stock the    *)
(* script adjusts, and what a document moves is one unit of it.            *)
(***************************************************************************)
EXTENDS Integers, FiniteSets

CONSTANTS
    Demo,           \* demonstration documents of each kind: 10 in the code
    Received,       \* those of the purchases that have arrived
    Paid,           \* those of the purchases that were paid from the till
    Fitted,         \* those of the service orders that took a part
    CatalogueStock, \* the stock the catalogue states
    MaxRuns         \* bound: runs of the script

ASSUME SeedingAssumption ==
    /\ Demo \in Nat \ {0} /\ MaxRuns \in Nat /\ CatalogueStock \in Nat
    /\ Received \cup Paid \cup Fitted \subseteq 1..Demo

VARIABLES
    seed,       \* the script: its next statement, the document and the stock it has read
    found,      \* the documents the cleanup found, and whether it found the session
    numbers,    \* numbers of the documents of each kind
    drawer,     \* the session CJ-000001 exists
    inDrawer,   \* the quick services registered in that session
    cash,       \* CashMovement rows: <<in that session, kind of document, number>>
    totals,     \* the rows that the totals of that session count
    shelf,      \* Product.stock
    history,    \* sum of the InventoryMovement rows marked DEMO
    tables,     \* tables whose rows the script has upserted
    posted,     \* times the notifications and the audit rows have been stored
    runs        \* runs begun

dataVars == <<numbers, drawer, inDrawer, cash, totals, shelf, history, tables, posted>>
seedVars == <<seed, found, dataVars, runs>>

DocumentKind == {"purchase", "sale", "work", "quick"}
DemoCodes == 1..Demo

Delta(k, n) ==
    CASE k = "purchase" -> IF n \in Received THEN 1 ELSE 0
      [] k = "sale"     -> -1
      [] k = "work"     -> IF n \in Fitted THEN -1 ELSE 0
      [] k = "quick"    -> 0

Collects(k, n) == k \in {"sale", "quick"} \/ (k = "purchase" /\ n \in Paid)

Manual == <<TRUE, "manual", 0>>

Go(from, to) == seed.at = from /\ seed' = [seed EXCEPT !.at = to]

Seeding == seed.at \notin {"new", "stopped", "finished"}

Run ==
    /\ ~Seeding
    /\ runs < MaxRuns
    /\ runs' = runs + 1
    /\ seed' = [seed EXCEPT !.at = "find"]
    /\ UNCHANGED <<found, dataVars>>

-----------------------------------------------------------------------------
(* cleanupDemoData: what carries the codes of the demonstration is found  *)
(* first and deleted afterwards, whoever registered it                    *)

FindDemo ==
    /\ Go("find", "deleteCash")
    /\ found' = [documents |-> [k \in DocumentKind |-> numbers[k] \cap DemoCodes],
                 session   |-> drawer]
    /\ UNCHANGED <<dataVars, runs>>

DeleteCash ==
    /\ Go("deleteCash", "deleteSales")
    /\ cash' = {c \in cash : /\ ~(c[1] /\ found.session)
                             /\ c = Manual \/ c[3] \notin found.documents[c[2]]}
    /\ UNCHANGED <<found, numbers, drawer, inDrawer, totals, shelf, history, tables, posted, runs>>

DeleteDocuments(k, from, to) ==
    /\ Go(from, to)
    /\ numbers' = [numbers EXCEPT ![k] = @ \ found.documents[k]]
    /\ inDrawer' = IF k = "quick" THEN inDrawer \ found.documents[k] ELSE inDrawer
    /\ UNCHANGED <<found, drawer, cash, totals, shelf, history, tables, posted, runs>>

\* Foreign keys: a quick service or a movement that is still in the session
\* makes the statement fail, and the script with it.
DeleteSession ==
    /\ Go("deleteSession", "deleteHistory")
    /\ found.session => (inDrawer = {} /\ \A c \in cash : ~c[1])
    /\ drawer' = (drawer /\ ~found.session)
    /\ totals' = IF found.session THEN {} ELSE totals
    /\ UNCHANGED <<found, numbers, inDrawer, cash, shelf, history, tables, posted, runs>>

DeleteHistory ==
    /\ Go("deleteHistory", "deletePosts")
    /\ history' = 0
    /\ UNCHANGED <<found, numbers, drawer, inDrawer, cash, totals, shelf, tables, posted, runs>>

DeletePosts ==
    /\ Go("deletePosts", "users")
    /\ posted' = [p \in DOMAIN posted |-> 0]
    /\ UNCHANGED <<found, numbers, drawer, inDrawer, cash, totals, shelf, history, tables, runs>>

CleanupDemoData ==
    \/ FindDemo \/ DeleteCash
    \/ DeleteDocuments("sale", "deleteSales", "deleteQuick")
    \/ DeleteDocuments("quick", "deleteQuick", "deleteWork")
    \/ DeleteDocuments("work", "deleteWork", "deletePurchases")
    \/ DeleteDocuments("purchase", "deletePurchases", "deleteSession")
    \/ DeleteSession \/ DeleteHistory \/ DeletePosts

-----------------------------------------------------------------------------
(* The tables that are upserted *)

Upsert(from, to) ==
    /\ Go(from, to)
    /\ tables' = tables \cup {from}
    /\ UNCHANGED <<found, numbers, drawer, inDrawer, cash, totals, shelf, history, posted, runs>>

SeedRolesAndUsers == Upsert("users", "customers")
SeedCustomers == Upsert("customers", "products")
SeedQuickServices == Upsert("services", "suppliers")
SeedSuppliers == Upsert("suppliers", "session")
SeedBusinessSettings == Upsert("settings", "finished")

\* Faulty variant: the stock of a product that exists is left as it is.
FaultySeedProductCatalog ==
    /\ Go("products", "initialStock")
    /\ tables' = tables \cup {"products"}
    /\ shelf' = IF "products" \in tables THEN shelf ELSE CatalogueStock
    /\ UNCHANGED <<found, numbers, drawer, inDrawer, cash, totals, history, posted, runs>>

\* An update states the stock as well.
SeedProductCatalog ==
    /\ Go("products", "initialStock")
    /\ tables' = tables \cup {"products"}
    /\ shelf' = CatalogueStock
    /\ UNCHANGED <<found, numbers, drawer, inDrawer, cash, totals, history, posted, runs>>

\* The adjustment by physical count: it says a unit was found that the stock,
\* and the movement before, have counted already.
CountedTwice == 1

SeedInitialInventoryMovements ==
    /\ \/ Go("initialStock", "adjustment") /\ history' = history + CatalogueStock
       \/ Go("adjustment", "services") /\ history' = history + CountedTwice
    /\ UNCHANGED <<found, numbers, drawer, inDrawer, cash, totals, shelf, tables, posted, runs>>

-----------------------------------------------------------------------------
(* The session and the documents *)

SeedCashSession ==
    /\ Go("session", "manual")
    /\ ~drawer
    /\ drawer' = TRUE
    /\ UNCHANGED <<found, numbers, inDrawer, cash, totals, shelf, history, tables, posted, runs>>

SeedManualCashMovements ==
    /\ seed.at = "manual"
    /\ seed' = [seed EXCEPT !.at = "insert", !.kind = "purchase", !.n = 1]
    /\ cash' = cash \cup {Manual}
    /\ UNCHANGED <<found, numbers, drawer, inDrawer, totals, shelf, history, tables, posted, runs>>

\* The unique code: the script fails where the shop has taken a number.
InsertDemo(k) ==
    /\ seed.kind = k
    /\ seed.n \notin numbers[k]
    /\ Go("insert", IF Delta(k, seed.n) # 0 THEN "readStock" ELSE "collect")
    /\ numbers' = [numbers EXCEPT ![k] = @ \cup {seed.n}]
    /\ inDrawer' = IF k = "quick" THEN inDrawer \cup {seed.n} ELSE inDrawer
    /\ UNCHANGED <<found, drawer, cash, totals, shelf, history, tables, posted, runs>>

\* The stock is written as the sum of what was read.
MoveDemoStock(k) ==
    /\ seed.kind = k
    /\ \/ /\ seed.at = "readStock"
          /\ seed' = [seed EXCEPT !.at = "writeStock", !.read = shelf]
          /\ UNCHANGED <<shelf, history>>
       \/ /\ Go("writeStock", "record")
          /\ shelf' = seed.read + Delta(k, seed.n)
          /\ UNCHANGED history
       \/ /\ Go("record", "collect")
          /\ history' = history + Delta(k, seed.n)
          /\ UNCHANGED shelf
    /\ UNCHANGED <<found, numbers, drawer, inDrawer, cash, totals, tables, posted, runs>>

AfterKind(k) ==
    CASE k = "purchase" -> "sale" [] k = "sale" -> "work" [] k = "work" -> "quick"

\* The CashMovement, and the next document.
CollectDemo(k) ==
    /\ seed.at = "collect" /\ seed.kind = k
    /\ cash' = IF Collects(k, seed.n) THEN cash \cup {<<TRUE, k, seed.n>>} ELSE cash
    /\ seed' = IF seed.n < Demo THEN [seed EXCEPT !.at = "insert", !.n = @ + 1]
               ELSE IF k = "quick" THEN [seed EXCEPT !.at = "totals"]
               ELSE [seed EXCEPT !.at = "insert", !.kind = AfterKind(k), !.n = 1]
    /\ UNCHANGED <<found, numbers, drawer, inDrawer, totals, shelf, history, tables, posted, runs>>

SeedPurchases == InsertDemo("purchase") \/ MoveDemoStock("purchase") \/ CollectDemo("purchase")
SeedSales == InsertDemo("sale") \/ MoveDemoStock("sale") \/ CollectDemo("sale")
SeedServiceOrders == InsertDemo("work") \/ MoveDemoStock("work") \/ CollectDemo("work")
SeedQuickServiceSales == InsertDemo("quick") \/ CollectDemo("quick")

UpdateCashSessionTotals ==
    /\ Go("totals", "notices")
    /\ totals' = {c \in cash : c[1]}
    /\ UNCHANGED <<found, numbers, drawer, inDrawer, cash, shelf, history, tables, posted, runs>>

PostDemo(from, to) ==
    /\ Go(from, to)
    /\ posted' = [posted EXCEPT ![from] = @ + 1]
    /\ UNCHANGED <<found, numbers, drawer, inDrawer, cash, totals, shelf, history, tables, runs>>

SeedNotifications == PostDemo("notices", "audits")
SeedAuditLogs == PostDemo("audits", "settings")

\* A statement fails, or the script is stopped: what it wrote remains.
StopSeeding ==
    /\ Seeding
    /\ seed' = [seed EXCEPT !.at = "stopped"]
    /\ UNCHANGED <<found, dataVars, runs>>

SeedingStep ==
    \/ CleanupDemoData
    \/ SeedRolesAndUsers \/ SeedCustomers \/ SeedProductCatalog
    \/ SeedInitialInventoryMovements \/ SeedQuickServices \/ SeedSuppliers
    \/ SeedCashSession \/ SeedManualCashMovements
    \/ SeedPurchases \/ SeedSales \/ SeedServiceOrders \/ SeedQuickServiceSales
    \/ UpdateCashSessionTotals \/ SeedNotifications \/ SeedAuditLogs
    \/ SeedBusinessSettings \/ StopSeeding

-----------------------------------------------------------------------------
(* The shop at work: the next document of a kind, numbered count + 1.  Users *)
(* and what is sold come from the script; a sale takes from the stock.       *)

Use(k, session) ==
    LET n == Cardinality(numbers[k]) + 1
    IN  /\ "users" \in tables
        /\ k = "quick" => "services" \in tables
        /\ k = "sale" => shelf > 0
        /\ session => drawer
        /\ n \notin numbers[k]
        /\ numbers' = [numbers EXCEPT ![k] = @ \cup {n}]
        /\ shelf' = IF k = "sale" THEN shelf - 1 ELSE shelf
        /\ cash' = IF k \in {"sale", "quick"} THEN cash \cup {<<session, k, n>>} ELSE cash
        /\ inDrawer' = IF k = "quick" /\ session THEN inDrawer \cup {n} ELSE inDrawer
        /\ UNCHANGED <<seed, found, drawer, totals, history, tables, posted, runs>>

SeedingInit ==
    /\ seed = [at |-> "new", kind |-> "purchase", n |-> 1, read |-> 0]
    /\ found = [documents |-> [k \in DocumentKind |-> {}], session |-> FALSE]
    /\ numbers = [k \in DocumentKind |-> {}]
    /\ drawer = FALSE /\ inDrawer = {} /\ cash = {} /\ totals = {}
    /\ shelf = 0 /\ history = 0
    /\ tables = {}
    /\ posted = [p \in {"notices", "audits"} |-> 0]
    /\ runs = 0

-----------------------------------------------------------------------------
(* Properties *)

\* count + 1 is free: the shop can register the next document of every kind.
NumbersGoOn == \A k \in DocumentKind : Cardinality(numbers[k]) + 1 \notin numbers[k]

DemoCash == {Manual} \cup ({TRUE} \X DocumentKind \X DemoCodes)

\* What one undisturbed run leaves.  The kardex says one unit more than there
\* is.
FreshlySeeded ==
    /\ \A k \in DocumentKind : DemoCodes \subseteq numbers[k]
    /\ shelf = CatalogueStock + Cardinality(Received) - Demo - Cardinality(Fitted)
    /\ history = shelf + CountedTwice
    /\ {c \in cash : c[1]} = {c \in DemoCash : c = Manual \/ Collects(c[2], c[3])}
    /\ totals = {c \in cash : c[1]}
    /\ inDrawer = DemoCodes
    /\ tables = {"users", "customers", "products", "services", "suppliers", "settings"}
    /\ \A p \in DOMAIN posted : posted[p] = 1

\* The script finishes its run.
SeedingFinishes == Seeding /\ seed'.at = "finished"
=============================================================================

------------------------------ MODULE Purchases ------------------------------
(***************************************************************************)
(* PurchasesService: create, update, receive and cancel, ADMIN only.       *)
(* receive computes stocks and received quantities from rows it read       *)
(* without a lock; update and cancel check the status outside the          *)
(* statement that writes.                                                  *)
(***************************************************************************)
EXTENDS ProductRows, CashBook

CONSTANTS
    Supply,         \* CreatePurchaseOrderDto values that pass the checks of create
    MaxPurchases    \* bound: purchase orders ever created

\* The items name each product once, and a purchase is paid from cash only
\* when it is paid.  PARTIAL, a third payment status, is not told apart from
\* PENDING: no condition of the code does.
SupplyType ==
    [items: Seq([product: Product, quantity: Nat \ {0}]), total: Nat,
     payment: {"PENDING", "PAID"}, fromCash: BOOLEAN, method: Method]

ASSUME SupplyAssumption ==
    /\ Supply \subseteq
         {s \in SupplyType : /\ s.items # <<>>
                             /\ s.fromCash => s.payment = "PAID"
                             /\ \A i, j \in DOMAIN s.items :
                                  s.items[i].product = s.items[j].product => i = j}
    /\ MaxPurchases \in Nat

VARIABLES
    purchase,       \* committed PurchaseOrder rows by the number in OC-000001...
    purchasing      \* the local variables of the purchase handler of r, or None

purchaseVars == <<purchase, purchasing>>

PurchaseNumber == 1..MaxPurchases

NoPurchase == [status |-> "NONE"]

\* received[i] is receivedQuantity of item i, arrived[i] the sum of the
\* InventoryMovement rows its receptions have left.
NewPurchase(s) ==
    LET none == [i \in DOMAIN s.items |-> 0]
    IN  [status |-> "PENDING", supply |-> s, payment |-> s.payment,
         received |-> none, arrived |-> none]

Ordered == {n \in PurchaseNumber : purchase[n].status # "NONE"}

Finished(n) == purchase[n].status \in {"RECEIVED", "CANCELLED"}

\* Local variables: the order, its received quantities as first read, the
\* quantities to receive now, the item at hand and its stock as read, and the
\* status or payment to write.
Locals(n, s, base, due, payment) ==
    [number |-> n, supply |-> s, base |-> base, due |-> due, at |-> 1, seen |-> 0,
     status |-> "PENDING", payment |-> payment]

Purchasing(r) == purchasing[r]

-----------------------------------------------------------------------------
(* create *)

StartPurchase(r, s) ==
    /\ Step(r, "idle", "countPurchases")
    /\ userOf[r] \in Admin
    /\ \A i \in DOMAIN s.items : active[s.items[i].product]
    /\ purchasing' = [purchasing EXCEPT ![r] = Locals(0, s, <<>>, <<>>, s.payment)]
    /\ UNCHANGED <<rowVars, cashVars, purchase>>

\* generateCode: count + 1.
CountPurchases(r) ==
    /\ Step(r, "countPurchases", "insertPurchase")
    /\ Cardinality(Ordered) < MaxPurchases
    /\ purchasing' = [purchasing EXCEPT ![r].number = Cardinality(Ordered) + 1]
    /\ UNCHANGED <<rowVars, cashVars, purchase>>

HasInsertedPurchase(r) == pc[r] \in {"payPurchase", "commitPurchase"}

\* The unique index on PurchaseOrder.code.
InsertPurchase(r) ==
    /\ Step(r, "insertPurchase",
            IF Purchasing(r).supply.fromCash THEN "payPurchase" ELSE "commitPurchase")
    /\ Purchasing(r).number \notin Ordered
    /\ \A q \in Request :
         HasInsertedPurchase(q) => Purchasing(q).number # Purchasing(r).number
    /\ UNCHANGED <<rowVars, cashVars, purchaseVars>>

\* registerCashExpense: the buyer must have an open session.
PayPurchase(r) ==
    LET s == Purchasing(r).supply
    IN  /\ Step(r, "payPurchase", "commitPurchase")
        /\ \E x \in OpenSessionsOf(userOf[r]) : till' = [till EXCEPT ![r] = x]
        /\ posting' = [posting EXCEPT ![r] = PostOne("EXPENSE", s.method, s.total)]
        /\ UNCHANGED <<rowVars, session, takings, purchaseVars>>

CommitPurchase(r) ==
    /\ Step(r, "commitPurchase", "idle")
    /\ purchase' = [purchase EXCEPT ![Purchasing(r).number] = NewPurchase(Purchasing(r).supply)]
    /\ purchasing' = [purchasing EXCEPT ![r] = None]
    /\ CommitPostings(r)
    /\ UNCHANGED <<rowVars, session>>

-----------------------------------------------------------------------------
(* receive *)

\* What is received of item i: what the request names, or all that is pending
\* when it names nothing.
Pending(n) == [i \in DOMAIN purchase[n].received |->
                 purchase[n].supply.items[i].quantity - purchase[n].received[i]]

StartReceive(r, n, due) ==
    /\ Step(r, "idle", "readItem")
    /\ userOf[r] \in Admin
    /\ n \in Ordered /\ ~Finished(n)
    /\ purchasing' = [purchasing EXCEPT ![r] =
         Locals(n, purchase[n].supply, purchase[n].received, due, purchase[n].payment)]
    /\ UNCHANGED <<rowVars, cashVars, purchase>>

SkipItem(r) ==
    LET b == Purchasing(r)
    IN  /\ Step(r, "readItem", "readItem")
        /\ b.at <= Len(b.supply.items) /\ b.due[b.at] = 0
        /\ purchasing' = [purchasing EXCEPT ![r].at = @ + 1]
        /\ UNCHANGED <<rowVars, cashVars, purchase>>

\* "La cantidad recibida supera lo pendiente", by the quantities first read;
\* then the product is read.
ReadItem(r) ==
    LET b == Purchasing(r)
    IN  /\ Step(r, "readItem", "storeItem")
        /\ b.at <= Len(b.supply.items) /\ b.due[b.at] > 0
        /\ b.base[b.at] + b.due[b.at] <= b.supply.items[b.at].quantity
        /\ purchasing' = [purchasing EXCEPT ![r].seen = Visible(r, b.supply.items[b.at].product)]
        /\ UNCHANGED <<rowVars, cashVars, purchase>>

\* Stock, receivedQuantity and movement of one item.  The item row needs no
\* lock of its own: whoever writes it holds the row of its product.
StoreItem(r) ==
    LET b == Purchasing(r)
    IN  /\ Step(r, "storeItem", "readItem")
        /\ WriteStock(r, b.supply.items[b.at].product, b.seen + b.due[b.at], b.due[b.at])
        /\ purchasing' = [purchasing EXCEPT ![r].at = @ + 1]
        /\ UNCHANGED <<cashVars, purchase>>

\* Items the transaction of r has written.
Stored(r) == {i \in DOMAIN Purchasing(r).due : i < Purchasing(r).at /\ Purchasing(r).due[i] > 0}

\* receivedQuantity as r reads it back.
Refreshed(r) ==
    LET b == Purchasing(r)
    IN  [i \in DOMAIN b.due |-> IF i \in Stored(r) THEN b.base[i] + b.due[i]
                                                   ELSE purchase[b.number].received[i]]

StatusOf(s, received) ==
    IF \A i \in DOMAIN s.items : received[i] >= s.items[i].quantity THEN "RECEIVED"
    ELSE IF \E i \in DOMAIN s.items : received[i] > 0 THEN "PARTIALLY_RECEIVED"
    ELSE "PENDING"

\* Faulty variant: the status is computed from what was first read.
FaultyRefreshItems(r) ==
    LET b == Purchasing(r)
    IN  /\ Step(r, "readItem", "writeStatus")
        /\ b.at > Len(b.supply.items)
        /\ purchasing' = [purchasing EXCEPT ![r].status = StatusOf(b.supply, b.base)]
        /\ UNCHANGED <<rowVars, cashVars, purchase>>

\* The items are read again, after the last one is stored.
RefreshItems(r) ==
    LET b == Purchasing(r)
    IN  /\ Step(r, "readItem", "writeStatus")
        /\ b.at > Len(b.supply.items)
        /\ purchasing' = [purchasing EXCEPT ![r].status = StatusOf(b.supply, Refreshed(r))]
        /\ UNCHANGED <<rowVars, cashVars, purchase>>

\* Requests that hold the PurchaseOrder row n.
HoldsPurchase(q, n) == pc[q] = "commitReceive" /\ Purchasing(q).number = n

FreePurchase(n) == \A q \in Request : ~HoldsPurchase(q, n)

\* The update of the order waits for its row and writes the status computed.
WriteReceived(r) ==
    /\ Step(r, "writeStatus", "commitReceive")
    /\ FreePurchase(Purchasing(r).number)
    /\ UNCHANGED <<rowVars, cashVars, purchaseVars>>

CommitReceive(r) ==
    LET b == Purchasing(r)
        w == purchase[b.number]
        arrived == [i \in DOMAIN w.arrived |->
                      w.arrived[i] + IF i \in Stored(r) THEN b.due[i] ELSE 0]
    IN  /\ Step(r, "commitReceive", "idle")
        /\ purchase' = [purchase EXCEPT ![b.number] =
             [w EXCEPT !.status = b.status, !.received = Refreshed(r), !.arrived = arrived]]
        /\ CommitRows(r)
        /\ purchasing' = [purchasing EXCEPT ![r] = None]
        /\ UNCHANGED cashVars

-----------------------------------------------------------------------------
(* cancel and update: the status is read, then one UPDATE names the id *)

StartCancelPurchase(r, n) ==
    /\ Step(r, "idle", "writeCancelled")
    /\ userOf[r] \in Admin
    /\ n \in Ordered /\ ~Finished(n)
    /\ purchasing' = [purchasing EXCEPT ![r] =
         Locals(n, purchase[n].supply, <<>>, <<>>, purchase[n].payment)]
    /\ UNCHANGED <<rowVars, cashVars, purchase>>

WriteCancelled(r) ==
    /\ Step(r, "writeCancelled", "idle")
    /\ FreePurchase(Purchasing(r).number)
    /\ purchase' = [purchase EXCEPT ![Purchasing(r).number].status = "CANCELLED"]
    /\ purchasing' = [purchasing EXCEPT ![r] = None]
    /\ UNCHANGED <<rowVars, cashVars>>

\* The payment status is the one the request states; PartialType keeps the
\* default of CreatePurchaseOrderDto, so a request that states none states
\* PENDING.
StartUpdatePurchase(r, n, payment) ==
    /\ Step(r, "idle", "writePayment")
    /\ userOf[r] \in Admin
    /\ n \in Ordered /\ ~Finished(n)
    /\ purchasing' = [purchasing EXCEPT ![r] =
         Locals(n, purchase[n].supply, <<>>, <<>>, payment)]
    /\ UNCHANGED <<rowVars, cashVars, purchase>>

WritePayment(r) ==
    /\ Step(r, "writePayment", "idle")
    /\ FreePurchase(Purchasing(r).number)
    /\ purchase' = [purchase EXCEPT ![Purchasing(r).number].payment = Purchasing(r).payment]
    /\ purchasing' = [purchasing EXCEPT ![r] = None]
    /\ UNCHANGED <<rowVars, cashVars>>

-----------------------------------------------------------------------------
PurchaseLabel ==
    {"countPurchases", "insertPurchase", "payPurchase", "commitPurchase", "readItem",
     "storeItem", "writeStatus", "commitReceive", "writeCancelled", "writePayment"}

\* Faulty variant: receivedQuantity is written through this.prisma, and stays
\* written when the transaction is rolled back.
FaultyRollbackPurchase(r) ==
    /\ pc[r] \in PurchaseLabel
    /\ pc' = [pc EXCEPT ![r] = "idle"]
    /\ purchase' = IF pc[r] \in {"readItem", "storeItem", "writeStatus", "commitReceive"}
                    THEN [purchase EXCEPT ![Purchasing(r).number].received = Refreshed(r)]
                    ELSE purchase
    /\ RollbackRows(r)
    /\ DropPostings(r)
    /\ purchasing' = [purchasing EXCEPT ![r] = None]
    /\ UNCHANGED session

RollbackPurchase(r) ==
    /\ pc[r] \in PurchaseLabel
    /\ pc' = [pc EXCEPT ![r] = "idle"]
    /\ RollbackRows(r)
    /\ DropPostings(r)
    /\ purchasing' = [purchasing EXCEPT ![r] = None]
    /\ UNCHANGED <<session, purchase>>

PurchaseStep(r) ==
    \/ CountPurchases(r) \/ InsertPurchase(r) \/ PayPurchase(r) \/ CommitPurchase(r)
    \/ SkipItem(r) \/ ReadItem(r) \/ StoreItem(r) \/ RefreshItems(r)
    \/ WriteReceived(r) \/ CommitReceive(r)
    \/ WriteCancelled(r) \/ WritePayment(r)

\* A request names the quantities of some items, not necessarily all that is
\* pending, or none; quantities start at 1 and an item not named gets 0.
Named(n) ==
    {Pending(n)} \cup {[i \in DOMAIN Pending(n) |-> IF i = j THEN k ELSE 0] :
                         j \in DOMAIN Pending(n), k \in {1, 2}}

PurchasesNext ==
    \E r \in Request :
        \/ \E s \in Supply : StartPurchase(r, s)
        \/ \E n \in Ordered : \/ \E due \in Named(n) : StartReceive(r, n, due)
                              \/ StartCancelPurchase(r, n)
                              \/ \E p \in {"PENDING", "PAID"} : StartUpdatePurchase(r, n, p)
        \/ PurchaseStep(r)
        \/ RollbackPurchase(r)

PurchasesInit ==
    /\ purchase = [n \in PurchaseNumber |-> NoPurchase]
    /\ purchasing = [r \in Request |-> None]

-----------------------------------------------------------------------------
(* Properties *)

\* However receptions race, no item counts more units than were ordered, or
\* units whose stock did not come in with the same commit: the quantities
\* written may be stale, but the sum written is the sum checked.
ReceivedHasArrived ==
    \A n \in Ordered : \A i \in DOMAIN purchase[n].received :
        /\ purchase[n].received[i] \in 0..purchase[n].supply.items[i].quantity
        /\ purchase[n].received[i] <= purchase[n].arrived[i]

\* The status tells what has arrived, all of it counted.
PurchasesAddUp ==
    \A n \in Ordered :
        /\ purchase[n].received = purchase[n].arrived
        /\ purchase[n].status # "CANCELLED" =>
             purchase[n].status = StatusOf(purchase[n].supply, purchase[n].arrived)
=============================================================================

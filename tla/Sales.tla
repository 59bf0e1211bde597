-------------------------------- MODULE Sales --------------------------------
(***************************************************************************)
(* SalesService.create and SalesService.cancel, one action per statement   *)
(* that another request can come between.  Both run inside one Prisma      *)
(* transaction; a thrown exception, a unique violation, a deadlock, the    *)
(* transaction timeout and a dead connection all roll it back.             *)
(***************************************************************************)
EXTENDS ProductRows, CashBook, Sequences, Functions

CONSTANTS
    Order,      \* CreateSaleDto values: [items, total, pays]
    taken,      \* taken[o][i][p]: units of p in the first i items of o
    MaxSales    \* bound: sales ever registered

\* An order holds the items in the client's order (a product may repeat), the
\* total calculateTotals gives for them and the amount paid per method, which
\* may be less than the total (PARTIAL, PENDING) or more.
OrderType ==
    [items: Seq([product: Product, quantity: Nat \ {0}]),
     total: Nat,
     pays: [Method -> Nat]]

ASSUME SalesAssumption ==
    /\ Order \subseteq {o \in OrderType : o.items # <<>>}
    /\ MaxSales \in Nat

\* The recurrence that defines taken.
ASSUME TakenAssumption ==
    \A o \in Order :
        /\ taken[o] \in [0..Len(o.items) -> [Product -> Nat]]
        /\ taken[o][0] = NoMoves
        /\ \A i \in 1..Len(o.items) : taken[o][i] =
             [taken[o][i - 1] EXCEPT ![o.items[i].product] = @ + o.items[i].quantity]

VARIABLES
    sale,       \* committed Sale rows by the number in their code V-000001...
    order,      \* the order r is working on
    at,         \* index of the item r is working on
    seen,       \* Product.stock as cancel last read it
    number      \* the sale number r computed, or the sale r cancels

saleVars == <<sale, order, at, seen, number>>
vars == <<pc, rowVars, cashVars, saleVars>>

SaleNumber == 1..MaxSales

NoSale == [status |-> "NONE"]

SaleRow ==
    [status: {"COMPLETED", "CANCELLED"}, order: Order, till: Session,
     cancellations: Nat]

Registered == {n \in SaleNumber : sale[n].status # "NONE"}

Item(r) == order[r].items[at[r]]

\* Advance to the next item of the order, or to `next' after the last one.
NextItem(r, from, again, next) ==
    /\ pc[r] = from
    /\ \/ /\ at[r] < Len(order[r].items)
          /\ Step(r, from, again)
          /\ at' = [at EXCEPT ![r] = @ + 1]
       \/ /\ at[r] >= Len(order[r].items)
          /\ Step(r, from, next)
          /\ at' = [at EXCEPT ![r] = 1]

-----------------------------------------------------------------------------
(* create *)

StartSale(r, o) ==
    /\ Step(r, "idle", "validate")
    /\ order' = [order EXCEPT ![r] = o]
    /\ at' = [at EXCEPT ![r] = 1]
    /\ UNCHANGED <<rowVars, cashVars, sale, seen, number>>

\* ProductSaleStrategy.validateAndBuild reads the product of one item.  The
\* updates it builds are lazy: they run only when create awaits them.
ValidateItem(r) ==
    /\ NextItem(r, "validate", "validate", "count")
    /\ active[Item(r).product]
    /\ Visible(r, Item(r).product) >= Item(r).quantity
    /\ UNCHANGED <<rowVars, cashVars, sale, order, seen, number>>

\* Requests whose transaction has inserted a Sale row and not yet committed.
HasInserted(r) == pc[r] \in {"decrement", "collect", "commitSale"}

\* Faulty variant: the code comes from a counter that also counts the sales
\* still in flight.
FaultyCountSales(r) ==
    LET reserved == Registered \cup {number[q] : q \in {x \in Request : HasInserted(x)}}
    IN  /\ Step(r, "count", "insert")
        /\ Cardinality(reserved) < MaxSales
        /\ number' = [number EXCEPT ![r] = Cardinality(reserved) + 1]
        /\ UNCHANGED <<rowVars, cashVars, sale, order, at, seen>>

\* generateSaleCode: count + 1.
CountSales(r) ==
    /\ Step(r, "count", "insert")
    /\ Cardinality(Registered) < MaxSales
    /\ number' = [number EXCEPT ![r] = Cardinality(Registered) + 1]
    /\ UNCHANGED <<rowVars, cashVars, sale, order, at, seen>>

\* Faulty variant: Sale.code without its unique index.
FaultyInsertSale(r) ==
    /\ Step(r, "insert", "decrement")
    /\ UNCHANGED <<rowVars, cashVars, saleVars>>

\* The unique index on Sale.code: the insert waits for a transaction that has
\* inserted the same code, and fails once that code is committed.
InsertSale(r) ==
    /\ Step(r, "insert", "decrement")
    /\ number[r] \notin Registered
    /\ \A q \in Request : HasInserted(q) => number[q] # number[r]
    /\ UNCHANGED <<rowVars, cashVars, saleVars>>

\* Faulty variant: update({ where: { id } }), trusting the earlier check.
FaultyDecrementStock(r) ==
    LET p == Item(r).product
        q == Item(r).quantity
    IN  /\ NextItem(r, "decrement", "decrement", "collect")
        /\ WriteStock(r, p, live[p] - q, -q)
        /\ UNCHANGED <<cashVars, sale, order, seen, number>>

\* updateMany({ where: { id, stock: { gte } }, data: { decrement } }): the
\* condition is evaluated on the row the statement locks.
DecrementStock(r) ==
    LET p == Item(r).product
        q == Item(r).quantity
    IN  /\ NextItem(r, "decrement", "decrement", "collect")
        /\ live[p] >= q
        /\ WriteStock(r, p, live[p] - q, -q)
        /\ UNCHANGED <<cashVars, sale, order, seen, number>>

\* Faulty variant: a seller without a session is let through.
FaultyCollectPayment(r) ==
    /\ Step(r, "collect", "commitSale")
    /\ till' = [till EXCEPT ![r] =
                  IF OpenSessionsOf(userOf[r]) = {} THEN None
                  ELSE CHOOSE s \in OpenSessionsOf(userOf[r]) : TRUE]
    /\ posting' = [posting EXCEPT ![r] = Post("SALE", order[r].pays)]
    /\ UNCHANGED <<rowVars, session, takings, saleVars>>

\* Faulty variant: findOpenAny instead of findOpenByUser.
FaultyCollectAnywhere(r) ==
    /\ Step(r, "collect", "commitSale")
    /\ \E s \in UNION {OpenSessionsOf(u) : u \in User} : till' = [till EXCEPT ![r] = s]
    /\ posting' = [posting EXCEPT ![r] = Post("SALE", order[r].pays)]
    /\ UNCHANGED <<rowVars, session, takings, saleVars>>

\* registerSaleMovement: the seller must have an open session.
CollectPayment(r) ==
    /\ Step(r, "collect", "commitSale")
    /\ \E s \in OpenSessionsOf(userOf[r]) : till' = [till EXCEPT ![r] = s]
    /\ posting' = [posting EXCEPT ![r] = Post("SALE", order[r].pays)]
    /\ UNCHANGED <<rowVars, session, takings, saleVars>>

\* The handler has answered: its local variables are gone.
Forget(r) ==
    /\ order' = [order EXCEPT ![r] = None]
    /\ at' = [at EXCEPT ![r] = 1]
    /\ seen' = [seen EXCEPT ![r] = 0]
    /\ number' = [number EXCEPT ![r] = 0]

CommitSale(r) ==
    /\ Step(r, "commitSale", "idle")
    /\ sale' = [sale EXCEPT ![number[r]] =
                  [status |-> "COMPLETED", order |-> order[r],
                   till |-> till[r], cancellations |-> 0]]
    /\ CommitRows(r)
    /\ CommitPostings(r)
    /\ Forget(r)
    /\ UNCHANGED session

-----------------------------------------------------------------------------
(* cancel *)

\* Faulty variant: the status of the sale is not looked at.
FaultyStartCancel(r, n) ==
    /\ Step(r, "idle", "readStock")
    /\ userOf[r] \in Admin
    /\ n \in Registered
    /\ number' = [number EXCEPT ![r] = n]
    /\ order' = [order EXCEPT ![r] = sale[n].order]
    /\ at' = [at EXCEPT ![r] = 1]
    /\ UNCHANGED <<rowVars, cashVars, sale, seen>>

\* The sale is read, without a lock, and must not be CANCELLED.
StartCancel(r, n) ==
    /\ Step(r, "idle", "readStock")
    /\ userOf[r] \in Admin
    /\ sale[n].status = "COMPLETED"
    /\ number' = [number EXCEPT ![r] = n]
    /\ order' = [order EXCEPT ![r] = sale[n].order]
    /\ at' = [at EXCEPT ![r] = 1]
    /\ UNCHANGED <<rowVars, cashVars, sale, seen>>

\* Faulty variant: the product is read through this.prisma, not tx.
FaultyReadStock(r) ==
    /\ Step(r, "readStock", "restock")
    /\ seen' = [seen EXCEPT ![r] = stock[Item(r).product]]
    /\ UNCHANGED <<rowVars, cashVars, sale, order, at, number>>

\* The product of one item is read in the transaction, without a lock.
ReadStock(r) ==
    /\ Step(r, "readStock", "restock")
    /\ seen' = [seen EXCEPT ![r] = Visible(r, Item(r).product)]
    /\ UNCHANGED <<rowVars, cashVars, sale, order, at, number>>

\* The stock is overwritten with the value read before plus the quantity.
Restock(r) ==
    /\ NextItem(r, "restock", "readStock", "mark")
    /\ WriteStock(r, Item(r).product, seen[r] + Item(r).quantity, Item(r).quantity)
    /\ UNCHANGED <<cashVars, sale, order, seen, number>>

HasMarked(r) == pc[r] \in {"refund", "commitCancel"}

\* The update of the Sale row waits for another cancellation that holds it
\* and does not look at the status again.
MarkCancelled(r) ==
    /\ Step(r, "mark", "refund")
    /\ \A q \in Request : HasMarked(q) => number[q] # number[r]
    /\ UNCHANGED <<rowVars, cashVars, saleVars>>

\* Faulty variant: the refund is a movement of type SALE.
FaultyRefundSale(r) ==
    /\ Step(r, "refund", "commitCancel")
    /\ \E s \in OpenSessionsOf(userOf[r]) : till' = [till EXCEPT ![r] = s]
    /\ posting' = [posting EXCEPT ![r] = PostOne("SALE", "CASH", -order[r].total)]
    /\ UNCHANGED <<rowVars, session, takings, saleVars>>

\* registerSaleCancellation: an ADJUSTMENT of -total, in cash, in an open
\* session of the user who cancels; nothing when that user has none.
RefundSale(r) ==
    /\ Step(r, "refund", "commitCancel")
    /\ \/ \E s \in OpenSessionsOf(userOf[r]) :
            /\ till' = [till EXCEPT ![r] = s]
            /\ posting' = [posting EXCEPT ![r] =
                             PostOne("INCOME", "CASH", -order[r].total)]
       \/ /\ OpenSessionsOf(userOf[r]) = {}
          /\ UNCHANGED <<till, posting>>
    /\ UNCHANGED <<rowVars, session, takings, saleVars>>

CommitCancel(r) ==
    /\ Step(r, "commitCancel", "idle")
    /\ sale' = [sale EXCEPT ![number[r]].status = "CANCELLED",
                            ![number[r]].cancellations = @ + 1]
    /\ CommitRows(r)
    /\ CommitPostings(r)
    /\ Forget(r)
    /\ UNCHANGED session

-----------------------------------------------------------------------------
CreateLabel == {"validate", "count", "insert", "decrement", "collect", "commitSale"}
CancelLabel == {"readStock", "restock", "mark", "refund", "commitCancel"}
SaleLabel == CreateLabel \cup CancelLabel

\* Faulty variant: stock and InventoryMovement rows are written through
\* this.prisma, and stay written when the transaction is rolled back.
FaultyRollbackStock(r) ==
    /\ pc[r] \in SaleLabel
    /\ pc' = [pc EXCEPT ![r] = "idle"]
    /\ CommitRows(r)
    /\ DropPostings(r)
    /\ Forget(r)
    /\ UNCHANGED <<session, sale>>

\* Faulty variant: only the InventoryMovement rows are.
FaultyRollbackMovements(r) ==
    /\ pc[r] \in SaleLabel
    /\ pc' = [pc EXCEPT ![r] = "idle"]
    /\ live' = [p \in Product |-> IF holder[p] = r THEN stock[p] ELSE live[p]]
    /\ holder' = Released(r)
    /\ kardex' = [p \in Product |-> kardex[p] + moved[r][p]]
    /\ moved' = [moved EXCEPT ![r] = NoMoves]
    /\ DropPostings(r)
    /\ Forget(r)
    /\ UNCHANGED <<stock, active, session, sale>>

\* Any throw, failed statement, timeout or lost connection.
RollbackSale(r) ==
    /\ pc[r] \in SaleLabel
    /\ pc' = [pc EXCEPT ![r] = "idle"]
    /\ RollbackRows(r)
    /\ DropPostings(r)
    /\ Forget(r)
    /\ UNCHANGED <<session, sale>>

\* The statement create executes next cannot succeed: a check that throws, or
\* a code already registered.
SaleRefused(r) ==
    \/ /\ pc[r] = "validate"
       /\ \/ ~active[Item(r).product]
          \/ Visible(r, Item(r).product) < Item(r).quantity
    \/ pc[r] = "count" /\ Cardinality(Registered) >= MaxSales
    \/ pc[r] = "insert" /\ number[r] \in Registered
    \/ /\ pc[r] = "decrement"
       /\ MayWrite(r, Item(r).product)
       /\ live[Item(r).product] < Item(r).quantity
    \/ pc[r] = "collect" /\ OpenSessionsOf(userOf[r]) = {}

CreateStep(r) ==
    \/ ValidateItem(r) \/ CountSales(r) \/ InsertSale(r)
    \/ DecrementStock(r) \/ CollectPayment(r) \/ CommitSale(r)

CancelStep(r) ==
    \/ ReadStock(r) \/ Restock(r) \/ MarkCancelled(r)
    \/ RefundSale(r) \/ CommitCancel(r)

SellNext ==
    \E r \in Request : \/ \E o \in Order : StartSale(r, o)
                       \/ CreateStep(r)
                       \/ RollbackSale(r)

CancelNext ==
    \E r \in Request : \/ \E n \in SaleNumber : StartCancel(r, n)
                       \/ CancelStep(r)

Init ==
    /\ pc = [r \in Request |-> "idle"]
    /\ RowsInit
    /\ CashBookInit
    /\ sale = [n \in SaleNumber |-> NoSale]
    /\ order = [r \in Request |-> None]
    /\ at = [r \in Request |-> 1]
    /\ seen = [r \in Request |-> 0]
    /\ number = [r \in Request |-> 0]

Next == SellNext \/ CancelNext

Spec == Init /\ [][Next]_vars

\* The shop without cancellations: any number of sales at once.
SellSpec == Init /\ [][SellNext]_vars

-----------------------------------------------------------------------------
(* Properties *)

\* Every variable has its type.  Of pc only the slots are fixed: a composition
\* adds the statements of other handlers.
TypeOK ==
    /\ DOMAIN pc = Request
    /\ RowsTypeOK
    /\ CashBookTypeOK
    /\ sale \in [SaleNumber -> SaleRow \cup {NoSale}]
    /\ order \in [Request -> Order \cup {None}]
    /\ at \in [Request -> Nat]
    /\ seen \in [Request -> Int]
    /\ number \in [Request -> Nat]

\* Neither the committed stock nor a version being written is ever below
\* zero, whatever sales and cancellations run at once: the check
\* validateAndBuild makes may be stale when the decrement runs, the condition
\* of the decrement is not.
StockNeverNegative == \A p \in Product : stock[p] >= 0 /\ live[p] >= 0

\* The codes of the registered sales are V-000001, V-000002, ... without gap
\* or repetition: count + 1 is computed without a lock, and the unique index
\* turns every collision into a rollback.
CodesAreConsecutive == Registered = 1..Cardinality(Registered)

\* A sale is cancelled at most once ("La venta ya fue anulada"), though the
\* transaction that writes the cancellation does not look at the status again.
CancelledOnce == \A n \in Registered : sale[n].cancellations <= 1

\* What the registered sales were paid by each method, and those of a session.
PaidBy(m) == [n \in Registered |-> sale[n].order.pays[m]]

SalesIn(s) == {n \in Registered : sale[n].till = s}

\* The SALE movements of every session are the payments of the sales
\* registered in it, per method: a sale and its payments commit together, and
\* a cancellation takes its refund from elsewhere.
TakingsMatchSales ==
    \A s \in Session, m \in Method :
        takings[s]["SALE"][m] = SumFunctionOnSet(PaidBy(m), SalesIn(s))

\* At most one sale is between its insert and its commit: two sales never hold
\* product rows together, since both would need the next code, and the index
\* makes the second wait and then fail.
SalesAreSerialised ==
    \A q, r \in Request : HasInserted(q) /\ HasInserted(r) => q = r

\* The stock is the initial stock plus what the InventoryMovement rows say: no
\* update is lost ("El stock se descuenta automaticamente").  True of sales
\* alone; cancellations and adjustments write stocks they computed before.
KardexExplainsStock == \A p \in Product : stock[p] = InitialStock[p] + kardex[p]

\* Concurrent sales amount to sales made one at a time.
Ledger == INSTANCE StockLedger
            WITH shelf <- stock, sold <- [p \in Product |-> -kardex[p]],
                 Demand <- {taken[o][Len(o.items)] : o \in Order}

SalesAreAtomic == Ledger!Spec
=============================================================================

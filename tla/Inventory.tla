------------------------------ MODULE Inventory ------------------------------
(***************************************************************************)
(* InventoryService.adjustStock and deactivateProduct.  adjustStock reads  *)
(* the product and computes its new stock before its transaction begins,   *)
(* and writes the value computed.                                          *)
(***************************************************************************)
EXTENDS Sales

CONSTANTS
    Adjustment,     \* AdjustStockDto values: [type, quantity]
    MaxStock        \* bound: stock an adjustment may lead to

ASSUME AdjustmentAssumption ==
    /\ Adjustment \subseteq [type: {"IN", "OUT", "ADJUSTMENT"}, quantity: Nat]
    /\ MaxStock \in Nat

VARIABLE adjusting  \* what adjustStock of r has read and computed, or None

inventoryVars == <<pc, rowVars, adjusting>>

Adjusting == [product: Product, previousStock: Int, newStock: Int]

\* An ADJUSTMENT states the stock that was counted.
ResolveNewStock(previousStock, a) ==
    CASE a.type = "IN" -> previousStock + a.quantity
      [] a.type = "OUT" -> previousStock - a.quantity
      [] a.type = "ADJUSTMENT" -> a.quantity

\* Faulty variant: the result of an OUT is not checked.
FaultyStartAdjust(r, p, a) ==
    /\ Step(r, "idle", "writeAdjust")
    /\ userOf[r] \in Admin
    /\ ResolveNewStock(stock[p], a) <= MaxStock
    /\ adjusting' = [adjusting EXCEPT ![r] =
                       [product |-> p, previousStock |-> stock[p],
                        newStock |-> ResolveNewStock(stock[p], a)]]
    /\ UNCHANGED rowVars

\* "El stock no puede quedar en negativo".
StartAdjust(r, p, a) ==
    /\ Step(r, "idle", "writeAdjust")
    /\ userOf[r] \in Admin
    /\ ResolveNewStock(stock[p], a) \in 0..MaxStock
    /\ adjusting' = [adjusting EXCEPT ![r] =
                       [product |-> p, previousStock |-> stock[p],
                        newStock |-> ResolveNewStock(stock[p], a)]]
    /\ UNCHANGED rowVars

WriteAdjust(r) ==
    LET a == adjusting[r]
    IN  /\ Step(r, "writeAdjust", "commitAdjust")
        /\ WriteStock(r, a.product, a.newStock, a.newStock - a.previousStock)
        /\ UNCHANGED adjusting

CommitAdjust(r) ==
    /\ Step(r, "commitAdjust", "idle")
    /\ CommitRows(r)
    /\ adjusting' = [adjusting EXCEPT ![r] = None]

AdjustLabel == {"writeAdjust", "commitAdjust"}

RollbackAdjust(r) ==
    /\ pc[r] \in AdjustLabel
    /\ pc' = [pc EXCEPT ![r] = "idle"]
    /\ RollbackRows(r)
    /\ adjusting' = [adjusting EXCEPT ![r] = None]

\* One UPDATE, committed at once.  Nothing makes a product active again.
DeactivateProduct(r, p) ==
    /\ Idle(r)
    /\ userOf[r] \in Admin
    /\ holder[p] = None
    /\ active' = [active EXCEPT ![p] = FALSE]
    /\ UNCHANGED <<pc, stock, live, holder, kardex, moved, adjusting>>

InventoryNext ==
    \E r \in Request :
        \/ \E p \in Product, a \in Adjustment : StartAdjust(r, p, a)
        \/ WriteAdjust(r) \/ CommitAdjust(r) \/ RollbackAdjust(r)
        \/ \E p \in Product : DeactivateProduct(r, p)

-----------------------------------------------------------------------------
(* Properties *)

\* Every variable has its type.
InventoryTypeOK ==
    /\ DOMAIN pc = Request
    /\ RowsTypeOK
    /\ adjusting \in [Request -> Adjusting \cup {None}]

-----------------------------------------------------------------------------
(* The stockroom: with Sales, every handler that writes Product.stock on   *)
(* behalf of the shop floor, over one Product table.                       *)

stockroomVars == <<vars, adjusting>>

StockroomInit == Init /\ adjusting = [r \in Request |-> None]

StockroomNext ==
    \/ Next /\ UNCHANGED adjusting
    \/ InventoryNext /\ UNCHANGED <<cashVars, saleVars>>

StockroomSpec == StockroomInit /\ [][StockroomNext]_stockroomVars
=============================================================================
